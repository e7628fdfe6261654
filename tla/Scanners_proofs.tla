--------------------------- MODULE Scanners_proofs ---------------------------
(***************************************************************************)
(* Theorems about the readers of texts, for texts of any length.           *)
(***************************************************************************)
EXTENDS MCScanners, WellFoundedInduction, SequenceTheorems, TLAPS

\* A set of naturals has a least element: what a proof by induction starts
\* from.
LEMMA LeastNatural ==
  ASSUME NEW T, T \subseteq Nat, T # {}
  PROVE  \E x \in T : \A y \in T : x <= y
<1> DEFINE R == OpToRel(<, Nat)
<1>1. IsWellFoundedOn(R, Nat)  BY NatLessThanWellFounded
<1> HIDE DEF R
<1>2. PICK x \in T : \A y \in T : ~ (<<y, x>> \in R)  BY <1>1, WFMin
<1>3. \A y \in T : ~(y < x)  BY <1>2 DEF OpToRel, R
<1> QED BY <1>3

\* An element of least rank.
LEMMA LeastRank ==
  ASSUME NEW S, NEW rank \in [S -> Nat], NEW T, T \subseteq S, T # {}
  PROVE  \E x \in T : \A y \in S : rank[y] < rank[x] => y \notin T
<1> DEFINE ranks == {rank[x] : x \in T}
<1>1. ranks \subseteq Nat /\ ranks # {}  OBVIOUS
<1>2. PICK r \in ranks : \A q \in ranks : r <= q  BY <1>1, LeastNatural
<1>3. PICK x \in T : rank[x] = r  BY <1>2
<1>4. \A y \in T : rank[y] \in Nat /\ r <= rank[y]  BY <1>2
<1> HIDE DEF ranks
<1> QED BY <1>3, <1>4

\* A function that is defined, at each point, from its value at a point of
\* lower rank, exists: what step[i] leads to, changed by def[i].
Descends(step, rank, S) ==
  /\ rank \in [S -> Nat]
  /\ \A i \in S : step[i] \in S => rank[step[i]] < rank[i]

Recursive(f, S, V, base, step, def) ==
  /\ f \in [S -> V]
  /\ \A i \in S : f[i] = def[i][IF step[i] \in S THEN f[step[i]] ELSE base]

LEMMA RecursiveFunction ==
  ASSUME NEW S, NEW V, NEW base \in V, NEW rank, NEW step, NEW def \in [S -> [V -> V]],
         Descends(step, rank, S)
  PROVE  \E f : Recursive(f, S, V, base, step, def)
<1> USE DEF Descends
<1> DEFINE Up(n) == {i \in S : rank[i] < n}
           Ok(f, n) == \A i \in Up(n) : f[i] = def[i][IF step[i] \in S THEN f[step[i]] ELSE base]
           Good(n) == \E f \in [S -> V] : Ok(f, n)
<1>1. Good(0)
  <2> DEFINE f == [i \in S |-> base]
  <2>1. f \in [S -> V] /\ Up(0) = {}  OBVIOUS
  <2> QED BY <2>1
<1>2. ASSUME NEW n \in Nat, Good(n) PROVE Good(n + 1)
  <2>1. PICK f \in [S -> V] : Ok(f, n)  BY <1>2
  <2> DEFINE g == [i \in S |-> def[i][IF step[i] \in S THEN f[step[i]] ELSE base]]
  <2>2. g \in [S -> V]  OBVIOUS
  <2>3. \A i \in Up(n) : g[i] = f[i]  BY <2>1
  <2>4. \A i \in Up(n + 1) : step[i] \in S => step[i] \in Up(n)  OBVIOUS
  <2>5. Ok(g, n + 1)  BY <2>3, <2>4
  <2> QED BY <2>2, <2>5
<1> HIDE DEF Good
<1>3. \A n \in Nat : Good(n)
  <2> DEFINE Bad == {n \in Nat : ~Good(n)}
  <2> SUFFICES ASSUME Bad # {} PROVE FALSE  OBVIOUS
  <2>1. PICK n \in Bad : \A m \in Bad : n <= m  BY LeastNatural
  <2>2. n \in Nat /\ n # 0  BY <1>1
  <2>3. n - 1 \in Nat /\ n - 1 \notin Bad  BY <2>1, <2>2
  <2>4. Good((n - 1) + 1)  BY <1>2, <2>3
  <2> QED BY <2>2, <2>4
\* One function for every bound: the values below it agree.
<1> DEFINE Fn(n) == CHOOSE f \in [S -> V] : Ok(f, n)
           h == [i \in S |-> Fn(rank[i] + 1)[i]]
<1>4. \A n \in Nat : Fn(n) \in [S -> V] /\ Ok(Fn(n), n)  BY <1>3 DEF Good
<1> HIDE DEF Fn
<1>5. ASSUME NEW m \in Nat, NEW n \in Nat, m <= n
      PROVE  \A i \in Up(m) : Fn(m)[i] = Fn(n)[i]
  <2> DEFINE Bad == {i \in Up(m) : Fn(m)[i] # Fn(n)[i]}
  <2> SUFFICES ASSUME Bad # {} PROVE FALSE  OBVIOUS
  <2>1. PICK i \in Bad : \A j \in S : rank[j] < rank[i] => j \notin Bad
    <3>1. Bad \subseteq S  OBVIOUS
    <3> HIDE DEF Bad
    <3> QED BY <3>1, LeastRank
  <2>2. step[i] \in S => step[i] \in Up(m) /\ step[i] \notin Bad  BY <2>1
  <2>3. i \in Up(m) /\ i \in Up(n)  BY <1>5
  <2>4. Fn(m)[i] = def[i][IF step[i] \in S THEN Fn(m)[step[i]] ELSE base]  BY <1>4, <2>3
  <2>5. Fn(n)[i] = def[i][IF step[i] \in S THEN Fn(n)[step[i]] ELSE base]  BY <1>4, <2>3
  <2>6. step[i] \in S => Fn(m)[step[i]] = Fn(n)[step[i]]  BY <2>2
  <2>7. Fn(m)[i] = Fn(n)[i]  BY <2>4, <2>5, <2>6
  <2> QED BY <2>1, <2>7
<1>6. h \in [S -> V]  BY <1>4
<1>7. ASSUME NEW i \in S
      PROVE  h[i] = def[i][IF step[i] \in S THEN h[step[i]] ELSE base]
  <2> DEFINE n == rank[i] + 1
  <2>1. n \in Nat /\ i \in Up(n)  OBVIOUS
  <2>2. h[i] = def[i][IF step[i] \in S THEN Fn(n)[step[i]] ELSE base]  BY <1>4, <2>1
  <2>3. step[i] \in S => h[step[i]] = Fn(n)[step[i]]  BY <1>5, <2>1
  <2> QED BY <2>2, <2>3
<1> QED BY <1>6, <1>7 DEF Recursive

\* The least element of a set of naturals, as the scanners take it.
LEMMA MinIs ==
  ASSUME NEW T, T \subseteq Nat, T # {}
  PROVE  Min(T) \in T /\ \A y \in T : Min(T) <= y
  BY LeastNatural DEF Min

\* A run of a class ends at the first character that is not of it.
LEMMA RunEndIs ==
  ASSUME NEW Char, NEW s \in Seq(Char), NEW k \in 1..(Len(s) + 1), NEW class, "end" \notin class
  PROVE  /\ RunEnd(s, k, class) \in k..(Len(s) + 1)
         /\ \A j \in k..(RunEnd(s, k, class) - 1) : j \in 1..Len(s) /\ s[j] \in class
         /\ At(s, RunEnd(s, k, class)) \notin class
<1> DEFINE Ends == {j \in k..(Len(s) + 1) : At(s, j) \notin class}
<1>1. Len(s) \in Nat /\ DOMAIN s = 1..Len(s)  OBVIOUS
<1>2. Len(s) + 1 \in Ends  BY <1>1 DEF At
<1>3. Min(Ends) \in Ends /\ \A j \in Ends : Min(Ends) <= j
  <2>1. Ends \subseteq Nat /\ Ends # {}  BY <1>2
  <2> HIDE DEF Ends
  <2> QED BY <2>1, MinIs
<1>4. \A j \in k..(Min(Ends) - 1) : j \in 1..Len(s) /\ s[j] \in class  BY <1>1, <1>3 DEF At
<1> QED BY <1>3, <1>4 DEF RunEnd

-----------------------------------------------------------------------------
(***************************************************************************)
(* Numbers: the end NumberEnd finds is the one of the longest number that  *)
(* starts there and stands alone.                                          *)
(***************************************************************************)

\* A reading that counts.
Stands(s, end) == end # 0 /\ At(s, end) \notin SqlWord

\* NumberEnd, one reading after the other.
LEMMA NumberEndIs ==
  ASSUME NEW Char, NEW s \in Seq(Char), NEW i \in 1..Len(s)
  PROVE  LET intEnd == RunEnd(s, i, SqlDigit)
             fraction == FractionEnd(s, intEnd)
             whole == IF intEnd > i THEN intEnd ELSE 0
         IN NumberEnd(s, i) =
              IF Stands(s, RadixEnd(s, i)) THEN RadixEnd(s, i)
              ELSE IF Stands(s, ExponentEnd(s, fraction)) THEN ExponentEnd(s, fraction)
              ELSE IF Stands(s, fraction) THEN fraction
              ELSE IF Stands(s, ExponentEnd(s, whole)) THEN ExponentEnd(s, whole)
              ELSE IF Stands(s, whole) THEN whole
              ELSE 0
<1> DEFINE intEnd == RunEnd(s, i, SqlDigit)
           fraction == FractionEnd(s, intEnd)
           whole == IF intEnd > i THEN intEnd ELSE 0
           readings == <<RadixEnd(s, i), ExponentEnd(s, fraction), fraction, ExponentEnd(s, whole), whole>>
           standing == {k \in DOMAIN readings : readings[k] # 0 /\ At(s, readings[k]) \notin SqlWord}
           m == Min(standing)
<1>1. NumberEnd(s, i) = IF standing = {} THEN 0 ELSE readings[m]  BY DEF NumberEnd
<1>2. /\ DOMAIN readings = 1..5
      /\ readings[1] = RadixEnd(s, i) /\ readings[2] = ExponentEnd(s, fraction) /\ readings[3] = fraction
      /\ readings[4] = ExponentEnd(s, whole) /\ readings[5] = whole
  OBVIOUS
<1> HIDE DEF readings, intEnd, fraction, whole
<1>3. \A k \in 1..5 : k \in standing <=> Stands(s, readings[k])  BY <1>2 DEF Stands
<1>4. standing \subseteq 1..5  BY <1>2
<1> HIDE DEF standing
<1>5. standing # {} => m \in standing /\ \A k \in standing : m <= k
  <2>1. standing \subseteq Nat  BY <1>4
  <2> QED BY <2>1, MinIs
<1> HIDE DEF m
<1>6. standing # {} =>
        m = IF 1 \in standing THEN 1 ELSE IF 2 \in standing THEN 2
            ELSE IF 3 \in standing THEN 3 ELSE IF 4 \in standing THEN 4 ELSE 5
  <2>1. standing # {} => m \in 1..5  BY <1>4, <1>5
  <2> QED BY <2>1, <1>4, <1>5
<1>7. standing = {} <=> 1 \notin standing /\ 2 \notin standing /\ 3 \notin standing /\ 4 \notin standing /\ 5 \notin standing
  BY <1>4
<1>8. NumberEnd(s, i) = IF Stands(s, readings[1]) THEN readings[1]
                        ELSE IF Stands(s, readings[2]) THEN readings[2]
                        ELSE IF Stands(s, readings[3]) THEN readings[3]
                        ELSE IF Stands(s, readings[4]) THEN readings[4]
                        ELSE IF Stands(s, readings[5]) THEN readings[5] ELSE 0
  BY <1>1, <1>3, <1>6, <1>7
<1> QED BY <1>2, <1>8 DEF intEnd, fraction, whole

\* What each reading is.
LEMMA FractionIs ==
  ASSUME NEW Char, NEW s \in Seq(Char), NEW dot \in 1..(Len(s) + 1)
  PROVE  LET end == FractionEnd(s, dot) IN
         /\ end # 0 <=> At(s, dot) = "." /\ At(s, dot + 1) \in SqlDigit
         /\ end # 0 => /\ end \in (dot + 2)..(Len(s) + 1) /\ dot \in 1..Len(s) /\ s[dot] = "."
                       /\ AreDigits(s, dot + 1, end, SqlDigit) /\ At(s, end) \notin SqlDigit
<1>1. CASE At(s, dot) = "." /\ At(s, dot + 1) \in SqlDigit
  <2>1. dot \in 1..Len(s) /\ s[dot] = "." /\ dot + 1 \in 1..Len(s) /\ s[dot + 1] \in SqlDigit
    BY <1>1 DEF At, SqlDigit
  <2>2. "end" \notin SqlDigit  BY DEF SqlDigit
  <2> DEFINE end == RunEnd(s, dot + 1, SqlDigit)
  <2>3. /\ end \in (dot + 1)..(Len(s) + 1)
        /\ \A j \in (dot + 1)..(end - 1) : j \in 1..Len(s) /\ s[j] \in SqlDigit
        /\ At(s, end) \notin SqlDigit
    BY <2>1, <2>2, RunEndIs
  <2> HIDE DEF end
  <2>4. end # dot + 1  BY <2>1, <2>3 DEF At
  <2>5. AreDigits(s, dot + 1, end, SqlDigit)  BY <2>3, <2>4 DEF AreDigits
  <2> QED BY <1>1, <2>1, <2>3, <2>4, <2>5 DEF FractionEnd, end
<1>2. CASE ~(At(s, dot) = "." /\ At(s, dot + 1) \in SqlDigit)  BY <1>2 DEF FractionEnd
<1> QED BY <1>1, <1>2

LEMMA ExponentIs ==
  ASSUME NEW Char, NEW s \in Seq(Char), NEW i \in 0..(Len(s) + 1)
  PROVE  LET end == ExponentEnd(s, i)
             k == IF At(s, i + 1) \in {"+", "-"} THEN i + 2 ELSE i + 1
         IN
         /\ end # 0 <=> At(s, i) = "e" /\ At(s, k) \in SqlDigit
         /\ end # 0 => /\ end \in (k + 1)..(Len(s) + 1) /\ i \in 1..Len(s) /\ s[i] = "e"
                       /\ AreDigits(s, k, end, SqlDigit) /\ At(s, end) \notin SqlDigit
<1> DEFINE k == IF At(s, i + 1) \in {"+", "-"} THEN i + 2 ELSE i + 1
<1>1. CASE At(s, i) = "e" /\ At(s, k) \in SqlDigit
  <2>1. i \in 1..Len(s) /\ s[i] = "e" /\ k \in 1..Len(s) /\ s[k] \in SqlDigit
    BY <1>1 DEF At, SqlDigit
  <2>2. "end" \notin SqlDigit  BY DEF SqlDigit
  <2> DEFINE end == RunEnd(s, k, SqlDigit)
  <2>0. ExponentEnd(s, i) = end  BY <1>1 DEF ExponentEnd
  <2> HIDE DEF k
  <2>3. /\ end \in k..(Len(s) + 1)
        /\ \A j \in k..(end - 1) : j \in 1..Len(s) /\ s[j] \in SqlDigit
        /\ At(s, end) \notin SqlDigit
    BY <2>1, <2>2, RunEndIs
  <2> HIDE DEF end
  <2>4. end # k /\ k < end  BY <2>1, <2>3 DEF At
  <2>5. AreDigits(s, k, end, SqlDigit)  BY <2>3, <2>4 DEF AreDigits
  <2>6. end \in (k + 1)..(Len(s) + 1) /\ end # 0  BY <2>1, <2>3, <2>4
  <2> QED BY <1>1, <2>0, <2>1, <2>3, <2>5, <2>6 DEF k
<1>2. CASE ~(At(s, i) = "e" /\ At(s, k) \in SqlDigit)  BY <1>2 DEF ExponentEnd
<1> QED BY <1>1, <1>2

\* It is the only such position.
LEMMA RunEndOnly ==
  ASSUME NEW Char, NEW s \in Seq(Char), NEW k \in 1..(Len(s) + 1), NEW class, "end" \notin class,
         NEW e \in k..(Len(s) + 1), \A j \in k..(e - 1) : s[j] \in class, At(s, e) \notin class
  PROVE  RunEnd(s, k, class) = e
<1> DEFINE r == RunEnd(s, k, class)
<1>1. /\ r \in k..(Len(s) + 1)
      /\ \A j \in k..(r - 1) : j \in 1..Len(s) /\ s[j] \in class
      /\ At(s, r) \notin class
  BY RunEndIs
<1> HIDE DEF r
<1>2. ~(r < e)  BY <1>1 DEF At
<1>3. ~(e < r)  BY <1>1 DEF At
<1> QED BY <1>1, <1>2, <1>3 DEF r

\* The same, from the parts.
LEMMA FractionOnly ==
  ASSUME NEW Char, NEW s \in Seq(Char), NEW dot \in 1..(Len(s) + 1), NEW f \in 1..(Len(s) + 1),
         At(s, dot) = ".", AreDigits(s, dot + 1, f, SqlDigit), At(s, f) \notin SqlDigit
  PROVE  FractionEnd(s, dot) = f
<1>1. dot + 1 < f /\ \A k \in (dot + 1)..(f - 1) : s[k] \in SqlDigit  BY DEF AreDigits
<1>2. dot + 1 \in 1..Len(s) /\ At(s, dot + 1) \in SqlDigit  BY <1>1 DEF At
<1>3. RunEnd(s, dot + 1, SqlDigit) = f
  <2>1. "end" \notin SqlDigit  BY DEF SqlDigit
  <2>2. f \in (dot + 1)..(Len(s) + 1) /\ dot + 1 \in 1..(Len(s) + 1)  BY <1>1
  <2> QED BY <2>1, <2>2, <1>1, RunEndOnly
<1> QED BY <1>2, <1>3 DEF FractionEnd

LEMMA ExponentOnly ==
  ASSUME NEW Char, NEW s \in Seq(Char), NEW f \in 1..(Len(s) + 1), NEW e \in 1..(Len(s) + 1),
         At(s, f) = "e", At(s, e) \notin SqlWord,
         \/ AreDigits(s, f + 1, e, SqlDigit)
         \/ At(s, f + 1) \in {"+", "-"} /\ AreDigits(s, f + 2, e, SqlDigit)
  PROVE  ExponentEnd(s, f) = e
<1> DEFINE k == IF At(s, f + 1) \in {"+", "-"} THEN f + 2 ELSE f + 1
<1>1. "end" \notin SqlDigit /\ SqlDigit \subseteq SqlWord /\ {"+", "-"} \cap SqlDigit = {}
  BY DEF SqlDigit, SqlWord
<1>2. AreDigits(s, k, e, SqlDigit)
  <2>1. CASE AreDigits(s, f + 1, e, SqlDigit)
    <3>1. f + 1 < e /\ s[f + 1] \in SqlDigit  BY <2>1 DEF AreDigits
    <3>2. At(s, f + 1) \notin {"+", "-"}  BY <3>1, <1>1 DEF At
    <3> QED BY <2>1, <3>2
  <2>2. CASE At(s, f + 1) \in {"+", "-"} /\ AreDigits(s, f + 2, e, SqlDigit)  BY <2>2
  <2> QED BY <2>1, <2>2
<1>3. k \in 1..(Len(s) + 3)  OBVIOUS
<1>4. ExponentEnd(s, f) = IF At(s, f) = "e" /\ At(s, k) \in SqlDigit THEN RunEnd(s, k, SqlDigit) ELSE 0
  BY DEF ExponentEnd
<1> HIDE DEF k
<1>5. k < e /\ \A j \in k..(e - 1) : s[j] \in SqlDigit  BY <1>2 DEF AreDigits
<1>6. k \in 1..Len(s) /\ At(s, k) \in SqlDigit  BY <1>3, <1>5 DEF At
<1>7. RunEnd(s, k, SqlDigit) = e
  <2>1. e \in k..(Len(s) + 1) /\ k \in 1..(Len(s) + 1)  BY <1>5, <1>6
  <2> QED BY <2>1, <1>1, <1>5, RunEndOnly
<1> QED BY <1>4, <1>6, <1>7

HexDigits == SqlDigit \cup {"a", "b", "c", "e"}

LEMMA RadixIs ==
  ASSUME NEW Char, NEW s \in Seq(Char), NEW i \in 1..Len(s)
  PROVE  LET end == RadixEnd(s, i) IN
         /\ end # 0 =>
              /\ end \in (i + 3)..(Len(s) + 1) /\ s[i] = "0" /\ i + 1 \in 1..Len(s)
              /\ \/ s[i + 1] = "x" /\ AreDigits(s, i + 2, end, HexDigits)
                 \/ s[i + 1] = "b" /\ AreDigits(s, i + 2, end, {"0", "1"})
         /\ \A e \in (i + 1)..(Len(s) + 1) :
              /\ s[i] = "0" /\ At(s, e) \notin SqlWord
              /\ \/ At(s, i + 1) = "x" /\ AreDigits(s, i + 2, e, HexDigits)
                 \/ At(s, i + 1) = "b" /\ AreDigits(s, i + 2, e, {"0", "1"})
              => end = e
<1> DEFINE end == RadixEnd(s, i)
           digits == IF At(s, i + 1) = "x" THEN HexDigits
                     ELSE IF At(s, i + 1) = "b" THEN {"0", "1"} ELSE {}
<1>1. end = IF s[i] = "0" /\ At(s, i + 2) \in digits THEN RunEnd(s, i + 2, digits) ELSE 0
  BY DEF RadixEnd, HexDigits
<1>2. "end" \notin digits /\ digits \subseteq SqlWord
  BY DEF HexDigits, SqlDigit, SqlWord, SqlLetter
<1>3. At(s, i + 2) \in digits => i + 2 \in 1..Len(s) /\ s[i + 2] \in digits  BY <1>2 DEF At
<1>4. At(s, i + 1) \in {"x", "b"} => i + 1 \in 1..Len(s) /\ s[i + 1] = At(s, i + 1)  BY DEF At
<1>5. digits # {} => At(s, i + 1) \in {"x", "b"}  OBVIOUS
<1>6. /\ At(s, i + 1) = "x" => digits = HexDigits
      /\ At(s, i + 1) = "b" => digits = {"0", "1"}
  OBVIOUS
<1> HIDE DEF digits, end
<1>7. ASSUME end # 0
      PROVE  /\ end \in (i + 3)..(Len(s) + 1) /\ s[i] = "0" /\ i + 1 \in 1..Len(s)
             /\ \/ s[i + 1] = "x" /\ AreDigits(s, i + 2, end, HexDigits)
                \/ s[i + 1] = "b" /\ AreDigits(s, i + 2, end, {"0", "1"})
  <2>1. s[i] = "0" /\ At(s, i + 2) \in digits /\ end = RunEnd(s, i + 2, digits)  BY <1>1, <1>7
  <2>2. /\ end \in (i + 2)..(Len(s) + 1)
        /\ \A j \in (i + 2)..(end - 1) : j \in 1..Len(s) /\ s[j] \in digits
        /\ At(s, end) \notin digits
    BY <2>1, <1>2, <1>3, RunEndIs
  <2>3. end # i + 2  BY <2>1, <2>2
  <2>4. AreDigits(s, i + 2, end, digits)  BY <2>2, <2>3 DEF AreDigits
  <2>5. end \in (i + 3)..(Len(s) + 1)  BY <2>2, <2>3
  <2>6. i + 1 \in 1..Len(s) /\ s[i + 1] = At(s, i + 1) /\ At(s, i + 1) \in {"x", "b"}
    BY <2>1, <1>4, <1>5
  <2> QED BY <2>1, <2>4, <2>5, <2>6, <1>6
<1>8. ASSUME NEW e \in (i + 1)..(Len(s) + 1), s[i] = "0", At(s, e) \notin SqlWord,
             \/ At(s, i + 1) = "x" /\ AreDigits(s, i + 2, e, HexDigits)
             \/ At(s, i + 1) = "b" /\ AreDigits(s, i + 2, e, {"0", "1"})
      PROVE  end = e
  <2>1. AreDigits(s, i + 2, e, digits)  BY <1>6, <1>8
  <2>2. i + 2 < e /\ \A j \in (i + 2)..(e - 1) : s[j] \in digits  BY <2>1 DEF AreDigits
  <2>3. i + 2 \in 1..Len(s) /\ s[i + 2] \in digits  BY <2>2
  <2>4. At(s, i + 2) \in digits  BY <2>3 DEF At
  <2>5. At(s, e) \notin digits  BY <1>2, <1>8
  <2>6. RunEnd(s, i + 2, digits) = e  BY <1>2, <2>2, <2>3, <2>5, RunEndOnly
  <2> QED BY <1>1, <1>8, <2>4, <2>6
<1> QED BY <1>7, <1>8 DEF end

\* Where the readings of a number start and end.
LEMMA NumberParts ==
  ASSUME NEW Char, NEW s \in Seq(Char), NEW i \in 1..Len(s)
  PROVE  LET intEnd == RunEnd(s, i, SqlDigit)
         IN /\ intEnd \in i..(Len(s) + 1)
            /\ \A j \in i..(intEnd - 1) : j \in 1..Len(s) /\ s[j] \in SqlDigit
            /\ At(s, intEnd) \notin SqlDigit
            /\ intEnd > i => AreDigits(s, i, intEnd, SqlDigit)
<1>1. "end" \notin SqlDigit /\ i \in 1..(Len(s) + 1)  BY DEF SqlDigit
<1> QED BY <1>1, RunEndIs DEF AreDigits

\* A reading up to m and f, with an exponent or without, is a number.
LEMMA Decimal ==
  ASSUME NEW Char, NEW s \in Seq(Char), NEW b \in 1..Len(s), NEW m, NEW f \in (b + 1)..(Len(s) + 1),
         m \in b..f, m = b \/ AreDigits(s, b, m, SqlDigit),
         f = m \/ (At(s, m) = "." /\ AreDigits(s, m + 1, f, SqlDigit))
  PROVE  /\ IsNumber(s, b, f)
         /\ ExponentEnd(s, f) # 0 =>
              ExponentEnd(s, f) \in (f + 1)..(Len(s) + 1) /\ IsNumber(s, b, ExponentEnd(s, f))
<1>1. IsNumber(s, b, f)  BY DEF IsNumber
<1>2. ASSUME ExponentEnd(s, f) # 0
      PROVE  ExponentEnd(s, f) \in (f + 1)..(Len(s) + 1) /\ IsNumber(s, b, ExponentEnd(s, f))
  <2> DEFINE e == ExponentEnd(s, f)
  <2>1. f \in 0..(Len(s) + 1)  OBVIOUS
  <2>2. /\ At(s, f) = "e"
        /\ e \in (f + 1)..(Len(s) + 1)
        /\ \/ AreDigits(s, f + 1, e, SqlDigit)
           \/ At(s, f + 1) \in {"+", "-"} /\ AreDigits(s, f + 2, e, SqlDigit)
    BY <1>2, <2>1, ExponentIs DEF At
  <2> HIDE DEF e
  <2>3. m \in b..e /\ f \in m..e  BY <2>2
  <2>4. IsNumber(s, b, e)  BY <2>2, <2>3 DEF IsNumber
  <2> QED BY <2>2, <2>4 DEF e
<1> QED BY <1>1, <1>2

\* What is found is a number that stands alone to its right.
LEMMA FoundIsNumber ==
  ASSUME NEW Char, NEW s \in Seq(Char), NEW i \in 1..Len(s), NumberEnd(s, i) # 0
  PROVE  /\ NumberEnd(s, i) \in (i + 1)..(Len(s) + 1)
         /\ IsNumber(s, i, NumberEnd(s, i))
         /\ At(s, NumberEnd(s, i)) \notin SqlWord
<1> DEFINE Good(end) == end \in (i + 1)..(Len(s) + 1) /\ IsNumber(s, i, end)
           intEnd == RunEnd(s, i, SqlDigit)
           fraction == FractionEnd(s, intEnd)
           whole == IF intEnd > i THEN intEnd ELSE 0
<1>1. /\ intEnd \in i..(Len(s) + 1)
      /\ intEnd > i => AreDigits(s, i, intEnd, SqlDigit)
  BY NumberParts
<1> HIDE DEF intEnd
<1>2. RadixEnd(s, i) # 0 => Good(RadixEnd(s, i))
  <2> DEFINE end == RadixEnd(s, i)
  <2>1. end # 0 =>
          /\ end \in (i + 3)..(Len(s) + 1) /\ s[i] = "0" /\ i + 1 \in 1..Len(s)
          /\ \/ s[i + 1] = "x" /\ AreDigits(s, i + 2, end, HexDigits)
             \/ s[i + 1] = "b" /\ AreDigits(s, i + 2, end, {"0", "1"})
    BY RadixIs
  <2> HIDE DEF end
  <2> QED BY <2>1 DEF IsNumber, At, HexDigits, end
<1>3. /\ fraction # 0 => Good(fraction)
      /\ fraction # 0 /\ ExponentEnd(s, fraction) # 0 => Good(ExponentEnd(s, fraction))
  <2>1. fraction # 0 => /\ fraction \in (intEnd + 2)..(Len(s) + 1)
                        /\ At(s, intEnd) = "." /\ AreDigits(s, intEnd + 1, fraction, SqlDigit)
    <3>1. intEnd \in 1..(Len(s) + 1)  BY <1>1
    <3> QED BY <3>1, FractionIs
  <2> HIDE DEF fraction
  <2>2. fraction # 0 => fraction \in (i + 1)..(Len(s) + 1) /\ intEnd \in i..fraction /\ (intEnd = i \/ AreDigits(s, i, intEnd, SqlDigit))
    BY <1>1, <2>1
  <2>3. fraction # 0 => /\ IsNumber(s, i, fraction)
                        /\ ExponentEnd(s, fraction) # 0 =>
                             /\ ExponentEnd(s, fraction) \in (fraction + 1)..(Len(s) + 1)
                             /\ IsNumber(s, i, ExponentEnd(s, fraction))
    BY <2>1, <2>2, Decimal
  <2> QED BY <2>2, <2>3
<1>4. /\ whole # 0 => Good(whole)
      /\ whole # 0 /\ ExponentEnd(s, whole) # 0 => Good(ExponentEnd(s, whole))
  <2>1. whole # 0 => whole = intEnd /\ whole \in (i + 1)..(Len(s) + 1) /\ AreDigits(s, i, whole, SqlDigit)
    BY <1>1
  <2> HIDE DEF whole
  <2>2. whole # 0 => /\ IsNumber(s, i, whole)
                     /\ ExponentEnd(s, whole) # 0 =>
                          /\ ExponentEnd(s, whole) \in (whole + 1)..(Len(s) + 1)
                          /\ IsNumber(s, i, ExponentEnd(s, whole))
    <3>1. whole # 0 => whole \in i..whole  BY <2>1
    <3> QED BY <2>1, <3>1, Decimal
  <2> QED BY <2>1, <2>2
<1>5. ExponentEnd(s, 0) = 0  BY DEF ExponentEnd, At
<1>6. NumberEnd(s, i) =
        IF Stands(s, RadixEnd(s, i)) THEN RadixEnd(s, i)
        ELSE IF Stands(s, ExponentEnd(s, fraction)) THEN ExponentEnd(s, fraction)
        ELSE IF Stands(s, fraction) THEN fraction
        ELSE IF Stands(s, ExponentEnd(s, whole)) THEN ExponentEnd(s, whole)
        ELSE IF Stands(s, whole) THEN whole
        ELSE 0
  BY NumberEndIs DEF intEnd
<1> HIDE DEF fraction, whole, Good
<1>7. Good(NumberEnd(s, i)) /\ Stands(s, NumberEnd(s, i))
  <2>1. fraction = 0 => ExponentEnd(s, fraction) = 0  BY <1>5
  <2>2. whole = 0 => ExponentEnd(s, whole) = 0  BY <1>5
  <2>3. \A end : Stands(s, end) => end # 0  BY DEF Stands
  <2> QED BY <1>2, <1>3, <1>4, <1>6, <2>1, <2>2, <2>3
<1> QED BY <1>7 DEF Good, Stands

\* No number that starts there and stands alone is longer.
LEMMA FoundIsLongest ==
  ASSUME NEW Char, NEW s \in Seq(Char), NEW i \in 1..Len(s), NEW e \in (i + 1)..(Len(s) + 1),
         IsNumber(s, i, e), At(s, e) \notin SqlWord
  PROVE  NumberEnd(s, i) # 0 /\ e <= NumberEnd(s, i)
<1> DEFINE intEnd == RunEnd(s, i, SqlDigit)
           fraction == FractionEnd(s, intEnd)
           whole == IF intEnd > i THEN intEnd ELSE 0
           radix == RadixEnd(s, i)
<1>1. NumberEnd(s, i) =
        IF Stands(s, radix) THEN radix
        ELSE IF Stands(s, ExponentEnd(s, fraction)) THEN ExponentEnd(s, fraction)
        ELSE IF Stands(s, fraction) THEN fraction
        ELSE IF Stands(s, ExponentEnd(s, whole)) THEN ExponentEnd(s, whole)
        ELSE IF Stands(s, whole) THEN whole
        ELSE 0
  BY NumberEndIs
<1>2. "end" \notin SqlDigit /\ SqlDigit \subseteq SqlWord /\ {"x", "b", "e"} \subseteq SqlWord
      /\ {"x", "b", "e", "."} \cap SqlDigit = {}
  BY DEF SqlDigit, SqlWord, SqlLetter
<1>3. i \in 1..(Len(s) + 1) /\ s[i] = At(s, i)  BY DEF At
<1> HIDE DEF radix
<1>4. CASE \E m \in i..e : \E f \in m..e :
             /\ m = i \/ AreDigits(s, i, m, SqlDigit)
             /\ f = m \/ (At(s, m) = "." /\ AreDigits(s, m + 1, f, SqlDigit))
             /\ f > i
             /\ \/ f = e
                \/ /\ At(s, f) = "e"
                   /\ \/ AreDigits(s, f + 1, e, SqlDigit)
                      \/ At(s, f + 1) \in {"+", "-"} /\ AreDigits(s, f + 2, e, SqlDigit)
  <2>0. PICK m \in i..e : \E f \in m..e :
          /\ m = i \/ AreDigits(s, i, m, SqlDigit)
          /\ f = m \/ (At(s, m) = "." /\ AreDigits(s, m + 1, f, SqlDigit))
          /\ f > i
          /\ \/ f = e
             \/ /\ At(s, f) = "e"
                /\ \/ AreDigits(s, f + 1, e, SqlDigit)
                   \/ At(s, f + 1) \in {"+", "-"} /\ AreDigits(s, f + 2, e, SqlDigit)
    BY <1>4
  <2>1. PICK f \in m..e :
          /\ m = i \/ AreDigits(s, i, m, SqlDigit)
          /\ f = m \/ (At(s, m) = "." /\ AreDigits(s, m + 1, f, SqlDigit))
          /\ f > i
          /\ \/ f = e
             \/ /\ At(s, f) = "e"
                /\ \/ AreDigits(s, f + 1, e, SqlDigit)
                   \/ At(s, f + 1) \in {"+", "-"} /\ AreDigits(s, f + 2, e, SqlDigit)
    BY <2>0
  <2>2. At(s, f) \notin SqlDigit  BY <2>1, <1>2
  <2>3. At(s, m) \notin SqlDigit  BY <2>1, <2>2, <1>2
  <2>4. m \in i..(Len(s) + 1) /\ \A j \in i..(m - 1) : s[j] \in SqlDigit  BY <2>1 DEF AreDigits
  <2>5. intEnd = m  BY <2>3, <2>4, <1>2, <1>3, RunEndOnly
  <2> HIDE DEF intEnd
  <2>6. m \in 1..(Len(s) + 1) /\ f \in 1..(Len(s) + 1)  OBVIOUS
  \* No radix: the number would start with a 0 and an x or a b.
  <2>7. radix = 0
    <3> SUFFICES ASSUME radix # 0 PROVE FALSE  OBVIOUS
    <3>1. s[i] = "0" /\ i + 1 \in 1..Len(s) /\ s[i + 1] \in {"x", "b"}  BY RadixIs DEF radix
    <3>2. At(s, i + 1) \in {"x", "b"} /\ "0" \in SqlDigit /\ s[i + 1] \notin SqlDigit
      BY <3>1, <1>2 DEF At, SqlDigit
    <3>3. m = i + 1  BY <2>3, <2>4, <3>1, <3>2, <1>3
    <3>4. At(s, m) # "." /\ At(s, m) # "e"  BY <3>2, <3>3
    <3>5. f = m  BY <2>1, <3>4
    <3> QED BY <2>1, <3>2, <3>3, <3>4, <3>5, <1>2
  \* The mantissa is one of the two.
  <2>8. CASE f = m
    <3>1. whole = f  BY <2>1, <2>5, <2>8
    <3>2. At(s, intEnd) # "."  => fraction = 0
      <4>1. intEnd \in 1..(Len(s) + 1)  BY <2>5, <2>6
      <4> QED BY <4>1, FractionIs
    <3> HIDE DEF whole, fraction
    <3>3. CASE f = e
      <4>1. ~Stands(s, ExponentEnd(s, fraction)) \/ ExponentEnd(s, fraction) >= e
        <5>1. fraction \in 0..(Len(s) + 1) /\ (fraction # 0 => fraction >= e)
          <6>1. intEnd \in 1..(Len(s) + 1) /\ intEnd = e  BY <2>5, <2>6, <2>8, <3>3
          <6> QED BY <6>1, FractionIs DEF fraction
        <5> QED BY <5>1, ExponentIs DEF Stands, At
      <4>2. ~Stands(s, fraction) \/ fraction >= e
        <5>1. intEnd \in 1..(Len(s) + 1) /\ intEnd = e  BY <2>5, <2>6, <2>8, <3>3
        <5> QED BY <5>1, FractionIs DEF Stands, fraction
      <4>3. ~Stands(s, ExponentEnd(s, whole)) \/ ExponentEnd(s, whole) >= e
        <5>1. whole \in 0..(Len(s) + 1)  BY <3>1, <2>6
        <5> QED BY <5>1, <3>1, <3>3, ExponentIs DEF Stands
      <4>4. Stands(s, whole)  BY <3>1, <3>3, <2>6 DEF Stands
      <4>5. ~Stands(s, radix)  BY <2>7 DEF Stands
      <4>6. \A end : Stands(s, end) => end # 0  BY DEF Stands
      <4> QED BY <1>1, <3>1, <3>3, <4>1, <4>2, <4>3, <4>4, <4>5, <4>6
    <3>4. CASE f # e
      <4>1. At(s, f) = "e"  BY <2>1, <3>4
      <4>2. fraction = 0  BY <3>2, <4>1, <2>5, <2>8
      <4>3. ExponentEnd(s, whole) = e  BY <2>1, <3>1, <3>4, <4>1, <2>6, ExponentOnly
      <4> QED BY <1>1, <2>7, <4>2, <4>3 DEF Stands, ExponentEnd, At
    <3> QED BY <3>3, <3>4
  <2>9. CASE f # m
    <3>1. At(s, m) = "." /\ AreDigits(s, m + 1, f, SqlDigit)  BY <2>1, <2>9
    <3>2. fraction = f  BY <2>2, <2>5, <2>6, <3>1, FractionOnly
    <3> HIDE DEF fraction
    <3>3. CASE f = e
      <4>1. ~Stands(s, ExponentEnd(s, fraction)) \/ ExponentEnd(s, fraction) >= e
        <5>1. fraction \in 0..(Len(s) + 1)  BY <3>2, <2>6
        <5> QED BY <5>1, <3>2, <3>3, ExponentIs DEF Stands
      <4>2. Stands(s, fraction)  BY <3>2, <3>3, <2>6 DEF Stands
      <4>3. \A end : Stands(s, end) => end # 0  BY DEF Stands
      <4> QED BY <1>1, <2>7, <3>2, <3>3, <4>1, <4>2, <4>3 DEF Stands
    <3>4. CASE f # e
      <4>1. ExponentEnd(s, fraction) = e  BY <2>1, <3>2, <3>4, <2>6, ExponentOnly
      <4> QED BY <1>1, <2>7, <4>1 DEF Stands
    <3> QED BY <3>3, <3>4
  <2> QED BY <2>8, <2>9
<1>5. CASE \/ s[i] = "0" /\ At(s, i + 1) = "x" /\ AreDigits(s, i + 2, e, HexDigits)
           \/ s[i] = "0" /\ At(s, i + 1) = "b" /\ AreDigits(s, i + 2, e, {"0", "1"})
  <2>1. radix = e  BY <1>5, RadixIs DEF radix
  <2> QED BY <1>1, <2>1 DEF Stands
<1> QED BY <1>4, <1>5 DEF IsNumber, HexDigits

-----------------------------------------------------------------------------
(***************************************************************************)
(* The reader that looks at one character at a time, state by state.       *)
(***************************************************************************)
TagChar == SqlLetter \cup {"_"}
Modes == {"code", "string", "escape", "closing", "tag", "body"}
Apostrophe == "'"
QuotationMark == "\""
QuoteMarks == {Apostrophe, QuotationMark}
LexState == [mode : Modes, quote : QuoteMarks, tag : Nat, body : Nat]

\* Opens a string.
IsQuote(c, doubleQuoted) == c = Apostrophe \/ (doubleQuoted /\ c = QuotationMark)

\* The step out of code, and a step inside each kind of literal.
StepIs(s, doubleQuoted, state, i, next) ==
  LET c == s[i]
      tag == Slice(s, state.tag, state.body)
      codeLike == \/ state.mode = "code"
                  \/ state.mode = "closing" /\ c # state.quote
                  \/ state.mode = "tag" /\ c # "$" /\ c \notin TagChar
  IN /\ next \in LexState
     /\ codeLike =>
          IF IsQuote(c, doubleQuoted) THEN next.mode = "string" /\ next.quote = c
          ELSE IF c = "$" THEN next.mode = "tag" /\ next.tag = i
          ELSE next.mode = "code"
     /\ state.mode = "string" =>
          /\ next.quote = state.quote
          /\ next.mode = IF c = "\\" THEN "escape" ELSE IF c = state.quote THEN "closing" ELSE "string"
     /\ state.mode = "escape" => next.quote = state.quote /\ next.mode = "string"
     /\ state.mode = "closing" /\ c = state.quote => next.quote = state.quote /\ next.mode = "string"
     /\ state.mode = "tag" /\ c = "$" => next.mode = "body" /\ next.tag = state.tag /\ next.body = i + 1
     /\ state.mode = "tag" /\ c # "$" /\ c \in TagChar => next = state
     /\ state.mode = "body" =>
          IF i - Len(tag) >= state.body - 1 /\ SubSeq(s, i - Len(tag) + 1, i) = tag
            THEN next.mode = "code" ELSE next = state

LEMMA LexStepIs ==
  ASSUME NEW s, NEW doubleQuoted \in BOOLEAN, NEW state \in LexState, NEW i \in Nat
  PROVE  StepIs(s, doubleQuoted, state, i, LexStep(s, doubleQuoted, state, i))
<1> DEFINE c == s[i]
           next == LexStep(s, doubleQuoted, state, i)
           tag == Slice(s, state.tag, state.body)
           closes == i - Len(tag) >= state.body - 1 /\ SubSeq(s, i - Len(tag) + 1, i) = tag
           code == IF c = "'" \/ (doubleQuoted /\ c = "\"") THEN [state EXCEPT !.mode = "string", !.quote = c]
                   ELSE IF c = "$" THEN [state EXCEPT !.mode = "tag", !.tag = i]
                   ELSE [state EXCEPT !.mode = "code"]
<1>1. /\ state.mode \in Modes /\ state.quote \in QuoteMarks /\ state.tag \in Nat /\ state.body \in Nat
      /\ state = [mode |-> state.mode, quote |-> state.quote, tag |-> state.tag, body |-> state.body]
  BY DEF LexState
<1>2. /\ code \in LexState
      /\ IF IsQuote(c, doubleQuoted) THEN code.mode = "string" /\ code.quote = c
         ELSE IF c = "$" THEN code.mode = "tag" /\ code.tag = i
         ELSE code.mode = "code"
  BY <1>1 DEF LexState, IsQuote, Modes, QuoteMarks, Apostrophe, QuotationMark
<1> HIDE DEF code
<1>3. /\ state.mode = "code" => next = code
      /\ state.mode = "closing" /\ c # state.quote => next = code
      /\ state.mode = "tag" /\ c # "$" /\ c \notin TagChar => next = code
  BY DEF LexStep, code, TagChar
<1>4. /\ state.mode = "string" =>
           next = [state EXCEPT !.mode = IF c = "\\" THEN "escape" ELSE IF c = state.quote THEN "closing" ELSE @]
      /\ state.mode = "escape" => next = [state EXCEPT !.mode = "string"]
      /\ state.mode = "closing" /\ c = state.quote => next = [state EXCEPT !.mode = "string"]
  BY DEF LexStep
<1>5. /\ state.mode = "tag" /\ c = "$" => next = [state EXCEPT !.mode = "body", !.body = i + 1]
      /\ state.mode = "tag" /\ c # "$" /\ c \in TagChar => next = state
  BY DEF LexStep, TagChar
<1>6. state.mode = "body" => next = IF closes THEN [state EXCEPT !.mode = "code"] ELSE state
  BY DEF LexStep
<1> HIDE DEF next, closes, c, tag
<1>7. state.mode = "string" => /\ next \in LexState /\ next.quote = state.quote
                               /\ next.mode = IF c = "\\" THEN "escape" ELSE IF c = state.quote THEN "closing" ELSE "string"
  BY <1>1, <1>4 DEF LexState, Modes
<1>8. state.mode = "escape" \/ (state.mode = "closing" /\ c = state.quote) =>
        next \in LexState /\ next.quote = state.quote /\ next.mode = "string"
  BY <1>1, <1>4 DEF LexState, Modes
<1>9. state.mode = "tag" /\ c = "$" =>
        next \in LexState /\ next.mode = "body" /\ next.tag = state.tag /\ next.body = i + 1
  <2> DEFINE start == i + 1
  <2>1. start \in Nat  OBVIOUS
  <2>2. state.mode = "tag" /\ c = "$" => next = [state EXCEPT !.mode = "body", !.body = start]
    BY <1>5
  <2> HIDE DEF start
  <2>3. state.mode = "tag" /\ c = "$" =>
          next \in LexState /\ next.mode = "body" /\ next.tag = state.tag /\ next.body = start
    BY <1>1, <2>1, <2>2 DEF LexState, Modes
  <2> QED BY <2>3 DEF start
<1>10. state.mode = "body" => next \in LexState /\ IF closes THEN next.mode = "code" ELSE next = state
  BY <1>1, <1>6 DEF LexState, Modes
<1>11. next \in LexState  BY <1>1, <1>2, <1>3, <1>5, <1>7, <1>8, <1>9, <1>10 DEF Modes
<1> QED BY <1>2, <1>3, <1>5, <1>7, <1>8, <1>9, <1>10, <1>11 DEF StepIs, next, closes, c, tag

\* Lex is one step after the other.
LEMMA LexIs ==
  ASSUME NEW Char, NEW s \in Seq(Char), NEW doubleQuoted \in BOOLEAN
  PROVE  LET L == Lex(s, doubleQuoted)
         IN /\ L \in [0..Len(s) -> LexState]
            /\ L[0] = LexStart
            /\ \A n \in 1..Len(s) : L[n] = LexStep(s, doubleQuoted, L[n - 1], n)
<1> DEFINE S == 0..Len(s)
           rank == [n \in S |-> n]
           step == [n \in S |-> n - 1]
           def == [n \in S |-> [v \in LexState |-> IF n = 0 THEN LexStart ELSE LexStep(s, doubleQuoted, v, n)]]
           Is(f) == f = [n \in S |-> IF n = 0 THEN LexStart ELSE LexStep(s, doubleQuoted, f[n - 1], n)]
           L == Lex(s, doubleQuoted)
<1>1. LexStart \in LexState  BY DEF LexStart, LexState, Modes, QuoteMarks, Apostrophe
<1>2. \A v \in LexState, n \in S : LexStep(s, doubleQuoted, v, n) \in LexState
  BY LexStepIs DEF StepIs
<1>3. def \in [S -> [LexState -> LexState]]  BY <1>1, <1>2
<1>4. Descends(step, rank, S)  BY DEF Descends
<1> HIDE DEF def
<1>5. PICK f : Recursive(f, S, LexState, LexStart, step, def)
  <2> HIDE DEF rank, step, S
  <2> QED BY <1>1, <1>3, <1>4, RecursiveFunction
<1>6. \A n \in S : f[n] = IF n = 0 THEN LexStart ELSE LexStep(s, doubleQuoted, f[n - 1], n)
  <2> TAKE n \in S
  <2>1. CASE n = 0  BY <1>1, <1>5, <2>1 DEF def, Recursive
  <2>2. CASE n # 0
    <3>1. n - 1 \in S /\ f[n - 1] \in LexState /\ step[n] = n - 1  BY <1>5, <2>2 DEF Recursive
    <3>2. f[n] = def[n][f[n - 1]]  BY <1>5, <3>1 DEF Recursive
    <3> QED BY <2>2, <3>1, <3>2 DEF def
  <2> QED BY <2>1, <2>2
<1>7. Is(f)
  <2> HIDE DEF S
  <2> QED BY <1>5, <1>6 DEF Recursive
<1>8. L = CHOOSE g : Is(g)  BY DEF Lex
<1>9. Is(L)  BY <1>7, <1>8
<1>10. \A n \in S : L[n] = IF n = 0 THEN LexStart ELSE LexStep(s, doubleQuoted, L[n - 1], n)
  <2> HIDE DEF L
  <2> QED BY <1>9
<1>11. DOMAIN L = S /\ L = [n \in S |-> L[n]]
  <2> HIDE DEF L
  <2> QED BY <1>9
<1> HIDE DEF L, Is
<1>12. \A n \in S : L[n] \in LexState
  <2> DEFINE Bad == {n \in S : L[n] \notin LexState}
  <2> SUFFICES ASSUME Bad # {} PROVE FALSE  OBVIOUS
  <2>1. PICK n \in Bad : \A m \in Bad : n <= m
    <3>1. Bad \subseteq Nat  OBVIOUS
    <3> HIDE DEF Bad
    <3> QED BY <3>1, LeastNatural
  <2>2. n # 0  BY <1>1, <1>10
  <2>3. n - 1 \in S /\ n - 1 \notin Bad  BY <2>1, <2>2
  <2> QED BY <1>2, <1>10, <2>2, <2>3
<1> QED BY <1>10, <1>11, <1>12 DEF L

\* The reader's state after position n.
ModeAt(s, doubleQuoted, n) == Lex(s, doubleQuoted)[n].mode
QuoteAt(s, doubleQuoted, n) == Lex(s, doubleQuoted)[n].quote
TagAt(s, doubleQuoted, n) == Lex(s, doubleQuoted)[n].tag
BodyAt(s, doubleQuoted, n) == Lex(s, doubleQuoted)[n].body

\* The reader takes the character at i as code.
TakenAsCode(s, doubleQuoted, i) ==
  LET mode == ModeAt(s, doubleQuoted, i - 1)
  IN \/ mode = "code"
     \/ mode = "closing" /\ s[i] # QuoteAt(s, doubleQuoted, i - 1)
     \/ mode = "tag" /\ s[i] # "$" /\ s[i] \notin TagChar

\* The closing tag ends at n.
TagCloses(s, doubleQuoted, n) ==
  LET tag == Slice(s, TagAt(s, doubleQuoted, n - 1), BodyAt(s, doubleQuoted, n - 1))
  IN n - Len(tag) >= BodyAt(s, doubleQuoted, n - 1) - 1 /\ SubSeq(s, n - Len(tag) + 1, n) = tag

SameState(s, doubleQuoted, m, n) ==
  /\ ModeAt(s, doubleQuoted, n) = ModeAt(s, doubleQuoted, m)
  /\ QuoteAt(s, doubleQuoted, n) = QuoteAt(s, doubleQuoted, m)
  /\ TagAt(s, doubleQuoted, n) = TagAt(s, doubleQuoted, m)
  /\ BodyAt(s, doubleQuoted, n) = BodyAt(s, doubleQuoted, m)

\* What the reader makes of the character at n.
LEMMA ReadsNext ==
  ASSUME NEW Char, NEW s \in Seq(Char), NEW doubleQuoted \in BOOLEAN, NEW n \in 1..Len(s)
  PROVE  /\ TakenAsCode(s, doubleQuoted, n) =>
              IF IsQuote(s[n], doubleQuoted)
                THEN ModeAt(s, doubleQuoted, n) = "string" /\ QuoteAt(s, doubleQuoted, n) = s[n]
              ELSE IF s[n] = "$"
                THEN ModeAt(s, doubleQuoted, n) = "tag" /\ TagAt(s, doubleQuoted, n) = n
              ELSE ModeAt(s, doubleQuoted, n) = "code"
         /\ ModeAt(s, doubleQuoted, n - 1) = "string" =>
              /\ QuoteAt(s, doubleQuoted, n) = QuoteAt(s, doubleQuoted, n - 1)
              /\ ModeAt(s, doubleQuoted, n) =
                   IF s[n] = "\\" THEN "escape"
                   ELSE IF s[n] = QuoteAt(s, doubleQuoted, n - 1) THEN "closing" ELSE "string"
         /\ \/ ModeAt(s, doubleQuoted, n - 1) = "escape"
            \/ ModeAt(s, doubleQuoted, n - 1) = "closing" /\ s[n] = QuoteAt(s, doubleQuoted, n - 1)
            => /\ QuoteAt(s, doubleQuoted, n) = QuoteAt(s, doubleQuoted, n - 1)
               /\ ModeAt(s, doubleQuoted, n) = "string"
         /\ ModeAt(s, doubleQuoted, n - 1) = "tag" /\ s[n] = "$" =>
              /\ ModeAt(s, doubleQuoted, n) = "body"
              /\ TagAt(s, doubleQuoted, n) = TagAt(s, doubleQuoted, n - 1)
              /\ BodyAt(s, doubleQuoted, n) = n + 1
         /\ ModeAt(s, doubleQuoted, n - 1) = "tag" /\ s[n] # "$" /\ s[n] \in TagChar =>
              SameState(s, doubleQuoted, n - 1, n)
         /\ ModeAt(s, doubleQuoted, n - 1) = "body" =>
              IF TagCloses(s, doubleQuoted, n) THEN ModeAt(s, doubleQuoted, n) = "code"
              ELSE SameState(s, doubleQuoted, n - 1, n)
<1> DEFINE L == Lex(s, doubleQuoted)
           state == L[n - 1]
           next == L[n]
           c == s[n]
           tag == Slice(s, state.tag, state.body)
<1>1. state \in LexState /\ next = LexStep(s, doubleQuoted, state, n) /\ n \in Nat  BY LexIs
<1>2. /\ ModeAt(s, doubleQuoted, n - 1) = state.mode /\ QuoteAt(s, doubleQuoted, n - 1) = state.quote
      /\ TagAt(s, doubleQuoted, n - 1) = state.tag /\ BodyAt(s, doubleQuoted, n - 1) = state.body
      /\ ModeAt(s, doubleQuoted, n) = next.mode /\ QuoteAt(s, doubleQuoted, n) = next.quote
      /\ TagAt(s, doubleQuoted, n) = next.tag /\ BodyAt(s, doubleQuoted, n) = next.body
  BY DEF ModeAt, QuoteAt, TagAt, BodyAt
<1> HIDE DEF state, next
<1>3. StepIs(s, doubleQuoted, state, n, next)  BY <1>1, LexStepIs
<1> HIDE DEF tag
<1>4. TagCloses(s, doubleQuoted, n) <=>
        n - Len(tag) >= state.body - 1 /\ SubSeq(s, n - Len(tag) + 1, n) = tag
  BY <1>2 DEF TagCloses, tag
<1> QED BY <1>1, <1>2, <1>3, <1>4 DEF TakenAsCode, SameState, StepIs, tag

-----------------------------------------------------------------------------
(***************************************************************************)
(* Quoted strings: where QuotedEnd ends, the reader has just seen the      *)
(* closing quote, or the text is over.                                     *)
(***************************************************************************)

\* The recursion of QuotedEnd.
ReadsOn(s, open, j) == s[j] = "\\" \/ s[j] # s[open] \/ At(s, j + 1) = s[open]
OneOn(s, open, j) == s[j] # "\\" /\ s[j] # s[open]

LEMMA QuotedEndIs ==
  ASSUME NEW Char, NEW s \in Seq(Char), NEW open \in 1..Len(s)
  PROVE  \E End \in [(open + 1)..(Len(s) + 2) -> (open + 1)..(Len(s) + 1)] :
           /\ QuotedEnd(s, open) = End[open + 1]
           /\ \A j \in (open + 1)..(Len(s) + 2) :
                End[j] = IF j > Len(s) THEN Len(s) + 1
                         ELSE IF OneOn(s, open, j) THEN End[j + 1]
                         ELSE IF ReadsOn(s, open, j) THEN End[j + 2]
                         ELSE j + 1
<1> DEFINE S == (open + 1)..(Len(s) + 2)
           V == (open + 1)..(Len(s) + 1)
           base == Len(s) + 1
           rank == [j \in S |-> Len(s) + 2 - j]
           step == [j \in S |-> IF j > Len(s) THEN Len(s) + 3
                                ELSE IF OneOn(s, open, j) THEN j + 1
                                ELSE IF ReadsOn(s, open, j) THEN j + 2 ELSE Len(s) + 3]
           def == [j \in S |-> [v \in V |-> IF j > Len(s) THEN Len(s) + 1
                                            ELSE IF ReadsOn(s, open, j) THEN v ELSE j + 1]]
           Is(f) == f = [j \in S |->
                           IF j > Len(s) THEN Len(s) + 1
                           ELSE IF s[j] = "\\" THEN f[j + 2]
                           ELSE IF s[j] # s[open] THEN f[j + 1]
                           ELSE IF At(s, j + 1) = s[open] THEN f[j + 2]
                           ELSE j + 1]
           Ok(f) == \A j \in S : f[j] = IF j > Len(s) THEN Len(s) + 1
                                        ELSE IF OneOn(s, open, j) THEN f[j + 1]
                                        ELSE IF ReadsOn(s, open, j) THEN f[j + 2]
                                        ELSE j + 1
           F == CHOOSE f : Is(f)
<1>1. base \in V /\ Descends(step, rank, S)
  <2>1. rank \in [S -> Nat]  OBVIOUS
  <2>2. \A j \in S : step[j] \in S => step[j] > j  OBVIOUS
  <2>3. \A j \in S : rank[j] = Len(s) + 2 - j  OBVIOUS
  <2> HIDE DEF rank, step
  <2>4. \A j \in S : step[j] \in S => rank[step[j]] < rank[j]  BY <2>2, <2>3
  <2> QED BY <2>1, <2>4 DEF Descends
<1>2. def \in [S -> [V -> V]]  OBVIOUS
<1>3. PICK f : Recursive(f, S, V, base, step, def)
  <2> HIDE DEF S, V, base, rank, step, def
  <2> QED BY <1>1, <1>2, RecursiveFunction
<1>4. f \in [S -> V]  BY <1>3 DEF Recursive
<1>5. Ok(f)
  <2> SUFFICES ASSUME NEW j \in S
               PROVE  f[j] = IF j > Len(s) THEN Len(s) + 1
                             ELSE IF OneOn(s, open, j) THEN f[j + 1]
                             ELSE IF ReadsOn(s, open, j) THEN f[j + 2]
                             ELSE j + 1
    OBVIOUS
  <2>1. f[j] = def[j][IF step[j] \in S THEN f[step[j]] ELSE base]  BY <1>3 DEF Recursive
  <2>2. \A v \in V : def[j][v] = IF j > Len(s) THEN Len(s) + 1 ELSE IF ReadsOn(s, open, j) THEN v ELSE j + 1
    OBVIOUS
  <2>3. step[j] = IF j > Len(s) THEN Len(s) + 3
                  ELSE IF OneOn(s, open, j) THEN j + 1
                  ELSE IF ReadsOn(s, open, j) THEN j + 2 ELSE Len(s) + 3
    OBVIOUS
  <2>4. OneOn(s, open, j) => ReadsOn(s, open, j)  BY DEF OneOn, ReadsOn
  <2>5. (IF step[j] \in S THEN f[step[j]] ELSE base) \in V  BY <1>1, <1>4
  <2> HIDE DEF def, step, V
  <2>6. f[j] = IF j > Len(s) THEN Len(s) + 1
               ELSE IF ReadsOn(s, open, j) THEN (IF step[j] \in S THEN f[step[j]] ELSE base) ELSE j + 1
    BY <2>1, <2>2, <2>5
  <2>7. j <= Len(s) => j + 1 \in S /\ j + 2 \in S  OBVIOUS
  <2> QED BY <2>3, <2>4, <2>6, <2>7
<1>6. Is(f)
  <2>1. \A j \in S : f[j] = IF j > Len(s) THEN Len(s) + 1
                           ELSE IF s[j] = "\\" THEN f[j + 2]
                           ELSE IF s[j] # s[open] THEN f[j + 1]
                           ELSE IF At(s, j + 1) = s[open] THEN f[j + 2]
                           ELSE j + 1
    BY <1>5 DEF OneOn, ReadsOn
  <2> HIDE DEF S, Ok
  <2> QED BY <1>4, <2>1
<1>7. QuotedEnd(s, open) = F[open + 1]  BY DEF QuotedEnd
<1>8. Is(F)  BY <1>6
<1> HIDE DEF F
<1>9. Ok(F)  BY <1>8 DEF OneOn, ReadsOn
<1>10. DOMAIN F = S /\ F = [j \in S |-> F[j]]
  <2> HIDE DEF S
  <2> QED BY <1>8
<1>11. \A j \in S : F[j] \in V
  <2> DEFINE Bad == {j \in S : F[j] \notin V}
  <2> SUFFICES ASSUME Bad # {} PROVE FALSE  OBVIOUS
  <2>1. PICK j \in Bad : \A k \in S : rank[k] < rank[j] => k \notin Bad
    <3>1. Bad \subseteq S /\ rank \in [S -> Nat]  OBVIOUS
    <3> HIDE DEF Bad, S, rank
    <3> QED BY <3>1, LeastRank
  <2>2. j + 1 \in S => j + 1 \notin Bad  BY <2>1
  <2>3. j + 2 \in S => j + 2 \notin Bad  BY <2>1
  <2>4. j <= Len(s) => j + 1 \in S /\ j + 2 \in S  OBVIOUS
  <2>5. F[j] \in V  BY <1>9, <2>2, <2>3, <2>4
  <2> QED BY <2>1, <2>5
<1>12. F \in [S -> V]
  <2> HIDE DEF S, V
  <2> QED BY <1>10, <1>11
<1> QED BY <1>7, <1>9, <1>12

\* The reader is inside a string of a quote after position n.
InString(s, doubleQuoted, n, quote) ==
  ModeAt(s, doubleQuoted, n) = "string" /\ QuoteAt(s, doubleQuoted, n) = quote

\* What two characters do inside a string, when QuotedEnd reads over them.
LEMMA StringGoesOn ==
  ASSUME NEW Char, NEW s \in Seq(Char), NEW doubleQuoted \in BOOLEAN, NEW open \in 1..Len(s),
         NEW j \in (open + 1)..Len(s), InString(s, doubleQuoted, j - 1, s[open])
  PROVE  /\ OneOn(s, open, j) => InString(s, doubleQuoted, j, s[open])
         /\ ~OneOn(s, open, j) /\ ReadsOn(s, open, j) /\ j < Len(s) => InString(s, doubleQuoted, j + 1, s[open])
         /\ ~ReadsOn(s, open, j) => /\ s[j] = s[open] /\ At(s, j + 1) # s[open]
                                    /\ ModeAt(s, doubleQuoted, j) = "closing"
                                    /\ QuoteAt(s, doubleQuoted, j) = s[open]
<1> DEFINE q == s[open]
<1>1. ModeAt(s, doubleQuoted, j - 1) = "string" /\ QuoteAt(s, doubleQuoted, j - 1) = q
  BY DEF InString
<1>2. j \in 1..Len(s)  OBVIOUS
<1> HIDE DEF q
<1>3. /\ QuoteAt(s, doubleQuoted, j) = q
      /\ ModeAt(s, doubleQuoted, j) = IF s[j] = "\\" THEN "escape" ELSE IF s[j] = q THEN "closing" ELSE "string"
  BY <1>1, <1>2, ReadsNext
<1>4. OneOn(s, open, j) => InString(s, doubleQuoted, j, q)  BY <1>3 DEF OneOn, InString, q
<1>5. ASSUME ~OneOn(s, open, j), ReadsOn(s, open, j), j < Len(s)
      PROVE  InString(s, doubleQuoted, j + 1, q)
  <2>1. j + 1 \in 1..Len(s) /\ (j + 1) - 1 = j  BY <1>2, <1>5
  <2>2. ModeAt(s, doubleQuoted, j) = "escape" \/ (ModeAt(s, doubleQuoted, j) = "closing" /\ s[j + 1] = q)
    BY <1>3, <1>5, <2>1 DEF OneOn, ReadsOn, At, q
  <2> QED BY <1>3, <2>1, <2>2, ReadsNext DEF InString
<1>6. ~ReadsOn(s, open, j) => /\ s[j] = q /\ At(s, j + 1) # q
                              /\ ModeAt(s, doubleQuoted, j) = "closing" /\ QuoteAt(s, doubleQuoted, j) = q
  BY <1>3 DEF ReadsOn, q
<1> QED BY <1>4, <1>5, <1>6 DEF q

\* Where the string that opens there ends: just after a closing quote that is
\* not doubled, or with the text.
Closed(s, doubleQuoted, open, end) ==
  end <= Len(s) => /\ ModeAt(s, doubleQuoted, end - 1) = "closing"
                   /\ QuoteAt(s, doubleQuoted, end - 1) = s[open]
                   /\ s[end - 1] = s[open] /\ s[end] # s[open]

LEMMA StringEnds ==
  ASSUME NEW Char, NEW s \in Seq(Char), NEW doubleQuoted \in BOOLEAN, NEW open \in 1..Len(s)
  PROVE  /\ QuotedEnd(s, open) \in (open + 1)..(Len(s) + 1)
         /\ InString(s, doubleQuoted, open, s[open]) => Closed(s, doubleQuoted, open, QuotedEnd(s, open))
<1> DEFINE S == (open + 1)..(Len(s) + 2)
           rank == [j \in S |-> Len(s) + 2 - j]
           Inside(j) == j <= Len(s) + 1 => InString(s, doubleQuoted, j - 1, s[open])
           Good(j, end) == Inside(j) => Closed(s, doubleQuoted, open, end)
<1>1. PICK End \in [S -> (open + 1)..(Len(s) + 1)] :
        /\ QuotedEnd(s, open) = End[open + 1]
        /\ \A j \in S :
             End[j] = IF j > Len(s) THEN Len(s) + 1
                      ELSE IF OneOn(s, open, j) THEN End[j + 1]
                      ELSE IF ReadsOn(s, open, j) THEN End[j + 2]
                      ELSE j + 1
  BY QuotedEndIs
<1>5. \A j \in S : Good(j, End[j])
  <2> DEFINE Bad == {j \in S : ~Good(j, End[j])}
  <2> HIDE DEF Good
  <2> SUFFICES ASSUME Bad # {} PROVE FALSE  OBVIOUS
  <2>1. PICK j \in Bad : \A k \in S : rank[k] < rank[j] => k \notin Bad
    <3>1. Bad \subseteq S /\ rank \in [S -> Nat]  OBVIOUS
    <3> HIDE DEF Bad, S, rank
    <3> QED BY <3>1, LeastRank
  <2>2. j \in S /\ ~Good(j, End[j])  BY <2>1
  <2>3. \A k \in S : k > j => Good(k, End[k])
    <3> TAKE k \in S
    <3>1. k > j => rank[k] < rank[j]  BY <2>2
    <3> HIDE DEF rank
    <3> QED BY <2>1, <3>1
  <2> HIDE DEF Bad, rank
  <2>4. CASE j > Len(s)
    <3>1. End[j] = Len(s) + 1  BY <1>1, <2>2, <2>4
    <3> QED BY <2>2, <3>1 DEF Good, Closed
  <2>5. CASE ~(j > Len(s)) /\ OneOn(s, open, j)
    <3>1. End[j] = End[j + 1] /\ j + 1 \in S /\ j \in (open + 1)..Len(s)  BY <1>1, <2>2, <2>5
    <3>2. Inside(j) => Inside(j + 1)  BY <3>1, <2>5, StringGoesOn
    <3>3. Good(j + 1, End[j + 1])  BY <2>3, <3>1
    <3> QED BY <2>2, <3>1, <3>2, <3>3 DEF Good
  <2>6. CASE ~(j > Len(s)) /\ ~OneOn(s, open, j) /\ ReadsOn(s, open, j)
    <3>1. End[j] = End[j + 2] /\ j + 2 \in S /\ j \in (open + 1)..Len(s)  BY <1>1, <2>2, <2>6
    <3>2. Inside(j) => Inside(j + 2)
      <4>1. (j + 2) - 1 = j + 1  BY <3>1
      <4> QED BY <3>1, <4>1, <2>6, StringGoesOn
    <3>3. Good(j + 2, End[j + 2])  BY <2>3, <3>1
    <3> QED BY <2>2, <3>1, <3>2, <3>3 DEF Good
  <2>7. CASE ~(j > Len(s)) /\ ~ReadsOn(s, open, j)
    <3>1. End[j] = j + 1 /\ j \in (open + 1)..Len(s)  BY <1>1, <2>2, <2>7 DEF OneOn, ReadsOn
    <3>2. Inside(j) => /\ s[j] = s[open] /\ At(s, j + 1) # s[open]
                       /\ ModeAt(s, doubleQuoted, j) = "closing" /\ QuoteAt(s, doubleQuoted, j) = s[open]
      BY <3>1, <2>7, StringGoesOn
    <3>3. (j + 1) - 1 = j /\ (j + 1 <= Len(s) => At(s, j + 1) = s[j + 1])  BY <3>1 DEF At
    <3> QED BY <2>2, <3>1, <3>2, <3>3 DEF Good, Closed
  <2> QED BY <2>4, <2>5, <2>6, <2>7
<1>6. open + 1 \in S /\ (open + 1) - 1 = open  OBVIOUS
<1> HIDE DEF S
<1>7. Good(open + 1, End[open + 1])  BY <1>5, <1>6
<1> QED BY <1>1, <1>6, <1>7

-----------------------------------------------------------------------------
(***************************************************************************)
(* Dollar quoted strings: a tag, and the body up to where it comes again.  *)
(***************************************************************************)
LEMMA TagChars == "end" \notin TagChar /\ "$" \notin TagChar /\ TagChar \subseteq SqlWord
  BY DEF TagChar, SqlWord, SqlLetter

\* A run seen from its second character.
LEMMA RunGoesOn ==
  ASSUME NEW Char, NEW s \in Seq(Char), NEW k \in 1..Len(s), NEW class, "end" \notin class, s[k] \in class
  PROVE  RunEnd(s, k, class) = RunEnd(s, k + 1, class)
<1> DEFINE e == RunEnd(s, k + 1, class)
<1>1. k + 1 \in 1..(Len(s) + 1) /\ k \in 1..(Len(s) + 1)  OBVIOUS
<1>2. /\ e \in (k + 1)..(Len(s) + 1)
      /\ \A j \in (k + 1)..(e - 1) : j \in 1..Len(s) /\ s[j] \in class
      /\ At(s, e) \notin class
  BY <1>1, RunEndIs
<1> HIDE DEF e
<1>3. \A j \in k..(e - 1) : s[j] \in class  BY <1>2
<1>4. RunEnd(s, k, class) = e  BY <1>1, <1>2, <1>3, RunEndOnly
<1> QED BY <1>4 DEF e

\* Inside the tag that starts at i.
InTag(s, doubleQuoted, n, i) ==
  ModeAt(s, doubleQuoted, n) = "tag" /\ TagAt(s, doubleQuoted, n) = i

LEMMA TagGoesOn ==
  ASSUME NEW Char, NEW s \in Seq(Char), NEW doubleQuoted \in BOOLEAN, NEW i \in 1..Len(s),
         InTag(s, doubleQuoted, i, i)
  PROVE  \A k \in i..(RunEnd(s, i + 1, TagChar) - 1) : InTag(s, doubleQuoted, k, i)
<1> DEFINE j == RunEnd(s, i + 1, TagChar)
           Bad == {k \in i..(j - 1) : ~InTag(s, doubleQuoted, k, i)}
<1>1. /\ j \in (i + 1)..(Len(s) + 1)
      /\ \A k \in (i + 1)..(j - 1) : k \in 1..Len(s) /\ s[k] \in TagChar
  <2>1. i + 1 \in 1..(Len(s) + 1)  OBVIOUS
  <2> QED BY <2>1, RunEndIs, TagChars
<1> HIDE DEF j
<1> SUFFICES ASSUME Bad # {} PROVE FALSE  BY DEF j
<1>2. PICK k \in Bad : \A m \in Bad : k <= m
  <2>1. Bad \subseteq Nat  BY <1>1
  <2> HIDE DEF Bad
  <2> QED BY <2>1, LeastNatural
<1>3. k \in i..(j - 1) /\ ~InTag(s, doubleQuoted, k, i) /\ k # i  BY <1>2
<1>4. k - 1 \in i..(j - 1) /\ InTag(s, doubleQuoted, k - 1, i)  BY <1>1, <1>2, <1>3
<1>5. k \in 1..Len(s) /\ s[k] \in TagChar /\ s[k] # "$"  BY <1>1, <1>3, TagChars
<1>6. SameState(s, doubleQuoted, k - 1, k)  BY <1>4, <1>5, ReadsNext DEF InTag
<1> QED BY <1>3, <1>4, <1>6 DEF InTag, SameState

\* Inside the body after that tag.
InBody(s, doubleQuoted, n, i, body) ==
  /\ ModeAt(s, doubleQuoted, n) = "body"
  /\ TagAt(s, doubleQuoted, n) = i /\ BodyAt(s, doubleQuoted, n) = body

LEMMA DollarEnds ==
  ASSUME NEW Char, NEW s \in Seq(Char), NEW doubleQuoted \in BOOLEAN, NEW i \in 1..Len(s)
  PROVE  LET end == DollarEnd(s, i)
         IN /\ end = 0 <=> At(s, RunEnd(s, i + 1, TagChar)) # "$"
            /\ end # 0 => end \in (i + 1)..(Len(s) + 1)
            /\ end # 0 /\ end <= Len(s) =>
                 /\ s[end - 1] = "$"
                 /\ InTag(s, doubleQuoted, i, i) => ModeAt(s, doubleQuoted, end - 1) = "code"
<1> DEFINE j == RunEnd(s, i + 1, TagChar)
           tag == SubSeq(s, i, j)
           width == j - i + 1
           closers == {k \in (j + 1)..(Len(s) - Len(tag) + 1) : SubSeq(s, k, k + Len(tag) - 1) = tag}
           end == DollarEnd(s, i)
<1>1. end = IF At(s, j) # "$" THEN 0 ELSE IF closers = {} THEN Len(s) + 1 ELSE Min(closers) + Len(tag)
  BY DEF DollarEnd, TagChar
<1>2. j \in (i + 1)..(Len(s) + 1)
  <2>1. i + 1 \in 1..(Len(s) + 1)  OBVIOUS
  <2> QED BY <2>1, RunEndIs, TagChars
<1>3. CASE At(s, j) # "$"  BY <1>1, <1>3
<1>4. CASE At(s, j) = "$"
  <2>1. j \in 1..Len(s) /\ s[j] = "$"  BY <1>2, <1>4 DEF At
  <2>2. tag \in Seq(Char) /\ Len(tag) = width /\ tag[width] = s[j]  BY <1>2, <2>1
  <2>3. closers = {k \in (j + 1)..(Len(s) - width + 1) : SubSeq(s, k, k + width - 1) = tag}  BY <2>2
  <2> HIDE DEF closers, tag, j, end
  <2>4. CASE closers = {}  BY <1>1, <1>2, <1>4, <2>4 DEF end, j
  <2>5. CASE closers # {}
    <3> DEFINE first == Min(closers)
    <3>1. first \in closers /\ \A k \in closers : first <= k
      <4>1. closers \subseteq Nat  BY <1>2, <2>3
      <4> QED BY <2>5, <4>1, MinIs
    <3>2. end = first + width  BY <1>1, <1>4, <2>2, <2>5
    <3>3. first \in (j + 1)..(Len(s) - width + 1) /\ SubSeq(s, first, first + width - 1) = tag
      BY <2>3, <3>1
    <3> HIDE DEF first
    <3>4. /\ width \in Nat \ {0} /\ j \in Nat /\ i \in Nat /\ Len(s) \in Nat
          /\ width = j - i + 1
      BY <1>2
    <3>5. end \in (i + 1)..(Len(s) + 1) /\ end # 0  BY <1>2, <3>2, <3>3, <3>4
    <3>6. s[end - 1] = "$"
      <4> DEFINE m == first + width - 1
      <4>1. m \in 1..Len(s) /\ first \in 1..Len(s) /\ m - first + 1 = width /\ end - 1 = m
        BY <1>2, <3>2, <3>3, <3>4
      <4>2. SubSeq(s, first, m)[width] = s[m]  BY <4>1, <3>4
      <4> QED BY <2>1, <2>2, <3>3, <4>1, <4>2
    <3>7. ASSUME InTag(s, doubleQuoted, i, i)
          PROVE  ModeAt(s, doubleQuoted, end - 1) = "code"
      <4>1. InTag(s, doubleQuoted, j - 1, i) /\ j - 1 \in i..Len(s)
        <5>1. j - 1 \in i..(j - 1)  BY <1>2
        <5> QED BY <3>7, <5>1, <1>2, TagGoesOn DEF j
      <4>2. InBody(s, doubleQuoted, j, i, j + 1)  BY <2>1, <4>1, ReadsNext DEF InTag, InBody
      <4>3. \A k \in (j + 1)..Len(s) : InBody(s, doubleQuoted, k - 1, i, j + 1) =>
               (TagCloses(s, doubleQuoted, k) <=> k - width + 1 \in closers)
        <5> TAKE k \in (j + 1)..Len(s)
        <5> HAVE InBody(s, doubleQuoted, k - 1, i, j + 1)
        <5>1. TagAt(s, doubleQuoted, k - 1) = i /\ BodyAt(s, doubleQuoted, k - 1) = j + 1
          BY DEF InBody
        <5>2. Slice(s, i, j + 1) = tag
          <6>1. (j + 1) - 1 = j  BY <3>4
          <6> QED BY <6>1 DEF Slice, tag
        <5>3. TagCloses(s, doubleQuoted, k) <=> k - width >= (j + 1) - 1 /\ SubSeq(s, k - width + 1, k) = tag
          BY <2>2, <5>1, <5>2 DEF TagCloses
        <5>4. (k - width + 1) + width - 1 = k  BY <3>4
        <5>5. k - width + 1 \in (j + 1)..(Len(s) - width + 1) <=> k - width >= (j + 1) - 1  BY <3>4
        <5> QED BY <2>3, <5>3, <5>4, <5>5
      \* The body lasts until the first place where the tag comes again.
      <4>4. \A k \in j..(end - 2) : InBody(s, doubleQuoted, k, i, j + 1)
        <5> DEFINE Bad == {k \in j..(end - 2) : ~InBody(s, doubleQuoted, k, i, j + 1)}
        <5> SUFFICES ASSUME Bad # {} PROVE FALSE  OBVIOUS
        <5>1. PICK k \in Bad : \A m \in Bad : k <= m
          <6>1. Bad \subseteq Nat  BY <3>4, <3>5
          <6> HIDE DEF Bad
          <6> QED BY <6>1, LeastNatural
        <5>2. k \in j..(end - 2) /\ ~InBody(s, doubleQuoted, k, i, j + 1) /\ k # j  BY <4>2, <5>1
        <5>3. k \in (j + 1)..Len(s) /\ InBody(s, doubleQuoted, k - 1, i, j + 1)
          BY <3>4, <3>5, <5>1, <5>2
        <5>4. k - width + 1 \notin closers
          <6>1. k - width + 1 < first  BY <3>2, <3>3, <3>4, <5>2
          <6> QED BY <3>1, <3>3, <3>4, <6>1
        <5>5. SameState(s, doubleQuoted, k - 1, k)
          <6>1. ~TagCloses(s, doubleQuoted, k) /\ k \in 1..Len(s)  BY <4>3, <5>3, <5>4, <3>4
          <6> QED BY <5>3, <6>1, ReadsNext DEF InBody
        <5> QED BY <5>2, <5>3, <5>5 DEF InBody, SameState
      <4>5. end - 1 \in (j + 1)..Len(s) /\ (end - 1) - 1 \in j..(end - 2) /\ (end - 1) - width + 1 = first
        BY <3>2, <3>3, <3>4, <3>5
      <4>6. InBody(s, doubleQuoted, (end - 1) - 1, i, j + 1)  BY <4>4, <4>5
      <4>7. TagCloses(s, doubleQuoted, end - 1) /\ end - 1 \in 1..Len(s)
        BY <3>1, <3>4, <4>3, <4>5, <4>6
      <4> QED BY <4>6, <4>7, ReadsNext DEF InBody
    <3> QED BY <1>4, <3>5, <3>6, <3>7 DEF end, j
  <2> QED BY <2>4, <2>5
<1> QED BY <1>3, <1>4

-----------------------------------------------------------------------------
(***************************************************************************)
(* The scanner and the reader: wherever the scanner stands, the reader is  *)
(* outside every literal.                                                  *)
(***************************************************************************)
NumberChar == SqlWord \cup {".", "+", "-"}
NumberFirst == SqlDigit \cup {"."}

\* What a number is made of, and how it begins.
LEMMA NumberIsMadeOf ==
  ASSUME NEW Char, NEW s \in Seq(Char), NEW b \in 1..Len(s), NEW e \in (b + 1)..(Len(s) + 1), IsNumber(s, b, e)
  PROVE  s[b] \in NumberFirst /\ \A k \in b..(e - 1) : k \in 1..Len(s) /\ s[k] \in NumberChar
<1>1. /\ SqlDigit \subseteq NumberChar /\ HexDigits \subseteq NumberChar /\ {"0", "1"} \subseteq NumberChar
      /\ "." \in NumberChar /\ "e" \in NumberChar /\ "x" \in NumberChar /\ "b" \in NumberChar
      /\ {"+", "-"} \subseteq NumberChar /\ "0" \in NumberChar
      /\ SqlDigit \subseteq NumberFirst /\ "." \in NumberFirst /\ "0" \in NumberFirst
  BY DEF NumberChar, NumberFirst, SqlWord, SqlDigit, SqlLetter, HexDigits
<1>2. \A k \in b..e : At(s, k) # "end" => k \in 1..Len(s) /\ At(s, k) = s[k]  BY DEF At
<1>3. CASE \E m \in b..e : \E f \in m..e :
             /\ m = b \/ AreDigits(s, b, m, SqlDigit)
             /\ f = m \/ (At(s, m) = "." /\ AreDigits(s, m + 1, f, SqlDigit))
             /\ f > b
             /\ \/ f = e
                \/ /\ At(s, f) = "e"
                   /\ \/ AreDigits(s, f + 1, e, SqlDigit)
                      \/ At(s, f + 1) \in {"+", "-"} /\ AreDigits(s, f + 2, e, SqlDigit)
  <2>0. PICK m \in b..e : \E f \in m..e :
          /\ m = b \/ AreDigits(s, b, m, SqlDigit)
          /\ f = m \/ (At(s, m) = "." /\ AreDigits(s, m + 1, f, SqlDigit))
          /\ f > b
          /\ \/ f = e
             \/ /\ At(s, f) = "e"
                /\ \/ AreDigits(s, f + 1, e, SqlDigit)
                   \/ At(s, f + 1) \in {"+", "-"} /\ AreDigits(s, f + 2, e, SqlDigit)
    BY <1>3
  <2>1. PICK f \in m..e :
          /\ m = b \/ AreDigits(s, b, m, SqlDigit)
          /\ f = m \/ (At(s, m) = "." /\ AreDigits(s, m + 1, f, SqlDigit))
          /\ f > b
          /\ \/ f = e
             \/ /\ At(s, f) = "e"
                /\ \/ AreDigits(s, f + 1, e, SqlDigit)
                   \/ At(s, f + 1) \in {"+", "-"} /\ AreDigits(s, f + 2, e, SqlDigit)
    BY <2>0
  <2>2. \A k \in b..(m - 1) : s[k] \in SqlDigit  BY <2>1 DEF AreDigits
  <2>3. \A k \in m..(f - 1) : s[k] = "." \/ s[k] \in SqlDigit  BY <2>1, <1>2 DEF AreDigits
  <2>4. \A k \in f..(e - 1) : s[k] = "e" \/ s[k] \in SqlDigit \/ s[k] \in {"+", "-"}
    BY <2>1, <1>2 DEF AreDigits
  <2>5. \A k \in b..(e - 1) : s[k] \in NumberChar  BY <1>1, <2>2, <2>3, <2>4
  <2>6. s[b] \in NumberFirst  BY <1>1, <2>1, <2>2, <2>3
  <2> QED BY <2>5, <2>6
<1>4. CASE s[b] = "0" /\ At(s, b + 1) = "x" /\ AreDigits(s, b + 2, e, HexDigits)
  <2>1. b + 1 \in 1..Len(s) /\ s[b + 1] = "x" /\ \A k \in (b + 2)..(e - 1) : s[k] \in HexDigits
    BY <1>4 DEF At, AreDigits
  <2> QED BY <1>1, <1>4, <2>1
<1>5. CASE s[b] = "0" /\ At(s, b + 1) = "b" /\ AreDigits(s, b + 2, e, {"0", "1"})
  <2>1. b + 1 \in 1..Len(s) /\ s[b + 1] = "b" /\ \A k \in (b + 2)..(e - 1) : s[k] \in {"0", "1"}
    BY <1>5 DEF At, AreDigits
  <2> QED BY <1>1, <1>5, <2>1
<1> QED BY <1>3, <1>4, <1>5 DEF IsNumber, HexDigits

\* The characters that matter to the reader's mode are none of a number's.
LEMMA Characters ==
  /\ QuoteMarks \cap NumberChar = {} /\ "$" \notin NumberChar /\ "$" \notin QuoteMarks
  /\ TagChar \subseteq NumberChar /\ TagChar \cap NumberFirst = {} /\ TagChar \cap QuoteMarks = {}
  /\ NumberFirst \subseteq NumberChar /\ SqlWord \subseteq NumberChar /\ SqlLetter \subseteq TagChar
  /\ "&" \notin QuoteMarks /\ "&" \notin TagChar /\ "&" # "$"
  /\ \A c, doubleQuoted : IsQuote(c, doubleQuoted) => c \in QuoteMarks
  BY DEF QuoteMarks, NumberChar, NumberFirst, TagChar, SqlWord, SqlDigit, SqlLetter, IsQuote, Apostrophe, QuotationMark

\* Code stays code until a quote or a dollar sign.
LEMMA CodeGoesOn ==
  ASSUME NEW Char, NEW s \in Seq(Char), NEW doubleQuoted \in BOOLEAN, NEW i \in 1..Len(s), NEW e \in (i + 1)..(Len(s) + 1),
         TakenAsCode(s, doubleQuoted, i),
         \A k \in i..(e - 1) : ~IsQuote(s[k], doubleQuoted) /\ s[k] # "$"
  PROVE  \A k \in i..(e - 1) : ModeAt(s, doubleQuoted, k) = "code"
<1> DEFINE Bad == {k \in i..(e - 1) : ModeAt(s, doubleQuoted, k) # "code"}
<1> SUFFICES ASSUME Bad # {} PROVE FALSE  OBVIOUS
<1>1. PICK k \in Bad : \A m \in Bad : k <= m
  <2>1. Bad \subseteq Nat  OBVIOUS
  <2> HIDE DEF Bad
  <2> QED BY <2>1, LeastNatural
<1>2. k \in i..(e - 1) /\ k \in 1..Len(s) /\ ModeAt(s, doubleQuoted, k) # "code"  BY <1>1
<1>3. k # i => ModeAt(s, doubleQuoted, k - 1) = "code"
  <2>1. k # i => k - 1 \in i..(e - 1) /\ k - 1 < k  BY <1>2
  <2> QED BY <1>1, <2>1
<1>4. TakenAsCode(s, doubleQuoted, k)  BY <1>3 DEF TakenAsCode
<1> QED BY <1>2, <1>4, ReadsNext

\* A tag that turns out to be none.
FailedTag(s, doubleQuoted, i) ==
  ModeAt(s, doubleQuoted, i - 1) = "tag" /\ At(s, RunEnd(s, i, TagChar)) # "$"

Outside(s, doubleQuoted, i) == TakenAsCode(s, doubleQuoted, i) \/ FailedTag(s, doubleQuoted, i)

\* Only letters and the dollar sign are read in a tag.
LEMMA TagIsLetters ==
  ASSUME NEW Char, NEW s \in Seq(Char), NEW doubleQuoted \in BOOLEAN, NEW n \in 0..Len(s),
         ModeAt(s, doubleQuoted, n) = "tag"
  PROVE  n \in 1..Len(s) /\ (s[n] = "$" \/ s[n] \in TagChar)
<1>1. ModeAt(s, doubleQuoted, 0) = "code"  BY LexIs DEF ModeAt, LexStart
<1>2. n \in 1..Len(s)  BY <1>1
<1>3. ModeAt(s, doubleQuoted, n - 1) \in Modes
  <2>1. Lex(s, doubleQuoted)[n - 1] \in LexState  BY <1>2, LexIs
  <2> QED BY <2>1 DEF LexState, ModeAt
<1>4. \/ ModeAt(s, doubleQuoted, n - 1) = "code" \/ ModeAt(s, doubleQuoted, n - 1) = "string"
      \/ ModeAt(s, doubleQuoted, n - 1) = "escape" \/ ModeAt(s, doubleQuoted, n - 1) = "closing"
      \/ ModeAt(s, doubleQuoted, n - 1) = "tag" \/ ModeAt(s, doubleQuoted, n - 1) = "body"
  BY <1>3 DEF Modes
<1>5. ASSUME s[n] # "$", s[n] \notin TagChar PROVE FALSE
  BY <1>2, <1>4, <1>5, ReadsNext DEF TakenAsCode, SameState
<1> QED BY <1>2, <1>5

\* Outside, what is no letter is code.
LEMMA OutsideIsCode ==
  ASSUME NEW Char, NEW s \in Seq(Char), NEW doubleQuoted \in BOOLEAN, NEW i \in 1..Len(s),
         Outside(s, doubleQuoted, i), s[i] \notin TagChar \/ At(s, i - 1) \notin SqlWord \cup {"$"}
  PROVE  TakenAsCode(s, doubleQuoted, i)
<1> SUFFICES ASSUME FailedTag(s, doubleQuoted, i) PROVE TakenAsCode(s, doubleQuoted, i)
  BY DEF Outside
<1>1. i - 1 \in 1..Len(s) /\ (s[i - 1] = "$" \/ s[i - 1] \in TagChar)
  <2>1. i - 1 \in 0..Len(s)  OBVIOUS
  <2> QED BY <2>1, TagIsLetters DEF FailedTag
<1>2. At(s, i - 1) \in SqlWord \cup {"$"}  BY <1>1, TagChars DEF At
<1>3. s[i] \notin TagChar  BY <1>2
<1>4. RunEnd(s, i, TagChar) = i
  <2>1. /\ i \in 1..(Len(s) + 1) /\ i \in i..(Len(s) + 1) /\ At(s, i) \notin TagChar
        /\ \A k \in i..(i - 1) : s[k] \in TagChar
    BY <1>3 DEF At
  <2> QED BY <2>1, TagChars, RunEndOnly
<1>5. s[i] # "$"  BY <1>4 DEF FailedTag, At
<1> QED BY <1>3, <1>5 DEF FailedTag, TakenAsCode

\* A string opens at its quote, or after a prefix that no word or dollar sign
\* comes before.
LEMMA StringQuoteIs ==
  ASSUME NEW Char, NEW s \in Seq(Char), NEW i \in 1..Len(s)
  PROVE  LET quote == StringQuote(s, i)
         IN /\ quote # 0 => quote \in 1..Len(s) /\ s[quote] = Apostrophe
            /\ quote = 0 => s[i] # Apostrophe
            /\ \/ quote = 0
               \/ quote = i
               \/ /\ At(s, i - 1) \notin SqlWord \cup {"$"} /\ s[i] \in SqlLetter
                  /\ quote = i + 1 \/ (quote = i + 2 /\ s[i + 1] = "&")
<1> DEFINE prefixed == IF s[i] \in {"e", "x", "n", "b"} THEN i + 1
                       ELSE IF s[i] = "u" /\ At(s, i + 1) = "&" THEN i + 2 ELSE 0
           quote == StringQuote(s, i)
<1>1. quote = IF s[i] = Apostrophe THEN i ELSE IF At(s, i - 1) \in SqlWord \cup {"$"} THEN 0
              ELSE IF At(s, prefixed) = Apostrophe THEN prefixed ELSE 0
  BY Zenon DEF StringQuote, Apostrophe
<1>2. /\ prefixed # 0 => s[i] \in SqlLetter
      /\ prefixed = 0 \/ prefixed = i + 1 \/ (prefixed = i + 2 /\ At(s, i + 1) = "&")
  BY DEF SqlLetter
<1> HIDE DEF prefixed, quote
<1>3. At(s, prefixed) = Apostrophe => prefixed \in 1..Len(s) /\ s[prefixed] = Apostrophe
  <2>1. Apostrophe # "end"  BY DEF Apostrophe
  <2> QED BY <2>1 DEF At
<1>4. At(s, i + 1) = "&" => i + 1 \in 1..Len(s) /\ s[i + 1] = "&"  BY DEF At
<1>5. CASE s[i] = Apostrophe  BY <1>1, <1>5 DEF quote
<1>6. CASE s[i] # Apostrophe /\ quote # 0
  <2>1. quote = prefixed /\ At(s, prefixed) = Apostrophe /\ At(s, i - 1) \notin SqlWord \cup {"$"}
    BY <1>1, <1>6
  <2> QED BY <1>2, <1>3, <1>4, <2>1 DEF quote
<1>7. CASE s[i] # Apostrophe /\ quote = 0  BY <1>7 DEF quote
<1> QED BY <1>5, <1>6, <1>7

\* Where the reader meets the opening quote of what the scanner takes as a
\* string, it opens one too.
OpeningQuote(s, i, doubleQuoted) ==
  IF StringQuote(s, i) = 0 /\ doubleQuoted /\ s[i] = QuotationMark THEN i ELSE StringQuote(s, i)

LEMMA QuoteOpens ==
  ASSUME NEW Char, NEW s \in Seq(Char), NEW doubleQuoted \in BOOLEAN, NEW i \in 1..Len(s),
         OpeningQuote(s, i, doubleQuoted) # 0
  PROVE  LET quote == OpeningQuote(s, i, doubleQuoted)
         IN /\ quote \in i..Len(s) /\ s[quote] \in QuoteMarks
            /\ Outside(s, doubleQuoted, i) => InString(s, doubleQuoted, quote, s[quote])
<1> DEFINE quote == OpeningQuote(s, i, doubleQuoted)
<1>1. /\ quote \in i..Len(s) /\ IsQuote(s[quote], doubleQuoted)
      /\ \/ quote = i
         \/ /\ At(s, i - 1) \notin SqlWord \cup {"$"} /\ s[i] \in SqlLetter
            /\ quote = i + 1 \/ (quote = i + 2 /\ s[i + 1] = "&")
  <2>1. CASE StringQuote(s, i) = 0  BY <2>1 DEF OpeningQuote, IsQuote
  <2>2. CASE StringQuote(s, i) # 0  BY <2>2, StringQuoteIs DEF OpeningQuote, IsQuote
  <2> QED BY <2>1, <2>2
<1> HIDE DEF quote
<1>2. s[quote] \in QuoteMarks  BY <1>1, Characters
<1>3. ASSUME Outside(s, doubleQuoted, i)
      PROVE  InString(s, doubleQuoted, quote, s[quote])
  <2>1. TakenAsCode(s, doubleQuoted, i)  BY <1>1, <1>2, <1>3, OutsideIsCode, Characters
  <2>2. \A k \in i..(quote - 1) : ~IsQuote(s[k], doubleQuoted) /\ s[k] # "$"  BY <1>1, Characters
  <2>3. TakenAsCode(s, doubleQuoted, quote)
    <3>1. CASE quote = i  BY <2>1, <3>1
    <3>2. CASE quote # i
      <4>1. quote \in (i + 1)..(Len(s) + 1) /\ quote - 1 \in i..(quote - 1)  BY <1>1, <3>2
      <4>2. ModeAt(s, doubleQuoted, quote - 1) = "code"  BY <2>1, <2>2, <4>1, CodeGoesOn
      <4> QED BY <4>2 DEF TakenAsCode
    <3> QED BY <3>1, <3>2
  <2> QED BY <1>1, <2>3, ReadsNext DEF InString
<1> QED BY <1>1, <1>2, <1>3 DEF quote

\* The end of a literal lies after its start, whatever the reader makes of it;
\* from outside, the scanner gets outside again.  A string ends with a quote
\* or a dollar sign, or with the text.
EndsOutside(s, doubleQuoted, i, end) ==
  /\ end <= Len(s) => Outside(s, doubleQuoted, end)
  /\ \/ end = Len(s) + 1
     \/ s[end - 1] \in QuoteMarks \cup {"$"}
     \/ end = NumberEnd(s, i) /\ s[i] \in NumberFirst /\ At(s, i - 1) \notin SqlWord \cup {"$", "."}

LEMMA LiteralEnds ==
  ASSUME NEW Char, NEW s \in Seq(Char), NEW doubleQuoted \in BOOLEAN, NEW i \in 1..Len(s),
         LiteralEnd(s, i, doubleQuoted) # 0
  PROVE  LET end == LiteralEnd(s, i, doubleQuoted)
         IN /\ end \in (i + 1)..(Len(s) + 1)
            /\ Outside(s, doubleQuoted, i) => EndsOutside(s, doubleQuoted, i, end)
<1> DEFINE quote == OpeningQuote(s, i, doubleQuoted)
           end == LiteralEnd(s, i, doubleQuoted)
<1>1. end = IF quote # 0 THEN QuotedEnd(s, quote)
            ELSE IF s[i] = "$" THEN DollarEnd(s, i)
            ELSE IF s[i] \in NumberFirst /\ At(s, i - 1) \notin SqlWord \cup {"$", "."} THEN NumberEnd(s, i)
            ELSE 0
  BY Zenon DEF LiteralEnd, OpeningQuote, NumberFirst, QuotationMark
<1> HIDE DEF quote, end
<1>2. CASE quote # 0
  <2>1. /\ quote \in 1..Len(s) /\ quote >= i /\ s[quote] \in QuoteMarks
        /\ Outside(s, doubleQuoted, i) => InString(s, doubleQuoted, quote, s[quote])
    BY <1>2, QuoteOpens DEF quote
  <2>2. /\ QuotedEnd(s, quote) \in (quote + 1)..(Len(s) + 1)
        /\ Outside(s, doubleQuoted, i) => Closed(s, doubleQuoted, quote, QuotedEnd(s, quote))
    BY <2>1, StringEnds
  <2>3. end = QuotedEnd(s, quote)  BY <1>1, <1>2
  <2>4. end \in (i + 1)..(Len(s) + 1)  BY <2>1, <2>2, <2>3
  <2>5. ASSUME Outside(s, doubleQuoted, i)
        PROVE  EndsOutside(s, doubleQuoted, i, end)
    <3>1. CASE end = Len(s) + 1  BY <3>1 DEF EndsOutside
    <3>2. CASE end # Len(s) + 1
      <4>1. end <= Len(s)  BY <2>4, <3>2
      <4>2. /\ ModeAt(s, doubleQuoted, end - 1) = "closing" /\ QuoteAt(s, doubleQuoted, end - 1) = s[quote]
            /\ s[end - 1] = s[quote] /\ s[end] # s[quote]
        BY <2>2, <2>3, <2>5, <4>1 DEF Closed
      <4>3. Outside(s, doubleQuoted, end)  BY <4>2 DEF Outside, TakenAsCode
      <4> QED BY <2>1, <4>2, <4>3 DEF EndsOutside
    <3> QED BY <3>1, <3>2
  <2> QED BY <2>4, <2>5 DEF end
<1>3. CASE quote = 0 /\ s[i] = "$"
  <2>1. end = DollarEnd(s, i) /\ end # 0  BY <1>1, <1>3 DEF end
  <2>2. /\ end \in (i + 1)..(Len(s) + 1)
        /\ end <= Len(s) => /\ s[end - 1] = "$"
                            /\ InTag(s, doubleQuoted, i, i) => ModeAt(s, doubleQuoted, end - 1) = "code"
    BY <2>1, DollarEnds
  <2>3. ASSUME Outside(s, doubleQuoted, i)
        PROVE  EndsOutside(s, doubleQuoted, i, end)
    <3>1. TakenAsCode(s, doubleQuoted, i)  BY <1>3, <2>3, OutsideIsCode, TagChars
    <3>2. InTag(s, doubleQuoted, i, i)  BY <1>3, <3>1, ReadsNext, Characters DEF InTag
    <3>3. end <= Len(s) => Outside(s, doubleQuoted, end)  BY <2>2, <3>2 DEF Outside, TakenAsCode
    <3> QED BY <2>2, <3>3 DEF EndsOutside
  <2> QED BY <2>2, <2>3 DEF end
<1>4. CASE quote = 0 /\ s[i] # "$"
  <2>1. end = NumberEnd(s, i) /\ end # 0 /\ s[i] \in NumberFirst /\ At(s, i - 1) \notin SqlWord \cup {"$", "."}
    BY <1>1, <1>4 DEF end
  <2>2. end \in (i + 1)..(Len(s) + 1) /\ IsNumber(s, i, end)  BY <2>1, FoundIsNumber
  <2>3. ASSUME Outside(s, doubleQuoted, i)
        PROVE  EndsOutside(s, doubleQuoted, i, end)
    <3>1. TakenAsCode(s, doubleQuoted, i)  BY <2>1, <2>3, OutsideIsCode, Characters
    <3>2. \A k \in i..(end - 1) : s[k] \in NumberChar  BY <2>2, NumberIsMadeOf
    <3>3. \A k \in i..(end - 1) : ~IsQuote(s[k], doubleQuoted) /\ s[k] # "$"  BY <3>2, Characters
    <3>4. ModeAt(s, doubleQuoted, end - 1) = "code"
      <4>1. \A k \in i..(end - 1) : ModeAt(s, doubleQuoted, k) = "code"
        BY <2>2, <3>1, <3>3, CodeGoesOn
      <4> QED BY <2>2, <4>1
    <3> QED BY <2>1, <3>4 DEF EndsOutside, Outside, TakenAsCode
  <2> QED BY <2>2, <2>3 DEF end
<1> QED BY <1>2, <1>3, <1>4

\* A character that is copied leads from outside to outside.
LEMMA CopiesOutside ==
  ASSUME NEW Char, NEW s \in Seq(Char), NEW doubleQuoted \in BOOLEAN, NEW i \in 1..Len(s),
         Outside(s, doubleQuoted, i), LiteralEnd(s, i, doubleQuoted) = 0, i < Len(s)
  PROVE  Outside(s, doubleQuoted, i + 1)
<1>0. (i + 1) - 1 = i /\ i + 1 \in 1..Len(s)  OBVIOUS
<1>1. ~IsQuote(s[i], doubleQuoted)
  <2> SUFFICES ASSUME IsQuote(s[i], doubleQuoted) PROVE FALSE  OBVIOUS
  <2>1. OpeningQuote(s, i, doubleQuoted) # 0  BY StringQuoteIs DEF OpeningQuote, IsQuote
  <2>2. LiteralEnd(s, i, doubleQuoted) = QuotedEnd(s, OpeningQuote(s, i, doubleQuoted))
    BY <2>1, Zenon DEF LiteralEnd, OpeningQuote, QuotationMark
  <2>3. OpeningQuote(s, i, doubleQuoted) \in 1..Len(s)  BY <2>1, QuoteOpens
  <2> QED BY <2>2, <2>3, StringEnds
<1>2. CASE s[i] = "$"
  <2>1. TakenAsCode(s, doubleQuoted, i)  BY <1>2, OutsideIsCode, TagChars
  <2>2. InTag(s, doubleQuoted, i, i)  BY <1>1, <1>2, <2>1, ReadsNext DEF InTag
  <2>3. DollarEnd(s, i) = 0
    <3>1. OpeningQuote(s, i, doubleQuoted) = 0
      <4> SUFFICES ASSUME OpeningQuote(s, i, doubleQuoted) # 0 PROVE FALSE  OBVIOUS
      <4>1. OpeningQuote(s, i, doubleQuoted) \in 1..Len(s)  BY QuoteOpens
      <4>2. LiteralEnd(s, i, doubleQuoted) = QuotedEnd(s, OpeningQuote(s, i, doubleQuoted))
        BY Zenon DEF LiteralEnd, OpeningQuote, QuotationMark
      <4> QED BY <4>1, <4>2, StringEnds
    <3> QED BY <1>2, <3>1, Zenon DEF LiteralEnd, OpeningQuote, QuotationMark
  <2>4. At(s, RunEnd(s, i + 1, TagChar)) # "$"  BY <2>3, DollarEnds
  <2> QED BY <1>0, <2>2, <2>4 DEF InTag, Outside, FailedTag
<1>3. CASE s[i] # "$" /\ TakenAsCode(s, doubleQuoted, i)
  <2>1. ModeAt(s, doubleQuoted, i) = "code"  BY <1>1, <1>3, ReadsNext
  <2> QED BY <1>0, <2>1 DEF Outside, TakenAsCode
<1>4. CASE s[i] # "$" /\ ~TakenAsCode(s, doubleQuoted, i)
  <2>1. FailedTag(s, doubleQuoted, i) /\ s[i] \in TagChar  BY <1>4, OutsideIsCode DEF Outside
  <2>2. ModeAt(s, doubleQuoted, i) = "tag"  BY <1>4, <2>1, ReadsNext DEF FailedTag, SameState
  <2>3. RunEnd(s, i, TagChar) = RunEnd(s, i + 1, TagChar)  BY <2>1, TagChars, RunGoesOn
  <2> QED BY <1>0, <2>1, <2>2, <2>3 DEF Outside, FailedTag
<1> QED BY <1>2, <1>3, <1>4

-----------------------------------------------------------------------------
(***************************************************************************)
(* Of overlapping stretches the ones met from left to right: there is such *)
(* a set, so the rule describes the one that is chosen.                    *)
(***************************************************************************)
Covered(T, b) == \E q \in T : q[1] < b /\ b < q[2]
Met(P, T) == T \in SUBSET P /\ \A p \in P : p \in T <=> ~Covered(T, p[1])

LEMMA LeftToRightIs ==
  ASSUME NEW N \in Nat, NEW P, \A p \in P : p[1] \in 1..N
  PROVE  Met(P, LeftToRight(P))
<1> DEFINE Below(n) == {p \in P : p[1] < n}
           Upto(n, T) == T \in SUBSET Below(n) /\ \A p \in Below(n) : p \in T <=> ~Covered(T, p[1])
           Good(n) == \E T : Upto(n, T)
<1>1. Good(0)
  <2>1. Below(0) = {}  OBVIOUS
  <2>2. Upto(0, {})  BY <2>1
  <2> QED BY <2>2
<1>2. ASSUME NEW n \in Nat, Good(n) PROVE Good(n + 1)
  <2>1. PICK T : Upto(n, T)  BY <1>2
  <2> DEFINE New == {p \in P : p[1] = n /\ ~Covered(T, n)}
             U == T \cup New
  <2>2. U \in SUBSET Below(n + 1)  BY <2>1
  <2>3. \A b \in 1..n : Covered(U, b) <=> Covered(T, b)  BY <2>1 DEF Covered
  <2>4. ASSUME NEW p \in Below(n + 1) PROVE p \in U <=> ~Covered(U, p[1])
    <3>1. p \in P /\ p[1] \in 1..n  BY <2>4
    <3>2. CASE p[1] = n
      <4>1. p \notin T  BY <2>1, <3>2
      <4> QED BY <2>3, <3>1, <3>2, <4>1
    <3>3. CASE p[1] # n
      <4>1. p \in Below(n) /\ p \notin New  BY <3>1, <3>3
      <4> QED BY <2>1, <2>3, <3>1, <4>1
    <3> QED BY <3>2, <3>3
  <2>5. Upto(n + 1, U)  BY <2>2, <2>4
  <2> QED BY <2>5
<1> HIDE DEF Good
<1>3. \A n \in Nat : Good(n)
  <2> DEFINE Bad == {n \in Nat : ~Good(n)}
  <2> SUFFICES ASSUME Bad # {} PROVE FALSE  OBVIOUS
  <2>1. PICK n \in Bad : \A m \in Bad : n <= m  BY LeastNatural
  <2>2. n \in Nat /\ n # 0  BY <1>1
  <2>3. n - 1 \in Nat /\ n - 1 \notin Bad  BY <2>1, <2>2
  <2>4. Good((n - 1) + 1)  BY <1>2, <2>3
  <2> QED BY <2>2, <2>4
<1>4. PICK T : Upto(N + 1, T)  BY <1>3 DEF Good
<1>5. Below(N + 1) = P  OBVIOUS
<1>6. Met(P, T)  BY <1>4, <1>5 DEF Met
<1>7. LeftToRight(P) = CHOOSE U \in SUBSET P : \A p \in P : p \in U <=> ~Covered(U, p[1])
  BY DEF LeftToRight, Covered
<1> QED BY <1>6, <1>7 DEF Met

-----------------------------------------------------------------------------
(***************************************************************************)
(* The mask holds only positions that the scanner stops at.                *)
(***************************************************************************)

\* A set of positions that the scanner does not leave.
Stops(s, doubleQuoted, Q) ==
  /\ 1 \in Q
  /\ \A i \in Q \cap 1..Len(s) : LET end == LiteralEnd(s, i, doubleQuoted)
                                 IN IF end = 0 THEN i + 1 \in Q ELSE end \in Q

\* A position that is copied, of such a set.
Copied(s, doubleQuoted, Q, x) == x \in Q \cap 1..Len(s) /\ LiteralEnd(s, x, doubleQuoted) = 0

LEMMA MaskIs ==
  ASSUME NEW Char, NEW s \in Seq(Char), NEW doubleQuoted \in BOOLEAN, NEW Q, Stops(s, doubleQuoted, Q)
  PROVE  \A x \in ToSet(Mask(s, doubleQuoted)) : x = 0 \/ x = Ellipsis \/ Copied(s, doubleQuoted, Q, x)
<1> DEFINE S == 1..(Len(s) + 1)
           V == Seq(Int)
           end(i) == LiteralEnd(s, i, doubleQuoted)
           rank == [i \in S |-> Len(s) + 1 - i]
           step == [i \in S |-> IF i > Len(s) THEN 0 ELSE IF end(i) = 0 THEN i + 1 ELSE end(i)]
           def == [i \in S |-> [v \in V |-> IF i > Len(s) THEN << >>
                                            ELSE IF end(i) = 0 THEN <<i>> \o v ELSE <<0>> \o v]]
           Is(f) == f = [i \in S |-> IF i > Len(s) THEN << >>
                                     ELSE IF end(i) = 0 THEN <<i>> \o f[i + 1] ELSE <<0>> \o f[end(i)]]
           Rest == CHOOSE f : Is(f)
           whole == Rest[1]
<1>1. \A i \in 1..Len(s) : end(i) # 0 => end(i) \in (i + 1)..(Len(s) + 1)  BY LiteralEnds
<1> HIDE DEF end
<1>2. Descends(step, rank, S)
  <2>1. rank \in [S -> Nat] /\ \A i \in S : rank[i] = Len(s) + 1 - i  OBVIOUS
  <2>2. \A i \in S : step[i] \in S => step[i] > i  BY <1>1
  <2> HIDE DEF rank, step
  <2> QED BY <2>1, <2>2 DEF Descends
<1>3. def \in [S -> [V -> V]]  OBVIOUS
<1>4. PICK f : Recursive(f, S, V, << >>, step, def)
  <2>1. << >> \in V  OBVIOUS
  <2> HIDE DEF S, V, rank, step, def
  <2> QED BY <1>2, <1>3, <2>1, RecursiveFunction
<1>5. f \in [S -> V]  BY <1>4 DEF Recursive
<1>6. ASSUME NEW i \in S
      PROVE  f[i] = IF i > Len(s) THEN << >>
                    ELSE IF end(i) = 0 THEN <<i>> \o f[i + 1] ELSE <<0>> \o f[end(i)]
  <2>1. f[i] = def[i][IF step[i] \in S THEN f[step[i]] ELSE << >>]  BY <1>4 DEF Recursive
  <2>2. \A v \in V : def[i][v] = IF i > Len(s) THEN << >>
                                 ELSE IF end(i) = 0 THEN <<i>> \o v ELSE <<0>> \o v
    OBVIOUS
  <2>3. step[i] = IF i > Len(s) THEN 0 ELSE IF end(i) = 0 THEN i + 1 ELSE end(i)  OBVIOUS
  <2>4. i <= Len(s) => step[i] \in S  BY <1>1, <2>3
  <2>5. (IF step[i] \in S THEN f[step[i]] ELSE << >>) \in V  BY <1>5
  <2> HIDE DEF def, step, V
  <2>6. f[i] = IF i > Len(s) THEN << >>
               ELSE IF end(i) = 0 THEN <<i>> \o (IF step[i] \in S THEN f[step[i]] ELSE << >>)
               ELSE <<0>> \o (IF step[i] \in S THEN f[step[i]] ELSE << >>)
    BY <2>1, <2>2, <2>5
  <2> QED BY <2>3, <2>4, <2>6
<1>7. Is(f)
  <2> HIDE DEF S, V
  <2> QED BY <1>5, <1>6
<1>8. Is(Rest)  BY <1>7
<1>9. Mask(s, doubleQuoted) = IF ToSet(s) \subseteq SqlSpace THEN << >>
                              ELSE IF Len(whole) <= MaxSqlLength THEN whole
                              ELSE Append(SubSeq(whole, 1, MaxSqlLength), Ellipsis)
  BY DEF Mask, end
<1> HIDE DEF Rest
<1>10. ASSUME NEW i \in S
       PROVE  Rest[i] = IF i > Len(s) THEN << >>
                        ELSE IF end(i) = 0 THEN <<i>> \o Rest[i + 1] ELSE <<0>> \o Rest[end(i)]
  BY <1>8
<1> DEFINE Fine(x) == x \in Int /\ (x = 0 \/ Copied(s, doubleQuoted, Q, x))
           AllFine(v) == v \in Seq(Int) /\ \A k \in DOMAIN v : Fine(v[k])
<1>11. \A i \in S : i \in Q => AllFine(Rest[i])
  <2> DEFINE Bad == {i \in S : i \in Q /\ ~AllFine(Rest[i])}
  <2> SUFFICES ASSUME Bad # {} PROVE FALSE  OBVIOUS
  <2>1. PICK i \in Bad : \A k \in S : rank[k] < rank[i] => k \notin Bad
    <3>1. Bad \subseteq S /\ rank \in [S -> Nat]  OBVIOUS
    <3> HIDE DEF Bad, S, rank
    <3> QED BY <3>1, LeastRank
  <2> HIDE DEF AllFine
  <2>2. i \in S /\ i \in Q /\ ~AllFine(Rest[i])  BY <2>1
  <2>3. \A k \in S : k > i /\ k \in Q => AllFine(Rest[k])
    <3> TAKE k \in S
    <3>1. k > i => rank[k] < rank[i]  BY <2>2
    <3> HIDE DEF rank
    <3> QED BY <2>1, <3>1
  <2> HIDE DEF Bad, rank
  <2>4. \A v, x : AllFine(v) /\ Fine(x) => AllFine(<<x>> \o v)
    <3> SUFFICES ASSUME NEW v, NEW x, AllFine(v), Fine(x) PROVE AllFine(<<x>> \o v)  OBVIOUS
    <3> HIDE DEF Fine
    <3>1. v \in Seq(Int) /\ x \in Int  BY DEF AllFine, Fine
    <3>2. <<x>> \o v \in Seq(Int)  BY <3>1
    <3>3. \A k \in DOMAIN (<<x>> \o v) : (<<x>> \o v)[k] = x \/ \E m \in DOMAIN v : (<<x>> \o v)[k] = v[m]
      <4> TAKE k \in DOMAIN (<<x>> \o v)
      <4>1. k \in 1..(Len(v) + 1) /\ DOMAIN v = 1..Len(v) /\ Len(v) \in Nat  BY <3>1
      <4>2. CASE k = 1  BY <3>1, <4>2
      <4>3. CASE k # 1
        <5>1. k - 1 \in DOMAIN v /\ (<<x>> \o v)[k] = v[k - 1]  BY <3>1, <4>1, <4>3
        <5> QED BY <5>1
      <4> QED BY <4>2, <4>3
    <3> QED BY <3>2, <3>3 DEF AllFine
  <2>5. CASE i > Len(s)
    <3>1. Rest[i] = << >>  BY <1>10, <2>2, <2>5
    <3> QED BY <2>2, <3>1 DEF AllFine
  <2>6. CASE ~(i > Len(s)) /\ end(i) = 0
    <3>1. i \in Q \cap 1..Len(s) /\ i + 1 \in S  BY <2>2, <2>6
    <3>2. i + 1 \in Q /\ Fine(i)  BY <2>6, <3>1 DEF Stops, Copied, end
    <3>3. AllFine(Rest[i + 1])  BY <2>3, <3>1, <3>2
    <3>4. Rest[i] = <<i>> \o Rest[i + 1]  BY <1>10, <2>2, <2>6
    <3> HIDE DEF Fine
    <3> QED BY <2>2, <2>4, <3>2, <3>3, <3>4
  <2>7. CASE ~(i > Len(s)) /\ end(i) # 0
    <3>1. i \in Q \cap 1..Len(s)  BY <2>2, <2>7
    <3>2. end(i) \in Q /\ end(i) \in S /\ end(i) > i  BY <1>1, <2>7, <3>1 DEF Stops, end
    <3>3. AllFine(Rest[end(i)]) /\ Fine(0)  BY <2>3, <3>2
    <3>4. Rest[i] = <<0>> \o Rest[end(i)]  BY <1>10, <2>2, <2>7
    <3> HIDE DEF Fine
    <3> QED BY <2>2, <2>4, <3>3, <3>4
  <2> QED BY <2>5, <2>6, <2>7
<1>12. AllFine(whole)
  <2>1. 1 \in S /\ 1 \in Q  BY DEF Stops
  <2> HIDE DEF AllFine
  <2> QED BY <1>11, <2>1
<1> HIDE DEF whole, Fine
<1> SUFFICES ASSUME NEW k \in DOMAIN Mask(s, doubleQuoted)
             PROVE  Mask(s, doubleQuoted)[k] = Ellipsis \/ Fine(Mask(s, doubleQuoted)[k])
  BY DEF ToSet, Fine
<1>13. CASE Mask(s, doubleQuoted) = << >>  BY <1>13
<1>14. CASE Mask(s, doubleQuoted) = whole  BY <1>12, <1>14
<1>15. CASE Mask(s, doubleQuoted) = Append(SubSeq(whole, 1, MaxSqlLength), Ellipsis) /\ ~(Len(whole) <= MaxSqlLength)
  <2> DEFINE cut == SubSeq(whole, 1, MaxSqlLength)
  <2>1. MaxSqlLength \in Nat /\ whole \in Seq(Int) /\ Len(whole) \in Nat /\ DOMAIN whole = 1..Len(whole)
    BY <1>12, SqlAssumption
  <2>2. cut \in Seq(Int) /\ Len(cut) = MaxSqlLength /\ \A m \in 1..MaxSqlLength : cut[m] = whole[m] /\ m \in DOMAIN whole
    BY <1>15, <2>1
  <2> HIDE DEF cut
  <2>3. Ellipsis \in Int  BY DEF Ellipsis
  <2>4. k \in 1..(MaxSqlLength + 1) /\ Append(cut, Ellipsis)[k] = IF k = MaxSqlLength + 1 THEN Ellipsis ELSE cut[k]
    BY <1>15, <2>1, <2>2, <2>3 DEF cut
  <2>5. Mask(s, doubleQuoted)[k] = IF k = MaxSqlLength + 1 THEN Ellipsis ELSE cut[k]
    BY <1>15, <2>4 DEF cut
  <2>6. k # MaxSqlLength + 1 => cut[k] = whole[k] /\ k \in DOMAIN whole  BY <2>1, <2>2, <2>4
  <2>7. k # MaxSqlLength + 1 => Fine(whole[k])  BY <1>12, <2>6
  <2> QED BY <2>5, <2>6, <2>7
<1> QED BY <1>9, <1>13, <1>14, <1>15

-----------------------------------------------------------------------------
(***************************************************************************)
(* No literal survives.                                                    *)
(***************************************************************************)

\* The scanner takes a number that stands alone, from its first character and
\* at least to its end.
LEMMA NumbersAreTaken ==
  ASSUME NEW Char, NEW s \in Seq(Char), NEW doubleQuoted \in BOOLEAN, NEW p \in StandingNumbers(s)
  PROVE  /\ p[1] \in 1..Len(s) /\ p[2] \in (p[1] + 1)..(Len(s) + 1)
         /\ LiteralEnd(s, p[1], doubleQuoted) = NumberEnd(s, p[1])
         /\ NumberEnd(s, p[1]) # 0 /\ p[2] <= NumberEnd(s, p[1])
         /\ \A k \in p[1]..(p[2] - 1) : s[k] \in NumberChar
<1> DEFINE i == p[1]
           e == p[2]
<1>1. /\ i \in 1..Len(s) /\ e \in (i + 1)..(Len(s) + 1) /\ IsNumber(s, i, e)
      /\ At(s, i - 1) \notin SqlWord \cup {"$", "."} /\ At(s, e) \notin SqlWord
  BY DEF StandingNumbers
<1> HIDE DEF i, e
<1>2. s[i] \in NumberFirst /\ \A k \in i..(e - 1) : s[k] \in NumberChar  BY <1>1, NumberIsMadeOf
<1>3. s[i] \notin QuoteMarks /\ s[i] # "$" /\ s[i] \notin SqlLetter  BY <1>2, Characters
<1>4. StringQuote(s, i) = 0  BY <1>1, <1>3, StringQuoteIs DEF QuoteMarks
<1>5. OpeningQuote(s, i, doubleQuoted) = 0  BY <1>3, <1>4 DEF OpeningQuote, QuoteMarks
<1>6. LiteralEnd(s, i, doubleQuoted) = NumberEnd(s, i)
  BY <1>1, <1>2, <1>3, <1>5, Zenon DEF LiteralEnd, OpeningQuote, NumberFirst, QuotationMark
<1>7. NumberEnd(s, i) # 0 /\ e <= NumberEnd(s, i)  BY <1>1, FoundIsLongest
<1> QED BY <1>1, <1>2, <1>6, <1>7 DEF i, e

\* The numbers met from left to right do not begin inside one another, and one
\* that the scanner finds outside all of them is one of them.
LEMMA NumbersMet ==
  ASSUME NEW Char, NEW s \in Seq(Char)
  PROVE  LET T == LeftToRight(Longest(StandingNumbers(s)))
         IN /\ T \subseteq StandingNumbers(s)
            /\ \A p \in T : ~Covered(T, p[1])
            /\ \A i \in 1..Len(s) :
                 /\ s[i] \in NumberFirst /\ NumberEnd(s, i) # 0 /\ ~Covered(T, i)
                 /\ At(s, i - 1) \notin SqlWord \cup {"$", "."}
                 => <<i, NumberEnd(s, i)>> \in T
<1> DEFINE N == StandingNumbers(s)
           P == Longest(N)
           T == LeftToRight(P)
<1>1. \A p \in N : p[1] \in 1..Len(s) /\ Len(s) \in Nat  BY DEF StandingNumbers
<1>2. P \subseteq N  BY DEF Longest
<1>3. Met(P, T)
  <2>1. \A p \in P : p[1] \in 1..Len(s)  BY <1>1, <1>2
  <2> HIDE DEF P
  <2> QED BY <2>1, LeftToRightIs
<1> HIDE DEF T
<1>4. ASSUME NEW i \in 1..Len(s), NumberEnd(s, i) # 0, ~Covered(T, i),
             At(s, i - 1) \notin SqlWord \cup {"$", "."}
      PROVE  <<i, NumberEnd(s, i)>> \in T
  <2> DEFINE e == NumberEnd(s, i)
             r == <<i, e>>
  <2>1. e \in (i + 1)..(Len(s) + 1) /\ IsNumber(s, i, e) /\ At(s, e) \notin SqlWord
    BY <1>4, FoundIsNumber
  <2> HIDE DEF e
  <2>2. r \in N  BY <1>4, <2>1 DEF StandingNumbers
  <2>3. \A q \in N : q[1] = r[1] => q[2] <= r[2]
    <3> SUFFICES ASSUME NEW q \in N, q[1] = i PROVE q[2] <= e  OBVIOUS
    <3>1. q[2] <= NumberEnd(s, q[1])  BY NumbersAreTaken
    <3> QED BY <3>1 DEF e
  <2>4. r \in P  BY <2>2, <2>3 DEF Longest
  <2> QED BY <1>3, <1>4, <2>4 DEF Met, e
<1>5. T \subseteq P /\ \A p \in P : p \in T <=> ~Covered(T, p[1])  BY <1>3 DEF Met
<1>6. T \subseteq N /\ \A p \in T : ~Covered(T, p[1])
  <2> HIDE DEF P, N
  <2> QED BY <1>2, <1>5
<1> QED BY <1>4, <1>6 DEF T

\* No character of a literal and no number that stands alone is copied into
\* the masked statement, whatever the statement and however long
\* (sql_statement.c:24-58,82-177).
THEOREM SqlLiterals ==
  ASSUME NEW Char, NEW s \in Seq(Char)
  PROVE  LiteralsNeverSurvive(s)
<1> SUFFICES ASSUME NEW doubleQuoted \in BOOLEAN, NEW x \in ToSet(Mask(s, doubleQuoted))
             PROVE  x \notin LiteralContent(s, doubleQuoted) /\ x \notin LoneNumbers(s)
  BY DEF LiteralsNeverSurvive
<1> DEFINE T == LeftToRight(Longest(StandingNumbers(s)))
           Past(i) == \A p \in T : p[1] < i => p[2] <= i
           Q == {i \in 1..(Len(s) + 1) : (i <= Len(s) => Outside(s, doubleQuoted, i)) /\ Past(i)}
<1>1. /\ T \subseteq StandingNumbers(s)
      /\ \A p \in T : ~Covered(T, p[1])
      /\ \A i \in 1..Len(s) :
           /\ s[i] \in NumberFirst /\ NumberEnd(s, i) # 0 /\ ~Covered(T, i)
           /\ At(s, i - 1) \notin SqlWord \cup {"$", "."}
           => <<i, NumberEnd(s, i)>> \in T
  BY NumbersMet
<1>2. LoneNumbers(s) = UNION {p[1]..(p[2] - 1) : p \in T}  BY DEF LoneNumbers
<1> HIDE DEF T
<1>3. \A p \in T : /\ p[1] \in 1..Len(s) /\ p[2] \in (p[1] + 1)..(Len(s) + 1)
                   /\ LiteralEnd(s, p[1], doubleQuoted) = NumberEnd(s, p[1])
                   /\ NumberEnd(s, p[1]) # 0 /\ p[2] <= NumberEnd(s, p[1])
                   /\ \A k \in p[1]..(p[2] - 1) : s[k] \in NumberChar
  BY <1>1, NumbersAreTaken
<1>4. 1 \in Q
  <2>1. ModeAt(s, doubleQuoted, 1 - 1) = "code"  BY LexIs DEF ModeAt, LexStart
  <2>2. Outside(s, doubleQuoted, 1)  BY <2>1 DEF Outside, TakenAsCode
  <2>3. Past(1)  BY <1>3
  <2> QED BY <2>2, <2>3
<1>5. ASSUME NEW i \in Q \cap 1..Len(s), LiteralEnd(s, i, doubleQuoted) = 0
      PROVE  i + 1 \in Q
  <2>1. Outside(s, doubleQuoted, i) /\ Past(i)  BY <1>5
  <2>2. i + 1 <= Len(s) => Outside(s, doubleQuoted, i + 1)  BY <1>5, <2>1, CopiesOutside
  <2>3. Past(i + 1)
    <3> SUFFICES ASSUME NEW p \in T, p[1] < i + 1 PROVE p[2] <= i + 1  OBVIOUS
    <3>1. p[1] # i  BY <1>3, <1>5
    <3>2. p[1] < i  BY <1>3, <3>1
    <3>3. p[2] <= i  BY <2>1, <3>2
    <3> QED BY <1>3, <3>3
  <2> QED BY <2>2, <2>3
<1>6. ASSUME NEW i \in Q \cap 1..Len(s), LiteralEnd(s, i, doubleQuoted) # 0
      PROVE  LiteralEnd(s, i, doubleQuoted) \in Q
  <2> DEFINE end == LiteralEnd(s, i, doubleQuoted)
  <2>1. Outside(s, doubleQuoted, i) /\ Past(i)  BY <1>6
  <2>2. end \in (i + 1)..(Len(s) + 1) /\ EndsOutside(s, doubleQuoted, i, end)
    BY <1>6, <2>1, LiteralEnds
  <2>3. \A p \in T : p[1] = i => p[2] <= end  BY <1>3
  <2> HIDE DEF end
  <2>4. Past(end)
    <3> SUFFICES ASSUME NEW p \in T, p[1] < end, p[2] > end PROVE FALSE  BY <1>3, <2>2
    <3>1. p[1] > i
      <4>1. p[1] # i  BY <1>3, <2>2, <2>3
      <4>2. ~(p[1] < i)
        <5> SUFFICES ASSUME p[1] < i PROVE FALSE  OBVIOUS
        <5>1. p[2] <= i  BY <2>1
        <5> QED BY <1>3, <2>2, <5>1
      <4> QED BY <1>3, <4>1, <4>2
    <3>2. CASE end = Len(s) + 1  BY <1>3, <3>2
    <3>3. CASE s[end - 1] \in QuoteMarks \cup {"$"}
      <4>1. end - 1 \in p[1]..(p[2] - 1)  BY <1>3, <2>2
      <4>2. s[end - 1] \in NumberChar  BY <1>3, <4>1
      <4> QED BY <3>3, <4>2, Characters
    <3>4. CASE end = NumberEnd(s, i) /\ s[i] \in NumberFirst /\ At(s, i - 1) \notin SqlWord \cup {"$", "."}
      <4>1. ~Covered(T, i)  BY <1>3, <2>1 DEF Covered
      <4>2. <<i, end>> \in T  BY <1>1, <2>2, <3>4, <4>1
      <4>3. Covered(T, p[1])
        <5>1. <<i, end>>[1] = i /\ <<i, end>>[2] = end  OBVIOUS
        <5> QED BY <3>1, <4>2, <5>1 DEF Covered
      <4> QED BY <1>1, <4>3
    <3> QED BY <2>2, <3>2, <3>3, <3>4 DEF EndsOutside
  <2>5. end <= Len(s) => Outside(s, doubleQuoted, end)  BY <2>2 DEF EndsOutside
  <2>6. end \in Q  BY <2>2, <2>4, <2>5
  <2> QED BY <2>6 DEF end
<1>7. Stops(s, doubleQuoted, Q)
  <2> HIDE DEF Q
  <2> QED BY <1>4, <1>5, <1>6 DEF Stops
<1>8. x = 0 \/ x = Ellipsis \/ Copied(s, doubleQuoted, Q, x)
  <2> HIDE DEF Q
  <2> QED BY <1>7, MaskIs
<1>9. CASE x = 0 \/ x = Ellipsis
  <2>1. ~(x \in Nat /\ x >= 1)  BY <1>9 DEF Ellipsis
  <2>2. x \notin LiteralContent(s, doubleQuoted)  BY <2>1 DEF LiteralContent
  <2>3. x \notin LoneNumbers(s)  BY <1>2, <1>3, <2>1
  <2> QED BY <2>2, <2>3
<1>10. CASE Copied(s, doubleQuoted, Q, x)
  <2>1. x \in 1..Len(s) /\ Outside(s, doubleQuoted, x) /\ Past(x) /\ LiteralEnd(s, x, doubleQuoted) = 0
    BY <1>10 DEF Copied
  <2>2. x \notin LiteralContent(s, doubleQuoted)
    BY <2>1 DEF LiteralContent, Outside, TakenAsCode, FailedTag, ModeAt, QuoteAt
  <2>3. \A p \in T : x \notin p[1]..(p[2] - 1)
    <3> SUFFICES ASSUME NEW p \in T, x \in p[1]..(p[2] - 1) PROVE FALSE  OBVIOUS
    <3>1. p[1] # x  BY <1>3, <2>1
    <3>2. p[1] < x => p[2] <= x  BY <2>1
    <3> QED BY <1>3, <3>1, <3>2
  <2> QED BY <1>2, <2>2, <2>3
<1> QED BY <1>8, <1>9, <1>10

\* What is read of a subject: texts that a piece more leaves texts.
Reads(topic, Texts) == subject = topic => input \in Texts

LEMMA InputsAreTexts ==
  ASSUME NEW topic, topic # "report", NEW Texts, Starts[topic] \subseteq Texts,
         \A text \in Texts, piece \in Pieces[topic] : text \o piece \in Texts
  PROVE  (ScanInit => Reads(topic, Texts)) /\ (Reads(topic, Texts) /\ [ScanNext]_scanVars => Reads(topic, Texts)')
<1>1. ScanInit => Reads(topic, Texts)  BY DEF ScanInit, Reads
<1>2. Reads(topic, Texts) /\ [ScanNext]_scanVars => Reads(topic, Texts)'
  <2> SUFFICES ASSUME Reads(topic, Texts), [ScanNext]_scanVars PROVE Reads(topic, Texts)'  OBVIOUS
  <2>1. CASE Grow
    <3>1. PICK piece \in Pieces[subject] : input' = input \o piece  BY <2>1 DEF Grow
    <3>2. subject' = subject  BY <2>1 DEF Grow
    <3>3. subject = topic => input' \in Texts  BY <3>1 DEF Reads
    <3> QED BY <3>2, <3>3 DEF Reads
  <2>2. CASE ReportStep  BY <2>2 DEF ReportStep, Reads
  <2>3. CASE UNCHANGED scanVars  BY <2>3 DEF scanVars, Reads
  <2> QED BY <2>1, <2>2, <2>3 DEF ScanNext
<1> QED BY <1>1, <1>2

\* The statements of the run are texts of characters.
SqlChars == QuoteChars \cup NumberChars

LEMMA StatementStarts ==
  /\ Starts["sql"] \subseteq Seq(SqlChars) /\ Starts["numbers"] \subseteq Seq(SqlChars)
  /\ Pieces["sql"] \subseteq Seq(SqlChars) /\ Pieces["numbers"] \subseteq Seq(SqlChars)
<1>1. /\ Starts["sql"] = {<< >>} /\ Starts["numbers"] = {<< >>, <<"1", "e", "-">>}  BY DEF Starts
<1>2. Pieces["sql"] = One(QuoteChars) /\ Pieces["numbers"] = One(NumberChars)  BY DEF Pieces
<1>3. One(QuoteChars) \subseteq Seq(SqlChars) /\ One(NumberChars) \subseteq Seq(SqlChars)
  <2>1. \A c \in SqlChars : <<c>> \in Seq(SqlChars)  OBVIOUS
  <2>2. QuoteChars \subseteq SqlChars /\ NumberChars \subseteq SqlChars  BY DEF SqlChars
  <2> QED BY <2>1, <2>2 DEF One
<1>4. "1" \in SqlChars /\ "e" \in SqlChars /\ "-" \in SqlChars  BY DEF SqlChars, NumberChars
<1> QED BY <1>1, <1>2, <1>3, <1>4

\* No literal of a statement is in what is sent: the run's invariant, for
\* statements that grow without a bound (sql_statement.c:24-58,82-177).
THEOREM ScannedLiteralsNeverSurvive == ScanSpec => []SqlLiteralsNeverSurvive
<1> DEFINE Sql == Reads("sql", Seq(SqlChars))
           Num == Reads("numbers", Seq(SqlChars))
<1>1. \A text, piece \in Seq(SqlChars) : text \o piece \in Seq(SqlChars)  OBVIOUS
<1>2. (ScanInit => Sql) /\ (Sql /\ [ScanNext]_scanVars => Sql')  BY <1>1, StatementStarts, InputsAreTexts DEF Reads
<1>3. (ScanInit => Num) /\ (Num /\ [ScanNext]_scanVars => Num')  BY <1>1, StatementStarts, InputsAreTexts DEF Reads
<1>4. Sql /\ Num => SqlLiteralsNeverSurvive  BY SqlLiterals DEF Reads, SqlLiteralsNeverSurvive
<1> QED BY <1>2, <1>3, <1>4, PTL DEF ScanSpec

-----------------------------------------------------------------------------
(***************************************************************************)
(* Breadcrumbs: the loop of forgeops_breadcrumb_add keeps every entry.     *)
(***************************************************************************)

\* A cut keeps no more bytes than it may, and each takes six at most.
LEMMA EscapedIs ==
  ASSUME NEW text \in EntryText, NEW max \in Nat
  PROVE  EscapedLength(text, max) \in Nat /\ EscapedLength(text, max) <= 2 + 6 * max
<1>1. /\ text.length \in Nat /\ text.growth \in 1..6 /\ text.overhang \in 0..3
  BY DEF EntryText, MaxEscape
<1> DEFINE cut == Cut(text, max)
<1>2. cut \in Nat /\ cut <= max  BY <1>1 DEF Cut
<1> HIDE DEF cut
<1>3. text.growth = 1 \/ text.growth = 2 \/ text.growth = 3 \/ text.growth = 4 \/ text.growth = 5 \/ text.growth = 6
  BY <1>1
<1>4. text.growth * cut \in Nat /\ text.growth * cut <= 6 * max  BY <1>2, <1>3
<1> QED BY <1>4 DEF EscapedLength, cut

\* The length of the pairs is a number, and nothing without pairs.
LEMMA PairsLengthIs ==
  ASSUME NEW pairs \in Seq([key : EntryText, value : EntryText])
  PROVE  PairsLength(pairs) \in Nat /\ (pairs = << >> => PairsLength(pairs) = 0)
<1> USE EncodingAssumption
<1> DEFINE S == 0..Len(pairs)
           own(n) == EscapedLength(pairs[n].key, MaxTagBytes) + 1
                       + EscapedLength(pairs[n].value, MaxMessageBytes) + (IF n > 1 THEN 1 ELSE 0)
           Is(f) == f = [n \in S |-> IF n = 0 THEN 0
                                     ELSE f[n - 1] + EscapedLength(pairs[n].key, MaxTagBytes) + 1
                                            + EscapedLength(pairs[n].value, MaxMessageBytes) + (IF n > 1 THEN 1 ELSE 0)]
           rank == [n \in S |-> n]
           step == [n \in S |-> n - 1]
           def == [n \in S |-> [v \in Nat |-> IF n = 0 THEN 0 ELSE v + own(n)]]
           Sum == CHOOSE f : Is(f)
<1>1. \A n \in 1..Len(pairs) :
        EscapedLength(pairs[n].key, MaxTagBytes) \in Nat /\ EscapedLength(pairs[n].value, MaxMessageBytes) \in Nat
  <2> TAKE n \in 1..Len(pairs)
  <2>1. pairs[n] \in [key : EntryText, value : EntryText]
    <3> DEFINE R == [key : EntryText, value : EntryText]
    <3>1. pairs \in Seq(R) /\ n \in 1..Len(pairs)  OBVIOUS
    <3> HIDE DEF R, S, own, rank, step, def, Sum, Is
    <3>2. pairs[n] \in R  BY <3>1
    <3> QED BY <3>2 DEF R
  <2>2. pairs[n].key \in EntryText /\ pairs[n].value \in EntryText  BY <2>1
  <2>3. MaxTagBytes \in Nat /\ MaxMessageBytes \in Nat  OBVIOUS
  <2> HIDE DEF S, own, rank, step, def, Sum, Is
  <2> QED BY <2>2, <2>3, EscapedIs
<1>2. \A n \in 1..Len(pairs) : own(n) \in Nat
  <2> TAKE n \in 1..Len(pairs)
  <2> DEFINE a == EscapedLength(pairs[n].key, MaxTagBytes)
             b == EscapedLength(pairs[n].value, MaxMessageBytes)
             comma == IF n > 1 THEN 1 ELSE 0
  <2>1. a \in Nat /\ b \in Nat /\ comma \in Nat  BY <1>1
  <2> HIDE DEF a, b, comma
  <2>2. a + 1 + b + comma \in Nat  BY <2>1
  <2> QED BY <2>2 DEF own, a, b, comma
<1>3. \A n \in 1..Len(pairs), v \in Nat :
        v + own(n) = v + EscapedLength(pairs[n].key, MaxTagBytes) + 1
                       + EscapedLength(pairs[n].value, MaxMessageBytes) + (IF n > 1 THEN 1 ELSE 0)
  <2> TAKE n \in 1..Len(pairs), v \in Nat
  <2> DEFINE a == EscapedLength(pairs[n].key, MaxTagBytes)
             b == EscapedLength(pairs[n].value, MaxMessageBytes)
             comma == IF n > 1 THEN 1 ELSE 0
  <2>1. a \in Nat /\ b \in Nat /\ comma \in Nat  BY <1>1
  <2> HIDE DEF a, b, comma
  <2>2. v + (a + 1 + b + comma) = v + a + 1 + b + comma  BY <2>1
  <2> QED BY <2>2 DEF own, a, b, comma
<1> HIDE DEF own
<1>4. def \in [S -> [Nat -> Nat]] /\ Descends(step, rank, S) /\ 0 \in Nat  BY <1>2 DEF Descends
<1>5. PICK f : Recursive(f, S, Nat, 0, step, def)
  <2> HIDE DEF S, rank, step, def
  <2> QED BY <1>4, RecursiveFunction
<1>6. f \in [S -> Nat]  BY <1>5 DEF Recursive
<1>7. \A n \in S : f[n] = IF n = 0 THEN 0 ELSE f[n - 1] + own(n)
  <2> TAKE n \in S
  <2>1. f[n] = def[n][IF step[n] \in S THEN f[step[n]] ELSE 0]  BY <1>5 DEF Recursive
  <2>2. n # 0 => step[n] = n - 1 /\ n - 1 \in S /\ f[n - 1] \in Nat  BY <1>6
  <2>3. \A v \in Nat : def[n][v] = IF n = 0 THEN 0 ELSE v + own(n)  OBVIOUS
  <2>4. (IF step[n] \in S THEN f[step[n]] ELSE 0) \in Nat  BY <1>6
  <2> HIDE DEF def, step
  <2> QED BY <2>1, <2>2, <2>3, <2>4
<1>8. Is(f)
  <2>1. \A n \in S : f[n] = IF n = 0 THEN 0
                            ELSE f[n - 1] + EscapedLength(pairs[n].key, MaxTagBytes) + 1
                                   + EscapedLength(pairs[n].value, MaxMessageBytes) + (IF n > 1 THEN 1 ELSE 0)
    BY <1>3, <1>6, <1>7
  <2> HIDE DEF S
  <2> QED BY <1>6, <2>1
<1>9. Is(Sum)  BY <1>8
<1>10. PairsLength(pairs) = Sum[Len(pairs)]  BY DEF PairsLength
<1> HIDE DEF Sum
<1>11. \A n \in S : Sum[n] = IF n = 0 THEN 0
                             ELSE Sum[n - 1] + EscapedLength(pairs[n].key, MaxTagBytes) + 1
                                    + EscapedLength(pairs[n].value, MaxMessageBytes) + (IF n > 1 THEN 1 ELSE 0)
  BY <1>9
<1>12. \A n \in S : Sum[n] \in Nat
  <2> DEFINE Bad == {n \in S : Sum[n] \notin Nat}
  <2> SUFFICES ASSUME Bad # {} PROVE FALSE  OBVIOUS
  <2>1. PICK n \in Bad : \A m \in Bad : n <= m
    <3>1. Bad \subseteq Nat  OBVIOUS
    <3> HIDE DEF Bad
    <3> QED BY <3>1, LeastNatural
  <2>2. n \in S /\ n # 0 /\ Sum[n] \notin Nat  BY <1>11, <2>1
  <2>3. n - 1 \in S /\ Sum[n - 1] \in Nat  BY <2>1, <2>2
  <2>4. Sum[n] = Sum[n - 1] + own(n)  BY <1>3, <1>11, <2>2, <2>3
  <2> QED BY <1>2, <2>2, <2>3, <2>4
<1>13. Len(pairs) \in S /\ (pairs = << >> => Len(pairs) = 0)  OBVIOUS
<1> QED BY <1>10, <1>11, <1>12, <1>13

\* The length of what is encoded, and its bound once no pair is left.
LEMMA EncodedIs ==
  ASSUME NEW entry \in Entry, NEW p \in 0..Len(entry.pairs), NEW m \in Nat
  PROVE  /\ EncodedLength(entry, p, m) \in Nat
         /\ p = 0 /\ m <= 16 => Fits(entry, p, m)
<1> USE EncodingAssumption
<1>1. /\ entry.category \in EntryText /\ entry.message \in EntryText /\ entry.level \in EntryText
      /\ entry.pairs \in Seq([key : EntryText, value : EntryText])
  BY DEF Entry
<1> DEFINE pairs == SubSeq(entry.pairs, 1, p)
           c == EscapedLength(entry.category, MaxTagBytes)
           l == EscapedLength(entry.level, MaxTagBytes)
           t == EscapedLength(entry.message, m)
           k == PairsLength(pairs)
<1>2. pairs \in Seq([key : EntryText, value : EntryText]) /\ (p = 0 => pairs = << >>)
  <2> DEFINE R == [key : EntryText, value : EntryText]
  <2>1. entry.pairs \in Seq(R)  BY <1>1
  <2> HIDE DEF R
  <2>2. \A n \in 1..p : n \in 1..Len(entry.pairs)  BY <2>1
  <2>3. SubSeq(entry.pairs, 1, p) \in Seq(R)  BY <2>1, <2>2, SubSeqProperties
  <2>4. p = 0 => SubSeq(entry.pairs, 1, p) = << >>  BY <2>1, SubSeqProperties
  <2> QED BY <2>3, <2>4 DEF R
<1>3. k \in Nat /\ (p = 0 => k = 0)
  <2> HIDE DEF pairs
  <2>1. PairsLength(pairs) \in Nat /\ (pairs = << >> => PairsLength(pairs) = 0)
    BY <1>2, PairsLengthIs
  <2> QED BY <1>2, <2>1
<1>4. /\ c \in Nat /\ c <= 2 + 6 * MaxTagBytes /\ l \in Nat /\ l <= 2 + 6 * MaxTagBytes
      /\ t \in Nat /\ t <= 2 + 6 * m
  BY <1>1, EscapedIs
<1> HIDE DEF c, l, t, k
<1>5. EncodedLength(entry, p, m) = FixedLength + c + t + l + k  BY DEF EncodedLength, c, l, t, k
<1>6. FixedLength = 78  BY DEF FixedLength
<1>7. 78 + 2 * (2 + 6 * MaxTagBytes) + 2 + 6 * 16 < SlotSize  BY <1>6, SlotAssumption DEF MaxEscape
<1> QED BY <1>3, <1>4, <1>5, <1>6, <1>7 DEF Fits

\* What the loop leaves, from any number of pairs and bytes on.
KeptWell(entry, p, m, kept) ==
  /\ kept \in [pairs : 0..p, bytes : 1..m]
  /\ Fits(entry, kept.pairs, kept.bytes)
  /\ kept.pairs < p => ~Fits(entry, kept.pairs + 1, m)
  /\ kept.bytes < m => kept.pairs = 0 /\ ~Fits(entry, 0, m)

LEMMA KeptIs ==
  ASSUME NEW entry \in Entry
  PROVE  KeptWell(entry, Len(entry.pairs), MaxMessageBytes, KeptOf(entry))
<1> USE EncodingAssumption
<1> DEFINE N == Len(entry.pairs)
           S == (0..N) \X (1..MaxMessageBytes)
           V == [pairs : Nat, bytes : Nat]
           fit(x) == Fits(entry, x[1], x[2])
           on(x) == IF x[1] > 0 THEN <<x[1] - 1, x[2]>> ELSE <<0, x[2] \div 2>>
           rank == [x \in S |-> x[1] + x[2]]
           step == [x \in S |-> IF ~fit(x) /\ (x[1] > 0 \/ CanShorten(x[2])) THEN on(x) ELSE <<0, 0>>]
           def == [x \in S |-> [v \in V |-> IF fit(x) THEN [pairs |-> x[1], bytes |-> x[2]]
                                            ELSE IF x[1] > 0 \/ CanShorten(x[2]) THEN v ELSE Dropped]]
           Is(f) == f = [x \in S |-> IF Fits(entry, x[1], x[2]) THEN [pairs |-> x[1], bytes |-> x[2]]
                                     ELSE IF x[1] > 0 THEN f[<<x[1] - 1, x[2]>>]
                                     ELSE IF CanShorten(x[2]) THEN f[<<0, x[2] \div 2>>]
                                     ELSE Dropped]
           Kept == CHOOSE f : Is(f)
<1>1. N \in Nat  BY DEF Entry
<1>2. \A x \in S : /\ x[1] \in 0..N /\ x[2] \in 1..MaxMessageBytes /\ rank[x] = x[1] + x[2] /\ rank[x] \in Nat
  BY <1>1
<1>3. \A x \in S : x[1] > 0 \/ CanShorten(x[2]) =>
        on(x) \in S /\ on(x)[1] + on(x)[2] < x[1] + x[2]
  <2> SUFFICES ASSUME NEW x \in S, x[1] > 0 \/ CanShorten(x[2])
               PROVE  on(x) \in S /\ on(x)[1] + on(x)[2] < x[1] + x[2]
    OBVIOUS
  <2>1. x[1] \in 0..N /\ x[2] \in 1..MaxMessageBytes  BY <1>2
  <2>2. CASE x[1] > 0  BY <1>1, <2>1, <2>2
  <2>3. CASE ~(x[1] > 0)
    <3>1. x[1] = 0 /\ x[2] > 16  BY <1>1, <2>1, <2>3 DEF CanShorten
    <3>2. x[2] \div 2 \in 1..MaxMessageBytes /\ x[2] \div 2 < x[2]  BY <2>1, <3>1
    <3> QED BY <1>1, <2>3, <3>1, <3>2
  <2> QED BY <2>2, <2>3
<1>4. Descends(step, rank, S)
  <2>1. rank \in [S -> Nat]  BY <1>2
  <2>2. \A x \in S : step[x] \in S => step[x] = on(x) /\ (x[1] > 0 \/ CanShorten(x[2]))  BY <1>1
  <2>3. \A x \in S : step[x] \in S => rank[step[x]] < rank[x]
    <3> TAKE x \in S
    <3> HAVE step[x] \in S
    <3>1. step[x] = on(x) /\ (x[1] > 0 \/ CanShorten(x[2]))  BY <2>2
    <3>2. on(x) \in S /\ on(x)[1] + on(x)[2] < x[1] + x[2]  BY <1>3, <3>1
    <3> HIDE DEF on, step, rank
    <3> QED BY <1>2, <3>1, <3>2
  <2> HIDE DEF step, rank
  <2> QED BY <2>1, <2>3 DEF Descends
<1>5. Dropped \in V  BY DEF Dropped
<1>6. def \in [S -> [V -> V]]
  <2>1. \A x \in S : x[1] \in Nat /\ x[2] \in Nat  BY <1>1
  <2> HIDE DEF S, fit
  <2> QED BY <1>5, <2>1
<1>7. PICK f : Recursive(f, S, V, Dropped, step, def)
  <2> HIDE DEF S, V, rank, step, def
  <2> QED BY <1>4, <1>5, <1>6, RecursiveFunction
<1>8. f \in [S -> V]  BY <1>7 DEF Recursive
<1> HIDE DEF fit, on
<1>9. ASSUME NEW x \in S
      PROVE  f[x] = IF fit(x) THEN [pairs |-> x[1], bytes |-> x[2]]
                    ELSE IF x[1] > 0 \/ CanShorten(x[2]) THEN f[on(x)] ELSE Dropped
  <2> DEFINE next == IF step[x] \in S THEN f[step[x]] ELSE Dropped
  <2>1. f[x] = def[x][next]  BY <1>7 DEF Recursive
  <2>2. next \in V  BY <1>5, <1>8
  <2>3. ~fit(x) /\ (x[1] > 0 \/ CanShorten(x[2])) => next = f[on(x)]  BY <1>3
  <2>4. \A v \in V : def[x][v] = IF fit(x) THEN [pairs |-> x[1], bytes |-> x[2]]
                                 ELSE IF x[1] > 0 \/ CanShorten(x[2]) THEN v ELSE Dropped
    <3> HIDE DEF S, V
    <3> QED OBVIOUS
  <2> HIDE DEF next, def, V, S
  <2> QED BY <2>1, <2>2, <2>3, <2>4
<1>10. Is(f)
  <2>1. \A x \in S : f[x] = IF Fits(entry, x[1], x[2]) THEN [pairs |-> x[1], bytes |-> x[2]]
                            ELSE IF x[1] > 0 THEN f[<<x[1] - 1, x[2]>>]
                            ELSE IF CanShorten(x[2]) THEN f[<<0, x[2] \div 2>>]
                            ELSE Dropped
    BY <1>9 DEF fit, on
  <2> HIDE DEF S
  <2> QED BY <1>8, <2>1
<1>11. Is(Kept)  BY <1>10
<1>12. KeptOf(entry) = Kept[<<N, MaxMessageBytes>>]  BY DEF KeptOf
<1> HIDE DEF Kept
<1>13. ASSUME NEW x \in S
       PROVE  Kept[x] = IF Fits(entry, x[1], x[2]) THEN [pairs |-> x[1], bytes |-> x[2]]
                        ELSE IF x[1] > 0 THEN Kept[<<x[1] - 1, x[2]>>]
                        ELSE IF CanShorten(x[2]) THEN Kept[<<0, x[2] \div 2>>]
                        ELSE Dropped
  <2> HIDE DEF S
  <2> QED BY <1>11
<1>14. \A x \in S : KeptWell(entry, x[1], x[2], Kept[x])
  <2> DEFINE Bad == {x \in S : ~KeptWell(entry, x[1], x[2], Kept[x])}
  <2> SUFFICES ASSUME Bad # {} PROVE FALSE  OBVIOUS
  <2>1. PICK x \in Bad : \A y \in S : rank[y] < rank[x] => y \notin Bad
    <3>1. Bad \subseteq S /\ rank \in [S -> Nat]  BY <1>2
    <3> HIDE DEF Bad, S, rank
    <3> QED BY <3>1, LeastRank
  <2>2. x \in S /\ ~KeptWell(entry, x[1], x[2], Kept[x])  BY <2>1
  <2>3. x[1] \in 0..N /\ x[2] \in 1..MaxMessageBytes  BY <1>2, <2>2
  <2>4. \A y \in S : y[1] + y[2] < x[1] + x[2] => KeptWell(entry, y[1], y[2], Kept[y])
    <3> HIDE DEF rank, S
    <3> QED BY <1>2, <2>1, <2>2
  <2> HIDE DEF Bad, rank
  <2>5. CASE Fits(entry, x[1], x[2])
    <3>1. Kept[x] = [pairs |-> x[1], bytes |-> x[2]]  BY <1>13, <2>2, <2>5
    <3>2. KeptWell(entry, x[1], x[2], [pairs |-> x[1], bytes |-> x[2]])
      BY <1>1, <2>3, <2>5 DEF KeptWell
    <3> QED BY <2>2, <3>1, <3>2
  <2>6. CASE ~Fits(entry, x[1], x[2]) /\ x[1] > 0
    <3> DEFINE y == <<x[1] - 1, x[2]>>
               kept == Kept[y]
    <3>1. Kept[x] = kept  BY <1>13, <2>2, <2>6
    <3>2. y \in S /\ y[1] = x[1] - 1 /\ y[2] = x[2] /\ y[1] + y[2] < x[1] + x[2]
      BY <1>1, <2>3, <2>6
    <3> HIDE DEF y, S
    <3>3. KeptWell(entry, x[1] - 1, x[2], kept)  BY <2>4, <3>2
    <3> HIDE DEF kept
    <3>4. KeptWell(entry, x[1], x[2], kept)  BY <1>1, <2>3, <2>6, <3>3 DEF KeptWell
    <3> QED BY <2>2, <3>1, <3>4
  <2>7. CASE ~Fits(entry, x[1], x[2]) /\ ~(x[1] > 0)
    <3> DEFINE m == x[2] \div 2
               y == <<0, m>>
               kept == Kept[y]
    <3>1. x[1] = 0 /\ x[2] > 16
      <4>1. x[1] = 0  BY <1>1, <2>3, <2>7
      <4> QED
        <5>1. 0 \in 0..Len(entry.pairs) /\ x[2] \in Nat  BY <1>1, <2>3
        <5>2. x[2] <= 16 => Fits(entry, 0, x[2])  BY <5>1, EncodedIs
        <5> QED BY <2>3, <2>7, <4>1, <5>2
    <3>2. CanShorten(x[2]) /\ m \in 1..MaxMessageBytes /\ m < x[2]  BY <2>3, <3>1 DEF CanShorten
    <3>3. Kept[x] = kept  BY <1>13, <2>2, <2>7, <3>2
    <3> HIDE DEF m
    <3>4. y \in S /\ y[1] = 0 /\ y[2] = m /\ y[1] + y[2] < x[1] + x[2]  BY <1>1, <2>3, <3>1, <3>2
    <3> HIDE DEF y, S
    <3>5. KeptWell(entry, 0, m, kept)  BY <2>4, <3>4
    <3> HIDE DEF kept
    <3>6. KeptWell(entry, x[1], x[2], kept)  BY <1>1, <2>3, <2>7, <3>1, <3>2, <3>5 DEF KeptWell
    <3> QED BY <2>2, <3>3, <3>6
  <2> QED BY <2>5, <2>6, <2>7
<1>15. <<N, MaxMessageBytes>> \in S  BY <1>1
<1>16. KeptWell(entry, N, MaxMessageBytes, Kept[<<N, MaxMessageBytes>>])
  <2> DEFINE x == <<N, MaxMessageBytes>>
  <2>1. x[1] = N /\ x[2] = MaxMessageBytes  OBVIOUS
  <2> HIDE DEF x, S, N
  <2> QED BY <1>14, <1>15, <2>1 DEF x
<1> QED BY <1>12, <1>16

\* Every entry is kept, with all the pairs that fit and with its message
\* whole unless the pairs are gone, and is read back as one line
\* (breadcrumbs.c:158-181, signal_handler.c:162-164).
THEOREM EveryEntryIsKept ==
  ASSUME NEW entry \in Entry
  PROVE  EntryIsKeptAndReadBack(entry)
<1> USE EncodingAssumption
<1> DEFINE kept == KeptOf(entry)
           encoded == EncodedLength(entry, kept.pairs, kept.bytes)
<1>1. KeptWell(entry, Len(entry.pairs), MaxMessageBytes, kept) /\ Len(entry.pairs) \in Nat
  <2>1. KeptWell(entry, Len(entry.pairs), MaxMessageBytes, kept)  BY KeptIs
  <2>2. Len(entry.pairs) \in Nat  BY DEF Entry
  <2> QED BY <2>1, <2>2
<1>0. EntryIsKeptAndReadBack(entry) <=>
        /\ kept # Dropped
        /\ kept.pairs < Len(entry.pairs) => ~Fits(entry, kept.pairs + 1, MaxMessageBytes)
        /\ kept.bytes < MaxMessageBytes => kept.pairs = 0 /\ ~Fits(entry, 0, MaxMessageBytes)
        /\ LineLength(encoded) < SlotSize + 64
  BY DEF EntryIsKeptAndReadBack
<1> HIDE DEF kept
<1>2. kept.pairs \in 0..Len(entry.pairs) /\ kept.bytes \in 1..MaxMessageBytes  BY <1>1 DEF KeptWell
<1>3. kept # Dropped  BY <1>2 DEF Dropped
<1>4. encoded \in Nat
  <2>1. kept.bytes \in Nat  BY <1>2
  <2> QED BY <1>2, <2>1, EncodedIs
<1>5. LineLength(encoded) < SlotSize + 64
  <2>1. encoded < SlotSize  BY <1>1 DEF KeptWell, Fits
  <2> HIDE DEF encoded
  <2> QED BY <1>4, <2>1 DEF LineLength
<1> QED
  <2>1. /\ kept.pairs < Len(entry.pairs) => ~Fits(entry, kept.pairs + 1, MaxMessageBytes)
        /\ kept.bytes < MaxMessageBytes => kept.pairs = 0 /\ ~Fits(entry, 0, MaxMessageBytes)
    BY <1>1 DEF KeptWell
  <2> HIDE DEF encoded
  <2> QED BY <1>0, <1>3, <1>5, <2>1


\* The entries of the run are entries.
LEMMA StartsAreEntries == Starts["entries"] \subseteq Entry
<1>1. Starts["entries"] = Entries  BY DEF Starts
<1>2. \A lengths \in SUBSET Nat : EntryTexts(lengths) \subseteq EntryText
  <2> TAKE lengths \in SUBSET Nat
  <2>1. EntryText = [length : Nat, growth : 1..6, overhang : 0..3]  BY DEF EntryText, MaxEscape
  <2>2. {1, 2, 6} \subseteq 1..6 /\ {1} \subseteq 1..6 /\ {0} \subseteq 0..3 /\ {3} \subseteq 0..3
    OBVIOUS
  <2>3. [length : lengths, growth : {1, 2, 6}, overhang : {0}] \subseteq EntryText  BY <2>1, <2>2
  <2>4. [length : lengths, growth : {1}, overhang : {3}] \subseteq EntryText  BY <2>1, <2>2
  <2> QED BY <2>3, <2>4 DEF EntryTexts
<1>3. /\ EntryTexts({0, 16, 37, 300, 301, 5000}) \subseteq EntryText
      /\ EntryTexts({6, 200}) \subseteq EntryText
      /\ EntryTexts({6, 64}) \subseteq EntryText
  BY <1>2
<1> DEFINE R == [key : EntryText, value : EntryText]
<1>4. \A key, value \in Nat : Pair(key, value) \in R  BY DEF Pair, EntryText, MaxEscape
<1> HIDE DEF R
<1>5. Pair(2, 2) \in R /\ Pair(9, 300) \in R /\ Pair(64, 400) \in R /\ Pair(1, 0) \in R  BY <1>4
<1>6. {<< >>, <<Pair(2, 2)>>, <<Pair(9, 300), Pair(64, 400), Pair(1, 0)>>} \subseteq Seq(R)  BY <1>5
<1>7. Entries \subseteq Entry
  <2> DEFINE M == EntryTexts({0, 16, 37, 300, 301, 5000})
             C == EntryTexts({6, 200})
             L == EntryTexts({6, 64})
             P == {<< >>, <<Pair(2, 2)>>, <<Pair(9, 300), Pair(64, 400), Pair(1, 0)>>}
  <2>1. Entries = [message : M, category : C, level : L, pairs : P]  BY DEF Entries
  <2>2. Entry = [message : EntryText, category : EntryText, level : EntryText, pairs : Seq(R)]
    BY DEF Entry, R
  <2>3. M \subseteq EntryText /\ C \subseteq EntryText /\ L \subseteq EntryText /\ P \subseteq Seq(R)
    BY <1>3, <1>6
  <2> HIDE DEF M, C, L, P
  <2> QED BY <2>1, <2>2, <2>3
<1> QED BY <1>1, <1>7

\* Every breadcrumb of every state is kept and read back as one line.
THEOREM ScannedEntriesAreKept == ScanSpec => []EntriesAreKept
<1> DEFINE Inv == Reads("entries", Entry)
<1>1. Pieces["entries"] = {}  BY DEF Pieces
<1>2. (ScanInit => Inv) /\ (Inv /\ [ScanNext]_scanVars => Inv')  BY <1>1, StartsAreEntries, InputsAreTexts DEF Reads
<1>3. Inv => EntriesAreKept  BY EveryEntryIsKept DEF Reads, EntriesAreKept
<1> QED BY <1>2, <1>3, PTL DEF ScanSpec

-----------------------------------------------------------------------------
(***************************************************************************)
(* Crash reports: what complete_json makes of a file of any length.        *)
(***************************************************************************)
Report ==
  [name : Seq(Seq(ReportToken)), line : Seq(ReportToken), frames : Seq(Seq(ReportToken)),
   crumbs : Seq(Seq(ReportToken)), trace : Seq(Seq(ReportToken))]

\* A report of these parts.
Has(name, line, fs, cs, ts) ==
  [name |-> name, line |-> line, frames |-> fs, crumbs |-> cs, trace |-> ts]

LEMMA ReportParts ==
  ASSUME NEW r \in Report
  PROVE  /\ r = Has(r.name, r.line, r.frames, r.crumbs, r.trace)
         /\ r.name \in Seq(Seq(ReportToken)) /\ r.line \in Seq(ReportToken) /\ r.frames \in Seq(Seq(ReportToken))
         /\ r.crumbs \in Seq(Seq(ReportToken)) /\ r.trace \in Seq(Seq(ReportToken))
  BY DEF Report, Has

LEMMA HasIsReport ==
  ASSUME NEW name \in Seq(Seq(ReportToken)), NEW line \in Seq(ReportToken), NEW fs \in Seq(Seq(ReportToken)),
         NEW cs \in Seq(Seq(ReportToken)), NEW ts \in Seq(Seq(ReportToken))
  PROVE  Has(name, line, fs, cs, ts) \in Report
  BY DEF Report, Has

\* What the end of a line makes of a report, by what the line is.
EndsAs(name, line, fs, cs, ts) ==
  /\ name = << >> => EndLine(Has(name, line, fs, cs, ts)) = Has(<<line>>, << >>, fs, cs, ts)
  /\ name # << >> /\ line = << >> => EndLine(Has(name, line, fs, cs, ts)) = Has(name, << >>, fs, cs, ts)
  /\ name # << >> /\ line # << >> /\ IsPrefix(TracePrefix, line) /\ ValidId(After(TracePrefix, line)) =>
       EndLine(Has(name, line, fs, cs, ts)) = Has(name, << >>, fs, cs, <<After(TracePrefix, line)>>)
  /\ name # << >> /\ line # << >> /\ IsPrefix(TracePrefix, line) /\ ~ValidId(After(TracePrefix, line)) =>
       EndLine(Has(name, line, fs, cs, ts)) = Has(name, << >>, fs, cs, ts)
  /\ name # << >> /\ line # << >> /\ ~IsPrefix(TracePrefix, line) /\ IsPrefix(CrumbPrefix, line)
       /\ LooksComplete(After(CrumbPrefix, line)) =>
       EndLine(Has(name, line, fs, cs, ts)) = Has(name, << >>, fs, Append(cs, After(CrumbPrefix, line)), ts)
  /\ name # << >> /\ line # << >> /\ ~IsPrefix(TracePrefix, line) /\ IsPrefix(CrumbPrefix, line)
       /\ ~LooksComplete(After(CrumbPrefix, line)) =>
       EndLine(Has(name, line, fs, cs, ts)) = Has(name, << >>, fs, cs, ts)
  /\ name # << >> /\ line # << >> /\ ~IsPrefix(TracePrefix, line) /\ ~IsPrefix(CrumbPrefix, line) =>
       EndLine(Has(name, line, fs, cs, ts)) = Has(name, << >>, Append(fs, line), cs, ts)

LEMMA EndLineIs ==
  ASSUME NEW name, NEW line, NEW fs, NEW cs, NEW ts
  PROVE  EndsAs(name, line, fs, cs, ts)
<1> DEFINE r == Has(name, line, fs, cs, ts)
           id == After(TracePrefix, line)
           json == After(CrumbPrefix, line)
           next == [r EXCEPT !.line = << >>]
<1>1. r.name = name /\ r.line = line /\ r.frames = fs /\ r.crumbs = cs /\ r.trace = ts  BY DEF Has
<1>2. next = Has(name, << >>, fs, cs, ts)  BY DEF Has
<1> HIDE DEF next, r
<1>3. next.frames = fs /\ next.crumbs = cs  BY <1>2 DEF Has
<1>4. /\ [next EXCEPT !.name = <<line>>] = Has(<<line>>, << >>, fs, cs, ts)
      /\ [next EXCEPT !.frames = Append(fs, line)] = Has(name, << >>, Append(fs, line), cs, ts)
      /\ [next EXCEPT !.crumbs = Append(cs, json)] = Has(name, << >>, fs, Append(cs, json), ts)
      /\ [next EXCEPT !.trace = <<id>>] = Has(name, << >>, fs, cs, <<id>>)
  <2> HIDE DEF id, json
  <2>1. ASSUME NEW x PROVE [next EXCEPT !.name = x] = Has(x, << >>, fs, cs, ts)  BY <1>2 DEF Has
  <2>2. ASSUME NEW x PROVE [next EXCEPT !.frames = x] = Has(name, << >>, x, cs, ts)  BY <1>2 DEF Has
  <2>3. ASSUME NEW x PROVE [next EXCEPT !.crumbs = x] = Has(name, << >>, fs, x, ts)  BY <1>2 DEF Has
  <2>4. ASSUME NEW x PROVE [next EXCEPT !.trace = x] = Has(name, << >>, fs, cs, x)  BY <1>2 DEF Has
  <2> QED BY <2>1, <2>2, <2>3, <2>4
<1>6. EndLine(r) =
        IF r.name = << >> THEN [next EXCEPT !.name = <<line>>]
        ELSE IF r.line = << >> THEN next
        ELSE IF IsPrefix(TracePrefix, r.line)
          THEN IF ValidId(id) THEN [next EXCEPT !.trace = <<id>>] ELSE next
        ELSE IF IsPrefix(CrumbPrefix, r.line)
          THEN IF LooksComplete(json) THEN [next EXCEPT !.crumbs = Append(@, json)] ELSE next
        ELSE [next EXCEPT !.frames = Append(@, line)]
  BY <1>1 DEF EndLine, next
<1> HIDE DEF id, json
<1>7. /\ name = << >> => EndLine(r) = Has(<<line>>, << >>, fs, cs, ts)
      /\ name # << >> /\ line = << >> => EndLine(r) = Has(name, << >>, fs, cs, ts)
      /\ name # << >> /\ line # << >> /\ IsPrefix(TracePrefix, line) /\ ValidId(id) =>
           EndLine(r) = Has(name, << >>, fs, cs, <<id>>)
      /\ name # << >> /\ line # << >> /\ IsPrefix(TracePrefix, line) /\ ~ValidId(id) =>
           EndLine(r) = Has(name, << >>, fs, cs, ts)
      /\ name # << >> /\ line # << >> /\ ~IsPrefix(TracePrefix, line) /\ IsPrefix(CrumbPrefix, line)
           /\ LooksComplete(json) =>
           EndLine(r) = Has(name, << >>, fs, Append(cs, json), ts)
      /\ name # << >> /\ line # << >> /\ ~IsPrefix(TracePrefix, line) /\ IsPrefix(CrumbPrefix, line)
           /\ ~LooksComplete(json) =>
           EndLine(r) = Has(name, << >>, fs, cs, ts)
      /\ name # << >> /\ line # << >> /\ ~IsPrefix(TracePrefix, line) /\ ~IsPrefix(CrumbPrefix, line) =>
           EndLine(r) = Has(name, << >>, Append(fs, line), cs, ts)
  BY <1>1, <1>2, <1>3, <1>4, <1>6
<1> QED BY <1>7 DEF r, id, json, EndsAs

\* The rest of a line is a part of it.
LEMMA AfterIs ==
  ASSUME NEW line \in Seq(ReportToken), NEW prefix \in Seq(ReportToken)
  PROVE  After(prefix, line) \in Seq(ReportToken)
<1>1. \A i \in (Len(prefix) + 1)..Len(line) : line[i] \in ReportToken  OBVIOUS
<1>2. Len(prefix) + 1 \in Int /\ Len(line) \in Int  OBVIOUS
<1> QED BY <1>1, <1>2, SubSeqProperties DEF After

LEMMA PrefixesAreTexts ==
  /\ NewLine \in ReportToken /\ Name \in Seq(ReportToken) /\ Frame \in Seq(ReportToken)
  /\ CrumbPrefix \in Seq(ReportToken) /\ Crumb \in Seq(ReportToken)
  /\ TracePrefix \in Seq(ReportToken) /\ TraceId \in Seq(ReportToken)
  BY DEF NewLine, Name, Frame, CrumbPrefix, Crumb, TracePrefix, TraceId, ReportToken

LEMMA EndLineType ==
  ASSUME NEW r \in Report
  PROVE  EndLine(r) \in Report
<1> DEFINE id == After(TracePrefix, r.line)
           json == After(CrumbPrefix, r.line)
<1>1. id \in Seq(ReportToken) /\ json \in Seq(ReportToken)
  BY AfterIs, PrefixesAreTexts, ReportParts
<1> HIDE DEF id, json
<1>2. << >> \in Seq(ReportToken) /\ <<r.line>> \in Seq(Seq(ReportToken))  BY ReportParts
<1>3. /\ Has(r.name, << >>, r.frames, r.crumbs, r.trace) \in Report
      /\ Has(<<r.line>>, << >>, r.frames, r.crumbs, r.trace) \in Report
      /\ Has(r.name, << >>, r.frames, r.crumbs, <<id>>) \in Report
      /\ Has(r.name, << >>, r.frames, Append(r.crumbs, json), r.trace) \in Report
      /\ Has(r.name, << >>, Append(r.frames, r.line), r.crumbs, r.trace) \in Report
  <2>1. /\ <<id>> \in Seq(Seq(ReportToken)) /\ Append(r.crumbs, json) \in Seq(Seq(ReportToken))
        /\ Append(r.frames, r.line) \in Seq(Seq(ReportToken))
    BY <1>1, ReportParts
  <2> QED BY <1>2, <2>1, ReportParts, HasIsReport
<1>4. EndLine(Has(r.name, r.line, r.frames, r.crumbs, r.trace)) \in Report
  <2>1. EndsAs(r.name, r.line, r.frames, r.crumbs, r.trace)  BY EndLineIs
  <2> QED BY <1>3, <2>1 DEF id, json, EndsAs
<1> QED BY <1>4, ReportParts

LEMMA ReadTokenType ==
  ASSUME NEW r \in Report, NEW token \in ReportToken
  PROVE  ReadToken(r, token) \in Report
<1>1. CASE token = NewLine  BY <1>1, EndLineType DEF ReadToken
<1>2. CASE token # NewLine
  <2>1. ReadToken(r, token) = [r EXCEPT !.line = Append(@, token)]  BY <1>2 DEF ReadToken
  <2>2. r.line \in Seq(ReportToken) /\ Append(r.line, token) \in Seq(ReportToken)  BY ReportParts
  <2> QED BY <2>1, <2>2 DEF Report
<1> QED BY <1>1, <1>2

\* The states the reader of a text goes through.
Readings(R, text) ==
  /\ R \in [0..Len(text) -> Report]
  /\ R[0] = Unread
  /\ \A n \in 1..Len(text) : R[n] = ReadToken(R[n - 1], text[n])
  /\ Read(text) = R[Len(text)]

LEMMA UnreadIsReport == Unread \in Report
  BY DEF Unread, Report

LEMMA ReadIs ==
  ASSUME NEW text \in Seq(ReportToken)
  PROVE  \E R : Readings(R, text)
<1> DEFINE S == 0..Len(text)
           Is(f) == f = [n \in S |-> IF n = 0 THEN Unread ELSE ReadToken(f[n - 1], text[n])]
           rank == [n \in S |-> n]
           step == [n \in S |-> n - 1]
           def == [n \in S |-> [v \in Report |-> IF n = 0 THEN Unread ELSE ReadToken(v, text[n])]]
           R == CHOOSE f : Is(f)
<1>1. \A n \in S : n # 0 => text[n] \in ReportToken  OBVIOUS
<1>2. def \in [S -> [Report -> Report]]  BY <1>1, UnreadIsReport, ReadTokenType
<1>3. Descends(step, rank, S)  BY DEF Descends
<1>4. PICK f : Recursive(f, S, Report, Unread, step, def)
  <2> HIDE DEF S, rank, step, def
  <2> QED BY <1>2, <1>3, UnreadIsReport, RecursiveFunction
<1>5. f \in [S -> Report]  BY <1>4 DEF Recursive
<1>6. \A n \in S : f[n] = IF n = 0 THEN Unread ELSE ReadToken(f[n - 1], text[n])
  <2> TAKE n \in S
  <2>1. f[n] = def[n][IF step[n] \in S THEN f[step[n]] ELSE Unread]  BY <1>4 DEF Recursive
  <2>2. n # 0 => step[n] = n - 1 /\ n - 1 \in S  OBVIOUS
  <2>3. \A v \in Report : def[n][v] = IF n = 0 THEN Unread ELSE ReadToken(v, text[n])  OBVIOUS
  <2>4. (IF step[n] \in S THEN f[step[n]] ELSE Unread) \in Report  BY <1>5, UnreadIsReport
  <2> HIDE DEF def, step, S
  <2> QED BY <2>1, <2>2, <2>3, <2>4
<1>7. Is(f)
  <2> HIDE DEF S
  <2> QED BY <1>5, <1>6
<1>8. Is(R)  BY <1>7
<1>9. Read(text) = R[Len(text)]  BY DEF Read
<1> HIDE DEF R
<1>10. \A n \in S : R[n] = IF n = 0 THEN Unread ELSE ReadToken(R[n - 1], text[n])
  <2> HIDE DEF S
  <2> QED BY <1>8
<1>11. \A n \in S : R[n] \in Report
  <2> DEFINE Bad == {n \in S : R[n] \notin Report}
  <2> SUFFICES ASSUME Bad # {} PROVE FALSE  OBVIOUS
  <2>1. PICK n \in Bad : \A m \in Bad : n <= m
    <3>1. Bad \subseteq Nat  OBVIOUS
    <3> HIDE DEF Bad
    <3> QED BY <3>1, LeastNatural
  <2>2. n \in S /\ n # 0 /\ R[n] \notin Report  BY <1>10, <2>1, UnreadIsReport
  <2>3. n - 1 \in S /\ R[n - 1] \in Report  BY <2>1, <2>2
  <2> QED BY <1>1, <1>10, <2>2, <2>3, ReadTokenType
<1>12. R \in [S -> Report]
  <2> HIDE DEF S
  <2> QED BY <1>8, <1>11
<1>13. R[0] = Unread /\ \A n \in 1..Len(text) : R[n] = ReadToken(R[n - 1], text[n])  BY <1>10
<1> QED BY <1>9, <1>12, <1>13 DEF Readings

LEMMA ReadType ==
  ASSUME NEW text \in Seq(ReportToken)
  PROVE  Read(text) \in Report
<1>1. PICK R : Readings(R, text)  BY ReadIs
<1> QED BY <1>1 DEF Readings

LEMMA ReadNothing == Read(<< >>) = Unread
<1>1. << >> \in Seq(ReportToken) /\ Len(<< >>) = 0  OBVIOUS
<1>2. PICK R : Readings(R, << >>)  BY <1>1, ReadIs
<1> QED BY <1>1, <1>2 DEF Readings

\* The reader goes on from where it was.
LEMMA ReadAppend ==
  ASSUME NEW text \in Seq(ReportToken), NEW token \in ReportToken
  PROVE  Read(Append(text, token)) = ReadToken(Read(text), token)
<1> DEFINE more == Append(text, token)
           N == Len(text)
<1>1. /\ more \in Seq(ReportToken) /\ Len(more) = N + 1 /\ N \in Nat
      /\ more[N + 1] = token /\ \A n \in 1..N : more[n] = text[n]
  OBVIOUS
<1> HIDE DEF more, N
<1>2. PICK R : Readings(R, text)  BY ReadIs
<1>3. PICK Q : Readings(Q, more)  BY <1>1, ReadIs
<1>4. \A n \in 0..N : Q[n] = R[n]
  <2> DEFINE Bad == {n \in 0..N : Q[n] # R[n]}
  <2> SUFFICES ASSUME Bad # {} PROVE FALSE  OBVIOUS
  <2>1. PICK n \in Bad : \A m \in Bad : n <= m
    <3>1. Bad \subseteq Nat  OBVIOUS
    <3> HIDE DEF Bad
    <3> QED BY <3>1, LeastNatural
  <2>2. n \in 0..N /\ n # 0 /\ Q[n] # R[n]  BY <1>2, <1>3, <2>1 DEF Readings
  <2>3. n - 1 \in 0..N /\ Q[n - 1] = R[n - 1]  BY <1>1, <2>1, <2>2
  <2>4. n \in 1..N /\ n \in 1..Len(more) /\ more[n] = text[n]  BY <1>1, <2>2
  <2>5. Q[n] = ReadToken(Q[n - 1], more[n])  BY <1>3, <2>4 DEF Readings
  <2>6. R[n] = ReadToken(R[n - 1], text[n])  BY <1>2, <2>4 DEF Readings, N
  <2> QED BY <2>2, <2>3, <2>4, <2>5, <2>6
<1>5. Read(text) = R[N] /\ Read(more) = Q[N + 1]  BY <1>1, <1>2, <1>3 DEF Readings, N
<1>6. Q[N + 1] = ReadToken(Q[N], token)
  <2>1. N + 1 \in 1..Len(more) /\ (N + 1) - 1 = N  BY <1>1
  <2> QED BY <1>1, <1>3, <2>1 DEF Readings
<1> QED BY <1>1, <1>4, <1>5, <1>6 DEF more

\* A token that ends no line is added to it.
LEMMA TokenIs ==
  ASSUME NEW name, NEW line, NEW fs, NEW cs, NEW ts, NEW token
  PROVE  /\ token # NewLine => ReadToken(Has(name, line, fs, cs, ts), token) = Has(name, Append(line, token), fs, cs, ts)
         /\ token = NewLine => ReadToken(Has(name, line, fs, cs, ts), token) = EndLine(Has(name, line, fs, cs, ts))
<1> DEFINE r == Has(name, line, fs, cs, ts)
<1>1. r.line = line  BY DEF Has
<1>2. ASSUME NEW x PROVE [r EXCEPT !.line = x] = Has(name, x, fs, cs, ts)  BY DEF Has
<1> HIDE DEF r
<1>3. [r EXCEPT !.line = Append(@, token)] = Has(name, Append(line, token), fs, cs, ts)
  BY <1>1, <1>2
<1>4. /\ token # NewLine => ReadToken(r, token) = Has(name, Append(line, token), fs, cs, ts)
      /\ token = NewLine => ReadToken(r, token) = EndLine(r)
  BY <1>3 DEF ReadToken
<1> QED BY <1>4 DEF r

LEMMA PrefixStep ==
  ASSUME NEW S, NEW a \in Seq(S), NEW w \in Seq(S)
  PROVE  /\ a \o SubSeq(w, 1, 0) = a /\ a \o SubSeq(w, 1, Len(w)) = a \o w
         /\ \A n \in 0..Len(w) : SubSeq(w, 1, n) \in Seq(S) /\ a \o SubSeq(w, 1, n) \in Seq(S)
         /\ \A n \in 0..(Len(w) - 1) : a \o SubSeq(w, 1, n + 1) = Append(a \o SubSeq(w, 1, n), w[n + 1])
<1>1. \A n \in 0..Len(w) : /\ SubSeq(w, 1, n) \in Seq(S) /\ Len(SubSeq(w, 1, n)) = n
                           /\ \A i \in 1..n : SubSeq(w, 1, n)[i] = w[i]
  <2> TAKE n \in 0..Len(w)
  <2>1. \A i \in 1..n : w[i] \in S  OBVIOUS
  <2>2. 1 \in Int /\ n \in Int  OBVIOUS
  <2>3. /\ SubSeq(w, 1, n) \in Seq(S) /\ Len(SubSeq(w, 1, n)) = (IF 1 <= n THEN n - 1 + 1 ELSE 0)
        /\ \A i \in 1..(n - 1 + 1) : SubSeq(w, 1, n)[i] = w[1 + i - 1]
    BY <2>1, <2>2, SubSeqProperties
  <2> QED BY <2>2, <2>3
<1>2. SubSeq(w, 1, 0) = << >> /\ SubSeq(w, 1, Len(w)) = w
  <2>1. Len(w) \in Nat  OBVIOUS
  <2> QED BY <1>1, <2>1
<1>3. ASSUME NEW n \in 0..(Len(w) - 1)
      PROVE  a \o SubSeq(w, 1, n + 1) = Append(a \o SubSeq(w, 1, n), w[n + 1])
  <2> DEFINE u == SubSeq(w, 1, n)
             v == SubSeq(w, 1, n + 1)
  <2>1. n \in 0..Len(w) /\ n + 1 \in 0..Len(w) /\ n + 1 \in 1..Len(w) /\ w[n + 1] \in S  OBVIOUS
  <2>2. u \in Seq(S) /\ Len(u) = n /\ \A i \in 1..n : u[i] = w[i]  BY <1>1, <2>1
  <2>3. v \in Seq(S) /\ Len(v) = n + 1 /\ \A i \in 1..(n + 1) : v[i] = w[i]  BY <1>1, <2>1
  <2> HIDE DEF u, v
  <2>4. v = Append(u, w[n + 1])  BY <2>1, <2>2, <2>3
  <2>5. a \o Append(u, w[n + 1]) = Append(a \o u, w[n + 1])  BY <2>1, <2>2
  <2> QED BY <2>4, <2>5 DEF u, v
<1>4. a \o << >> = a  OBVIOUS
<1>5. \A n \in 0..Len(w) : a \o SubSeq(w, 1, n) \in Seq(S)  BY <1>1
<1> QED BY <1>1, <1>2, <1>3, <1>4, <1>5

\* What holds no newline goes on with the line.
Plain == ReportToken \ {NewLine}

LEMMA PlainTexts ==
  /\ Name \in Seq(Plain) /\ Frame \in Seq(Plain) /\ CrumbPrefix \in Seq(Plain)
  /\ Crumb \in Seq(Plain) /\ TracePrefix \in Seq(Plain) /\ TraceId \in Seq(Plain)
  BY DEF Plain, ReportToken, NewLine, Name, Frame, CrumbPrefix, Crumb, TracePrefix, TraceId

LEMMA ReadsFurther ==
  ASSUME NEW text \in Seq(ReportToken), NEW w \in Seq(Plain),
         NEW name, NEW line \in Seq(ReportToken), NEW fs, NEW cs, NEW ts,
         Read(text) = Has(name, line, fs, cs, ts)
  PROVE  Read(text \o w) = Has(name, line \o w, fs, cs, ts)
<1>0. w \in Seq(ReportToken) /\ \A i \in 1..Len(w) : w[i] # NewLine
  <2>1. \A i \in 1..Len(w) : w[i] \in Plain  OBVIOUS
  <2> QED BY <2>1 DEF Plain
<1> DEFINE Goes(n) == Read(text \o SubSeq(w, 1, n)) = Has(name, line \o SubSeq(w, 1, n), fs, cs, ts)
<1>1. Goes(0)
  <2>1. text \o SubSeq(w, 1, 0) = text  BY <1>0, PrefixStep
  <2>2. line \o SubSeq(w, 1, 0) = line  BY <1>0, PrefixStep
  <2> QED BY <2>1, <2>2
<1>2. ASSUME NEW n \in 0..(Len(w) - 1), Goes(n)
      PROVE  Goes(n + 1)
  <2> DEFINE t == text \o SubSeq(w, 1, n)
             l == line \o SubSeq(w, 1, n)
  <2>1. n + 1 \in 1..Len(w) /\ w[n + 1] \in ReportToken /\ w[n + 1] # NewLine /\ n \in 0..Len(w)
    BY <1>0
  <2>2. t \in Seq(ReportToken) /\ l \in Seq(ReportToken)  BY <1>0, <2>1, PrefixStep
  <2>3. text \o SubSeq(w, 1, n + 1) = Append(t, w[n + 1]) /\ line \o SubSeq(w, 1, n + 1) = Append(l, w[n + 1])
    <3>1. \A i \in 0..(Len(w) - 1) : text \o SubSeq(w, 1, i + 1) = Append(text \o SubSeq(w, 1, i), w[i + 1])
      BY <1>0, PrefixStep
    <3>2. \A i \in 0..(Len(w) - 1) : line \o SubSeq(w, 1, i + 1) = Append(line \o SubSeq(w, 1, i), w[i + 1])
      BY <1>0, PrefixStep
    <3> QED BY <3>1, <3>2
  <2>4. Read(t) = Has(name, l, fs, cs, ts)  BY <1>2
  <2> HIDE DEF t, l
  <2>5. Read(Append(t, w[n + 1])) = ReadToken(Has(name, l, fs, cs, ts), w[n + 1])
    BY <2>1, <2>2, <2>4, ReadAppend
  <2>6. Read(Append(t, w[n + 1])) = Has(name, Append(l, w[n + 1]), fs, cs, ts)
    BY <2>1, <2>5, TokenIs
  <2> QED BY <2>3, <2>6
<1> HIDE DEF Goes
<1>3. \A n \in 0..Len(w) : Goes(n)
  <2> DEFINE Bad == {n \in 0..Len(w) : ~Goes(n)}
  <2> SUFFICES ASSUME Bad # {} PROVE FALSE  OBVIOUS
  <2>1. PICK n \in Bad : \A m \in Bad : n <= m
    <3>1. Bad \subseteq Nat  OBVIOUS
    <3> HIDE DEF Bad
    <3> QED BY <3>1, LeastNatural
  <2>2. n \in 0..Len(w) /\ n # 0 /\ ~Goes(n)  BY <1>1, <2>1
  <2>3. n - 1 \in 0..(Len(w) - 1) /\ Goes(n - 1) /\ (n - 1) + 1 = n  BY <2>1, <2>2
  <2> QED BY <1>2, <2>2, <2>3
<1>4. Len(w) \in 0..Len(w)  OBVIOUS
<1>5. Goes(Len(w))  BY <1>3, <1>4
<1> QED
  <2>1. text \o SubSeq(w, 1, Len(w)) = text \o w  BY <1>0, PrefixStep
  <2>2. line \o SubSeq(w, 1, Len(w)) = line \o w  BY <1>0, PrefixStep
  <2> QED BY <1>5, <2>1, <2>2 DEF Goes

\* And is the line, if there was nothing of it yet.
LEMMA ReadsFirst ==
  ASSUME NEW text \in Seq(ReportToken), NEW w \in Seq(Plain), NEW name, NEW fs, NEW cs, NEW ts,
         Read(text) = Has(name, << >>, fs, cs, ts)
  PROVE  Read(text \o w) = Has(name, w, fs, cs, ts)
<1> DEFINE line == << >>
<1>1. line \in Seq(ReportToken) /\ line \o w = w /\ Read(text) = Has(name, line, fs, cs, ts)
  OBVIOUS
<1> HIDE DEF line
<1>2. ASSUME NEW l \in Seq(ReportToken), Read(text) = Has(name, l, fs, cs, ts)
      PROVE  Read(text \o w) = Has(name, l \o w, fs, cs, ts)
  BY <1>2, ReadsFurther
<1> QED BY <1>1, <1>2

\* A newline ends it.
LEMMA ReadsNewLine ==
  ASSUME NEW text \in Seq(ReportToken)
  PROVE  Read(text \o <<NewLine>>) = EndLine(Read(text))
<1>1. text \o <<NewLine>> = Append(text, NewLine) /\ NewLine \in ReportToken  BY PrefixesAreTexts
<1>2. Read(Append(text, NewLine)) = ReadToken(Read(text), NewLine)  BY <1>1, ReadAppend
<1> QED BY <1>1, <1>2 DEF ReadToken

LEMMA AfterPrefix ==
  ASSUME NEW p \in Seq(ReportToken), NEW q \in Seq(ReportToken)
  PROVE  After(p, p \o q) = q
<1> DEFINE l == p \o q
<1>1. /\ l \in Seq(ReportToken) /\ Len(l) = Len(p) + Len(q) /\ Len(p) \in Nat /\ Len(q) \in Nat
      /\ \A i \in 1..Len(q) : l[Len(p) + i] = q[i]
  OBVIOUS
<1> HIDE DEF l
<1>2. Len(p) + 1 \in Int /\ Len(l) \in Int /\ \A i \in (Len(p) + 1)..Len(l) : l[i] \in ReportToken
  BY <1>1
<1> DEFINE m == Len(p) + 1
           n == Len(l)
           u == SubSeq(l, m, n)
<1>3. /\ u \in Seq(ReportToken) /\ Len(u) = (IF m <= n THEN n - m + 1 ELSE 0)
      /\ \A i \in 1..(n - m + 1) : u[i] = l[m + i - 1]
  <2> HIDE DEF m, n
  <2> QED BY <1>2, SubSeqProperties DEF m, n
<1>4. Len(u) = Len(q)
  <2> HIDE DEF u
  <2> QED BY <1>1, <1>3
<1>5. ASSUME NEW i \in 1..Len(q) PROVE u[i] = q[i]
  <2>1. i \in 1..(n - m + 1) /\ m + i - 1 = Len(p) + i  BY <1>1
  <2>2. u[i] = l[m + i - 1]  BY <1>3, <2>1
  <2> HIDE DEF u, m
  <2> QED BY <1>1, <2>1, <2>2
<1>6. u = q
  <2> HIDE DEF u
  <2> QED BY <1>3, <1>4, <1>5
<1> QED BY <1>6 DEF After, l

\* The lines of a report, whole and cut between two writes.
LEMMA LinesAre ==
  /\ Frame # << >> /\ CrumbPrefix # << >> /\ TracePrefix # << >>
  /\ CrumbPrefix \o Crumb # << >> /\ TracePrefix \o TraceId # << >>
  /\ ~IsPrefix(TracePrefix, Frame) /\ ~IsPrefix(CrumbPrefix, Frame)
  /\ ~IsPrefix(TracePrefix, CrumbPrefix) /\ IsPrefix(CrumbPrefix, CrumbPrefix)
  /\ ~LooksComplete(After(CrumbPrefix, CrumbPrefix))
  /\ ~IsPrefix(TracePrefix, CrumbPrefix \o Crumb) /\ IsPrefix(CrumbPrefix, CrumbPrefix \o Crumb)
  /\ After(CrumbPrefix, CrumbPrefix \o Crumb) = Crumb /\ LooksComplete(Crumb)
  /\ IsPrefix(TracePrefix, TracePrefix) /\ ~ValidId(After(TracePrefix, TracePrefix))
  /\ IsPrefix(TracePrefix, TracePrefix \o TraceId)
  /\ After(TracePrefix, TracePrefix \o TraceId) = TraceId /\ ValidId(TraceId)
<1>1. /\ Frame # << >> /\ CrumbPrefix # << >> /\ TracePrefix # << >>
      /\ CrumbPrefix \o Crumb # << >> /\ TracePrefix \o TraceId # << >>
  BY DEF Frame, CrumbPrefix, TracePrefix, Crumb, TraceId
<1>2. ~IsPrefix(TracePrefix, Frame) /\ ~IsPrefix(CrumbPrefix, Frame)
  BY DEF IsPrefix, Frame, CrumbPrefix, TracePrefix
<1>3. ~IsPrefix(TracePrefix, CrumbPrefix) /\ IsPrefix(CrumbPrefix, CrumbPrefix) /\ IsPrefix(TracePrefix, TracePrefix)
  BY DEF IsPrefix, CrumbPrefix, TracePrefix
<1>4. After(CrumbPrefix, CrumbPrefix) = << >> /\ After(TracePrefix, TracePrefix) = << >>
  BY DEF After, CrumbPrefix, TracePrefix
<1>5. ~LooksComplete(<< >>) /\ ~ValidId(<< >>) /\ ValidId(TraceId) /\ LooksComplete(Crumb)
  BY DEF LooksComplete, ValidId, TraceId, Crumb
<1>6. ~IsPrefix(TracePrefix, CrumbPrefix \o Crumb) /\ IsPrefix(CrumbPrefix, CrumbPrefix \o Crumb)
  BY DEF IsPrefix, CrumbPrefix, TracePrefix, Crumb
<1>7. IsPrefix(TracePrefix, TracePrefix \o TraceId)  BY DEF IsPrefix, TracePrefix, TraceId
<1>8. After(CrumbPrefix, CrumbPrefix \o Crumb) = Crumb  BY AfterPrefix, PrefixesAreTexts
<1>9. After(TracePrefix, TracePrefix \o TraceId) = TraceId  BY AfterPrefix, PrefixesAreTexts
<1> QED BY <1>1, <1>2, <1>3, <1>4, <1>5, <1>6, <1>7, <1>8, <1>9

LEMMA EndsOfLines ==
  ASSUME NEW fs, NEW cs, NEW ts
  PROVE  /\ EndLine(Has(<< >>, Name, fs, cs, ts)) = Has(<<Name>>, << >>, fs, cs, ts)
         /\ EndLine(Has(<<Name>>, Frame, fs, cs, ts)) = Has(<<Name>>, << >>, Append(fs, Frame), cs, ts)
         /\ EndLine(Has(<<Name>>, CrumbPrefix, fs, cs, ts)) = Has(<<Name>>, << >>, fs, cs, ts)
         /\ EndLine(Has(<<Name>>, CrumbPrefix \o Crumb, fs, cs, ts)) = Has(<<Name>>, << >>, fs, Append(cs, Crumb), ts)
         /\ EndLine(Has(<<Name>>, TracePrefix, fs, cs, ts)) = Has(<<Name>>, << >>, fs, cs, ts)
         /\ EndLine(Has(<<Name>>, TracePrefix \o TraceId, fs, cs, ts)) = Has(<<Name>>, << >>, fs, cs, <<TraceId>>)
<1>1. <<Name>> # << >>  OBVIOUS
<1>2. EndLine(Has(<< >>, Name, fs, cs, ts)) = Has(<<Name>>, << >>, fs, cs, ts)
  <2>1. EndsAs(<< >>, Name, fs, cs, ts)  BY EndLineIs
  <2> QED BY <2>1 DEF EndsAs
<1> DEFINE named == <<Name>>
<1> HIDE DEF named
<1>3. named # << >>  BY <1>1 DEF named
<1>4. EndLine(Has(named, Frame, fs, cs, ts)) = Has(named, << >>, Append(fs, Frame), cs, ts)
  <2>1. EndsAs(named, Frame, fs, cs, ts)  BY EndLineIs
  <2> QED BY <1>3, <2>1, LinesAre DEF EndsAs
<1>5. EndLine(Has(named, CrumbPrefix, fs, cs, ts)) = Has(named, << >>, fs, cs, ts)
  <2>1. EndsAs(named, CrumbPrefix, fs, cs, ts)  BY EndLineIs
  <2> QED BY <1>3, <2>1, LinesAre DEF EndsAs
<1>6. EndLine(Has(named, CrumbPrefix \o Crumb, fs, cs, ts)) = Has(named, << >>, fs, Append(cs, Crumb), ts)
  <2> DEFINE line == CrumbPrefix \o Crumb
  <2>1. /\ line # << >> /\ ~IsPrefix(TracePrefix, line) /\ IsPrefix(CrumbPrefix, line)
        /\ After(CrumbPrefix, line) = Crumb /\ LooksComplete(Crumb)
    BY LinesAre
  <2> HIDE DEF line
  <2>2. EndLine(Has(named, line, fs, cs, ts)) = Has(named, << >>, fs, Append(cs, Crumb), ts)
    <3>1. EndsAs(named, line, fs, cs, ts)  BY EndLineIs
    <3> QED BY <1>3, <2>1, <3>1 DEF EndsAs
  <2> QED BY <2>2 DEF line
<1>7. EndLine(Has(named, TracePrefix, fs, cs, ts)) = Has(named, << >>, fs, cs, ts)
  <2>1. EndsAs(named, TracePrefix, fs, cs, ts)  BY EndLineIs
  <2> QED BY <1>3, <2>1, LinesAre DEF EndsAs
<1>8. EndLine(Has(named, TracePrefix \o TraceId, fs, cs, ts)) = Has(named, << >>, fs, cs, <<TraceId>>)
  <2> DEFINE line == TracePrefix \o TraceId
  <2>1. /\ line # << >> /\ IsPrefix(TracePrefix, line)
        /\ After(TracePrefix, line) = TraceId /\ ValidId(TraceId)
    BY LinesAre
  <2> HIDE DEF line
  <2>2. EndLine(Has(named, line, fs, cs, ts)) = Has(named, << >>, fs, cs, <<TraceId>>)
    <3>1. EndsAs(named, line, fs, cs, ts)  BY EndLineIs
    <3> QED BY <1>3, <2>1, <3>1 DEF EndsAs
  <2> QED BY <2>2 DEF line
<1> QED BY <1>2, <1>4, <1>5, <1>6, <1>7, <1>8 DEF named

Repeated(x, n) == [i \in 1..n |-> x]

LEMMA RepeatedIs ==
  ASSUME NEW x, NEW n \in Nat
  PROVE  /\ Repeated(x, 0) = << >> /\ Len(Repeated(x, n)) = n
         /\ \A i \in 1..n : Repeated(x, n)[i] = x
         /\ Append(Repeated(x, n), x) = Repeated(x, n + 1)
<1>1. /\ Repeated(x, n) \in Seq({x}) /\ Len(Repeated(x, n)) = n /\ \A i \in 1..n : Repeated(x, n)[i] = x
  BY DEF Repeated
<1>2. /\ Repeated(x, n + 1) \in Seq({x}) /\ Len(Repeated(x, n + 1)) = n + 1
      /\ \A i \in 1..(n + 1) : Repeated(x, n + 1)[i] = x
  BY DEF Repeated
<1>3. Repeated(x, 0) = << >>  BY DEF Repeated
<1>4. Append(Repeated(x, n), x) = Repeated(x, n + 1)  BY <1>1, <1>2
<1> QED BY <1>1, <1>3, <1>4

\* The reader of a text that n whole writes made, of a report with so many
\* frames and entries: what it has is what was written.
InName(text, n) ==
  \/ n = 0 /\ Read(text) = Has(<< >>, << >>, << >>, << >>, << >>)
  \/ n = 1 /\ Read(text) = Has(<< >>, Name, << >>, << >>, << >>)

InFrames(text, n, i) ==
  n = 2 + i /\ Read(text) = Has(<<Name>>, << >>, Repeated(Frame, i), << >>, << >>)

CrumbLine(j) == IF j = 0 THEN << >> ELSE IF j = 1 THEN CrumbPrefix ELSE CrumbPrefix \o Crumb
InCrumbs(text, n, f, i, j) ==
  n = 2 + f + 3 * i + j /\ Read(text) = Has(<<Name>>, CrumbLine(j), Repeated(Frame, f), Repeated(Crumb, i), << >>)

TraceLine(j) == IF j = 1 THEN TracePrefix ELSE IF j = 2 THEN TracePrefix \o TraceId ELSE << >>
InTrace(text, n, f, c, j) ==
  /\ n = 2 + f + 3 * c + j
  /\ Read(text) = Has(<<Name>>, TraceLine(j), Repeated(Frame, f), Repeated(Crumb, c), IF j = 3 THEN <<TraceId>> ELSE << >>)

Reached(text, n, f, c, t) ==
  \/ InName(text, n)
  \/ \E i \in 0..f : InFrames(text, n, i)
  \/ \E i \in 0..c : \E j \in 0..2 : (i < c \/ j = 0) /\ InCrumbs(text, n, f, i, j)
  \/ t /\ \E j \in 1..3 : InTrace(text, n, f, c, j)

\* The next write of each part.
LEMMA WriteIs ==
  ASSUME TypeOK, NEW n \in 1..WriteCount
  PROVE  /\ n = 1 => Write(n) = Name
         /\ n = 2 => Write(n) = <<NewLine>>
         /\ \A i \in 0..(frames - 1) : n = 2 + i + 1 => Write(n) = Frame \o <<NewLine>>
         /\ \A i \in 0..(crumbs - 1) :
              /\ n = 2 + frames + 3 * i + 1 => Write(n) = CrumbPrefix
              /\ n = 2 + frames + 3 * i + 2 => Write(n) = Crumb
              /\ n = 2 + frames + 3 * i + 3 => Write(n) = <<NewLine>>
         /\ n = 2 + frames + 3 * crumbs + 1 => Write(n) = TracePrefix
         /\ n = 2 + frames + 3 * crumbs + 2 => Write(n) = TraceId
         /\ n = 2 + frames + 3 * crumbs + 3 => Write(n) = <<NewLine>>
<1>1. frames \in Nat /\ crumbs \in Nat /\ n \in Nat /\ n >= 1
  BY CrashReportAssumption DEF TypeOK, WriteCount
<1>2. n = 1 => Write(n) = Name  BY DEF Write, NameWrites
<1>3. n = 2 => Write(n) = <<NewLine>>  BY DEF Write, NameWrites
<1>4. ASSUME NEW i \in 0..(frames - 1), n = 2 + i + 1
      PROVE  Write(n) = Frame \o <<NewLine>>
  <2>1. ~(n <= 2) /\ n <= 2 + frames  BY <1>1, <1>4
  <2> QED BY <2>1 DEF Write
<1>5. ASSUME NEW i \in 0..(crumbs - 1), NEW j \in 1..3, n = 2 + frames + 3 * i + j
      PROVE  Write(n) = CrumbWrites[j]
  <2>1. ~(n <= 2) /\ ~(n <= 2 + frames) /\ n <= 2 + frames + 3 * crumbs  BY <1>1, <1>5
  <2>2. n - 3 - frames = 3 * i + (j - 1)  BY <1>1, <1>5
  <2>3. (3 * i + (j - 1)) % 3 = j - 1  BY <1>1
  <2>4. ((n - 3 - frames) % 3) + 1 = j  BY <2>2, <2>3
  <2> QED BY <2>1, <2>4 DEF Write
<1>6. CrumbWrites[1] = CrumbPrefix /\ CrumbWrites[2] = Crumb /\ CrumbWrites[3] = <<NewLine>>
  BY DEF CrumbWrites
<1>7. ASSUME NEW j \in 1..3, n = 2 + frames + 3 * crumbs + j
      PROVE  Write(n) = TraceWrites[j]
  <2>1. ~(n <= 2) /\ ~(n <= 2 + frames) /\ ~(n <= 2 + frames + 3 * crumbs)  BY <1>1, <1>7
  <2>2. n - 2 - frames - 3 * crumbs = j  BY <1>1, <1>7
  <2> QED BY <2>1, <2>2 DEF Write
<1>8. TraceWrites[1] = TracePrefix /\ TraceWrites[2] = TraceId /\ TraceWrites[3] = <<NewLine>>
  BY DEF TraceWrites
<1>9. 1 \in 1..3 /\ 2 \in 1..3 /\ 3 \in 1..3  OBVIOUS
<1>10. \A i \in 0..(crumbs - 1) :
         /\ n = 2 + frames + 3 * i + 1 => Write(n) = CrumbPrefix
         /\ n = 2 + frames + 3 * i + 2 => Write(n) = Crumb
         /\ n = 2 + frames + 3 * i + 3 => Write(n) = <<NewLine>>
  BY <1>5, <1>6, <1>9
<1>11. /\ n = 2 + frames + 3 * crumbs + 1 => Write(n) = TracePrefix
       /\ n = 2 + frames + 3 * crumbs + 2 => Write(n) = TraceId
       /\ n = 2 + frames + 3 * crumbs + 3 => Write(n) = <<NewLine>>
  BY <1>7, <1>8, <1>9
<1> QED BY <1>2, <1>3, <1>4, <1>10, <1>11

\* Every write is one of these.
LEMMA WriteKinds ==
  ASSUME TypeOK, NEW n \in 1..WriteCount
  PROVE  \/ Write(n) \in {Name, <<NewLine>>, Frame \o <<NewLine>>, CrumbPrefix, Crumb}
         \/ traced /\ Write(n) \in {TracePrefix, TraceId}
<1>1. frames \in Nat /\ crumbs \in Nat /\ traced \in BOOLEAN  BY CrashReportAssumption DEF TypeOK
<1>2. WriteCount = 2 + frames + 3 * crumbs + (IF traced THEN 3 ELSE 0)  BY DEF WriteCount
<1>3. CASE n <= 2
  <2>1. n = 1 \/ n = 2  BY <1>1, <1>2, <1>3
  <2> QED BY <2>1, WriteIs
<1>4. CASE n > 2 /\ n <= 2 + frames  BY <1>1, <1>2, <1>4 DEF Write
<1>5. CASE n > 2 + frames /\ n <= 2 + frames + 3 * crumbs
  <2>1. Write(n) = CrumbWrites[((n - 3 - frames) % 3) + 1]  BY <1>1, <1>2, <1>5 DEF Write
  <2>2. ((n - 3 - frames) % 3) + 1 \in 1..3  BY <1>1, <1>2, <1>5
  <2>3. \A j \in 1..3 : CrumbWrites[j] \in {CrumbPrefix, Crumb, <<NewLine>>}  BY DEF CrumbWrites
  <2> QED BY <2>1, <2>2, <2>3
<1>6. CASE n > 2 + frames + 3 * crumbs
  <2>1. traced /\ n - 2 - frames - 3 * crumbs \in 1..3  BY <1>1, <1>2, <1>6
  <2>2. Write(n) = TraceWrites[n - 2 - frames - 3 * crumbs]  BY <1>1, <1>2, <1>6 DEF Write
  <2>3. \A j \in 1..3 : TraceWrites[j] \in {TracePrefix, TraceId, <<NewLine>>}  BY DEF TraceWrites
  <2> QED BY <2>1, <2>2, <2>3
<1>7. n \in Nat /\ n >= 1  BY <1>1, <1>2
<1> QED BY <1>1, <1>3, <1>4, <1>5, <1>6, <1>7

LEMMA WriteType ==
  ASSUME TypeOK, NEW n \in 1..WriteCount
  PROVE  /\ Write(n) \in Seq(ReportToken)
         /\ ~traced => \A i \in 1..Len(Write(n)) : Write(n)[i] # "id"
<1> DEFINE Other == ReportToken \ {"id"}
<1>2. /\ Name \in Seq(Other) /\ <<NewLine>> \in Seq(Other) /\ Frame \in Seq(Other)
      /\ CrumbPrefix \in Seq(Other) /\ Crumb \in Seq(Other)
  BY DEF ReportToken, NewLine, Name, Frame, CrumbPrefix, Crumb
<1> HIDE DEF Other
<1>3. Frame \o <<NewLine>> \in Seq(Other)  BY <1>2
<1>4. \A w \in Seq(Other) : w \in Seq(ReportToken) /\ \A i \in 1..Len(w) : w[i] # "id"
  <2> TAKE w \in Seq(Other)
  <2>1. \A i \in 1..Len(w) : w[i] \in Other  OBVIOUS
  <2> QED BY <2>1 DEF Other
<1>5. Write(n) \in Seq(Other) \/ (traced /\ Write(n) \in {TracePrefix, TraceId})
  BY <1>2, <1>3, WriteKinds
<1> QED BY <1>4, <1>5, PrefixesAreTexts

\* One more whole write, whichever it is, and the reader has that too.
LEMMA ReachedNext ==
  ASSUME TypeOK, written < WriteCount, Reached(file, written, frames, crumbs, traced)
  PROVE  Reached(file \o Write(written + 1), written + 1, frames, crumbs, traced)
<1> DEFINE n == written + 1
           more == file \o Write(n)
<1>1. /\ frames \in Nat /\ crumbs \in Nat /\ traced \in BOOLEAN /\ written \in Nat
      /\ file \in Seq(ReportToken) /\ WriteCount = 2 + frames + 3 * crumbs + (IF traced THEN 3 ELSE 0)
  BY CrashReportAssumption DEF TypeOK, WriteCount
<1>2. n \in 1..WriteCount  BY <1>1
<1>3. /\ n = 1 => Write(n) = Name
      /\ n = 2 => Write(n) = <<NewLine>>
      /\ \A i \in 0..(frames - 1) : n = 2 + i + 1 => Write(n) = Frame \o <<NewLine>>
      /\ \A i \in 0..(crumbs - 1) :
           /\ n = 2 + frames + 3 * i + 1 => Write(n) = CrumbPrefix
           /\ n = 2 + frames + 3 * i + 2 => Write(n) = Crumb
           /\ n = 2 + frames + 3 * i + 3 => Write(n) = <<NewLine>>
      /\ n = 2 + frames + 3 * crumbs + 1 => Write(n) = TracePrefix
      /\ n = 2 + frames + 3 * crumbs + 2 => Write(n) = TraceId
      /\ n = 2 + frames + 3 * crumbs + 3 => Write(n) = <<NewLine>>
  <2> HIDE DEF n
  <2> QED BY <1>2, WriteIs
<1>4. Write(n) = <<NewLine>> => Read(more) = EndLine(Read(file))  BY <1>1, ReadsNewLine
<1>5. << >> \in Seq(ReportToken) /\ << >> \o Name = Name /\ << >> \o Frame = Frame
      /\ << >> \o CrumbPrefix = CrumbPrefix /\ << >> \o TracePrefix = TracePrefix
  BY PrefixesAreTexts
<1> HIDE DEF n, more
<1>6. CASE InName(file, written)
  <2>1. CASE written = 0 /\ Read(file) = Has(<< >>, << >>, << >>, << >>, << >>)
    <3>1. n = 1 /\ more = file \o Name
      <4>1. n = 1  BY <2>1 DEF n
      <4>2. Write(n) = Name  BY <1>3, <4>1
      <4> QED BY <4>1, <4>2 DEF more
    <3>2. Read(file \o Name) = Has(<< >>, Name, << >>, << >>, << >>)
      BY <1>1, <2>1, ReadsFirst, PlainTexts
    <3>3. InName(more, n)  BY <1>5, <3>1, <3>2 DEF InName
    <3> QED BY <3>3 DEF Reached, n, more
  <2>2. CASE written = 1 /\ Read(file) = Has(<< >>, Name, << >>, << >>, << >>)
    <3>1. n = 2 /\ Read(more) = EndLine(Read(file))  BY <1>3, <1>4, <2>2 DEF n
    <3>2. Read(more) = Has(<<Name>>, << >>, << >>, << >>, << >>)  BY <2>2, <3>1, EndsOfLines
    <3>3. InFrames(more, n, 0) /\ 0 \in 0..frames  BY <1>1, <3>1, <3>2, RepeatedIs DEF InFrames
    <3> QED BY <3>3 DEF Reached, n, more
  <2> QED BY <1>6, <2>1, <2>2 DEF InName
<1>7. ASSUME NEW i \in 0..(frames - 1), InFrames(file, written, i)
      PROVE  Reached(more, n, frames, crumbs, traced)
  <2> DEFINE fs == Repeated(Frame, i)
             w == file \o Frame
  <2>1. n = 2 + i + 1 /\ Write(n) = Frame \o <<NewLine>> /\ i \in Nat /\ i + 1 \in 0..frames
    BY <1>1, <1>3, <1>7 DEF InFrames, n
  <2>2. more = w \o <<NewLine>> /\ w \in Seq(ReportToken)
    <3>1. <<NewLine>> \in Seq(ReportToken) /\ Frame \in Seq(ReportToken)  BY PrefixesAreTexts
    <3>2. (file \o Frame) \o <<NewLine>> = file \o (Frame \o <<NewLine>>)
      BY <1>1, <3>1, ConcatAssociative
    <3> QED BY <1>1, <2>1, <3>1, <3>2, ConcatProperties DEF more
  <2>3. Read(w) = Has(<<Name>>, Frame, fs, << >>, << >>)
    <3>1. Read(file) = Has(<<Name>>, << >>, fs, << >>, << >>)  BY <1>7 DEF InFrames
    <3> HIDE DEF fs
    <3>2. Read(w) = Has(<<Name>>, Frame, fs, << >>, << >>)  BY <1>1, <3>1, ReadsFirst, PlainTexts
    <3> QED BY <1>5, <3>2
  <2> HIDE DEF w, fs
  <2>4. Read(more) = Has(<<Name>>, << >>, Append(fs, Frame), << >>, << >>)
    BY <2>2, <2>3, ReadsNewLine, EndsOfLines
  <2>5. Append(fs, Frame) = Repeated(Frame, i + 1)  BY <2>1, RepeatedIs DEF fs
  <2>6. InFrames(more, n, i + 1)  BY <2>1, <2>4, <2>5 DEF InFrames
  <2> QED BY <2>1, <2>6 DEF Reached
<1>8. ASSUME NEW i \in 0..(crumbs - 1), NEW j \in 0..2, InCrumbs(file, written, frames, i, j)
      PROVE  Reached(more, n, frames, crumbs, traced)
  <2> DEFINE fs == Repeated(Frame, frames)
             cs == Repeated(Crumb, i)
  <2>0. i \in Nat /\ i \in 0..crumbs /\ i < crumbs /\ i + 1 \in 0..crumbs  BY <1>1
  <2>1. written = 2 + frames + 3 * i + j /\ Read(file) = Has(<<Name>>, CrumbLine(j), fs, cs, << >>)
    BY <1>8 DEF InCrumbs
  <2> HIDE DEF fs, cs
  <2>2. CASE j = 0
    <3>1. n = 2 + frames + 3 * i + 1 /\ more = file \o CrumbPrefix
      <4>1. n = 2 + frames + 3 * i + 1  BY <1>1, <2>0, <2>1, <2>2 DEF n
      <4>2. Write(n) = CrumbPrefix  BY <1>3, <2>0, <4>1
      <4> QED BY <4>1, <4>2 DEF more
    <3>2. Read(file) = Has(<<Name>>, << >>, fs, cs, << >>)  BY <2>1, <2>2 DEF CrumbLine
    <3>3. Read(file \o CrumbPrefix) = Has(<<Name>>, CrumbPrefix, fs, cs, << >>)
      BY <1>1, <3>2, ReadsFirst, PlainTexts
    <3>4. CrumbLine(1) = CrumbPrefix  BY DEF CrumbLine
    <3>5. InCrumbs(more, n, frames, i, 1)  BY <1>5, <3>1, <3>3, <3>4 DEF InCrumbs, fs, cs
    <3>6. 1 \in 0..2  OBVIOUS
    <3> QED BY <2>0, <3>5, <3>6 DEF Reached
  <2>3. CASE j = 1
    <3>1. n = 2 + frames + 3 * i + 2 /\ more = file \o Crumb
      <4>1. n = 2 + frames + 3 * i + 2  BY <1>1, <2>0, <2>1, <2>3 DEF n
      <4>2. Write(n) = Crumb  BY <1>3, <2>0, <4>1
      <4> QED BY <4>1, <4>2 DEF more
    <3>2. Read(file) = Has(<<Name>>, CrumbPrefix, fs, cs, << >>)  BY <2>1, <2>3 DEF CrumbLine
    <3>3. Read(file \o Crumb) = Has(<<Name>>, CrumbPrefix \o Crumb, fs, cs, << >>)
      BY <1>1, <3>2, ReadsFurther, PrefixesAreTexts, PlainTexts
    <3>4. CrumbLine(2) = CrumbPrefix \o Crumb  BY DEF CrumbLine
    <3>5. InCrumbs(more, n, frames, i, 2)  BY <3>1, <3>3, <3>4 DEF InCrumbs, fs, cs
    <3>6. 2 \in 0..2  OBVIOUS
    <3> QED BY <2>0, <3>5, <3>6 DEF Reached
  <2>4. CASE j = 2
    <3>1. n = 2 + frames + 3 * i + 3 /\ Read(more) = EndLine(Read(file))
      BY <1>1, <1>3, <1>4, <2>0, <2>1, <2>4 DEF n
    <3>2. Read(file) = Has(<<Name>>, CrumbPrefix \o Crumb, fs, cs, << >>)
      BY <2>1, <2>4 DEF CrumbLine
    <3>3. Read(more) = Has(<<Name>>, << >>, fs, Append(cs, Crumb), << >>)
      BY <3>1, <3>2, EndsOfLines
    <3>4. Append(cs, Crumb) = Repeated(Crumb, i + 1) /\ CrumbLine(0) = << >>
      BY <2>0, RepeatedIs DEF cs, CrumbLine
    <3>5. n = 2 + frames + 3 * (i + 1) + 0  BY <1>1, <2>0, <3>1
    <3>6. InCrumbs(more, n, frames, i + 1, 0)  BY <3>3, <3>4, <3>5 DEF InCrumbs, fs
    <3>7. 0 \in 0..2  OBVIOUS
    <3> QED BY <2>0, <3>6, <3>7 DEF Reached
  <2> QED BY <2>2, <2>3, <2>4
<1>9. ASSUME InCrumbs(file, written, frames, crumbs, 0)
      PROVE  Reached(more, n, frames, crumbs, traced)
  <2> DEFINE fs == Repeated(Frame, frames)
             cs == Repeated(Crumb, crumbs)
  <2>1. written = 2 + frames + 3 * crumbs + 0 /\ Read(file) = Has(<<Name>>, CrumbLine(0), fs, cs, << >>)
    BY <1>9 DEF InCrumbs
  <2> HIDE DEF fs, cs
  <2>2. n = 2 + frames + 3 * crumbs + 1 /\ traced /\ more = file \o TracePrefix
    <3>1. n = 2 + frames + 3 * crumbs + 1 /\ traced  BY <1>1, <2>1 DEF n
    <3> QED BY <1>3, <3>1 DEF more
  <2>3. Read(file) = Has(<<Name>>, << >>, fs, cs, << >>)  BY <2>1 DEF CrumbLine
  <2>4. Read(file \o TracePrefix) = Has(<<Name>>, TracePrefix, fs, cs, << >>)
    BY <1>1, <2>3, ReadsFirst, PlainTexts
  <2>5. TraceLine(1) = TracePrefix  BY DEF TraceLine
  <2>6. InTrace(more, n, frames, crumbs, 1)  BY <1>5, <2>2, <2>4, <2>5 DEF InTrace, fs, cs
  <2>7. 1 \in 1..3  OBVIOUS
  <2> QED BY <2>2, <2>6, <2>7 DEF Reached
<1>10. ASSUME InFrames(file, written, frames)
       PROVE  Reached(more, n, frames, crumbs, traced)
  <2>1. InCrumbs(file, written, frames, 0, 0)
    <3>1. Repeated(Crumb, 0) = << >> /\ CrumbLine(0) = << >>  BY RepeatedIs DEF CrumbLine
    <3>2. written = 2 + frames + 3 * 0 + 0  BY <1>1, <1>10 DEF InFrames
    <3> QED BY <1>10, <3>1, <3>2 DEF InFrames, InCrumbs
  <2>2. CASE crumbs = 0  BY <1>9, <2>1, <2>2
  <2>3. CASE crumbs # 0
    <3>1. 0 \in 0..(crumbs - 1) /\ 0 \in 0..2  BY <1>1, <2>3
    <3> QED BY <1>8, <2>1, <3>1
  <2> QED BY <2>2, <2>3
<1>11. ASSUME traced, NEW j \in 1..3, InTrace(file, written, frames, crumbs, j)
       PROVE  Reached(more, n, frames, crumbs, traced)
  <2> DEFINE fs == Repeated(Frame, frames)
             cs == Repeated(Crumb, crumbs)
  <2>1. written = 2 + frames + 3 * crumbs + j /\ j # 3  BY <1>1, <1>11 DEF InTrace
  <2>2. Read(file) = Has(<<Name>>, TraceLine(j), fs, cs, << >>)  BY <1>11, <2>1 DEF InTrace
  <2> HIDE DEF fs, cs
  <2>3. CASE j = 1
    <3>1. n = 2 + frames + 3 * crumbs + 2 /\ more = file \o TraceId
      <4>1. n = 2 + frames + 3 * crumbs + 2  BY <1>1, <2>1, <2>3 DEF n
      <4>2. Write(n) = TraceId  BY <1>3, <4>1
      <4> QED BY <4>1, <4>2 DEF more
    <3>2. Read(file) = Has(<<Name>>, TracePrefix, fs, cs, << >>)  BY <2>2, <2>3 DEF TraceLine
    <3>3. Read(file \o TraceId) = Has(<<Name>>, TracePrefix \o TraceId, fs, cs, << >>)
      BY <1>1, <3>2, ReadsFurther, PrefixesAreTexts, PlainTexts
    <3>4. TraceLine(2) = TracePrefix \o TraceId  BY DEF TraceLine
    <3>5. InTrace(more, n, frames, crumbs, 2)
      <4>1. (IF 2 = 3 THEN <<TraceId>> ELSE << >>) = << >>  OBVIOUS
      <4> QED BY <3>1, <3>3, <3>4, <4>1 DEF InTrace, fs, cs
    <3>6. 2 \in 1..3  OBVIOUS
    <3> QED BY <1>11, <3>5, <3>6 DEF Reached
  <2>4. CASE j = 2
    <3>1. n = 2 + frames + 3 * crumbs + 3 /\ Read(more) = EndLine(Read(file))
      BY <1>1, <1>3, <1>4, <2>1, <2>4 DEF n
    <3>2. Read(file) = Has(<<Name>>, TracePrefix \o TraceId, fs, cs, << >>)
      BY <2>2, <2>4 DEF TraceLine
    <3>3. Read(more) = Has(<<Name>>, << >>, fs, cs, <<TraceId>>)  BY <3>1, <3>2, EndsOfLines
    <3>4. TraceLine(3) = << >>  BY DEF TraceLine
    <3>5. InTrace(more, n, frames, crumbs, 3)  BY <3>1, <3>3, <3>4 DEF InTrace, fs, cs
    <3>6. 3 \in 1..3  OBVIOUS
    <3> QED BY <1>11, <3>5, <3>6 DEF Reached
  <2> QED BY <2>1, <2>3, <2>4
<1>12. Reached(more, n, frames, crumbs, traced)
  <2>1. CASE \E i \in 0..frames : InFrames(file, written, i)
    <3>1. PICK i \in 0..frames : InFrames(file, written, i)  BY <2>1
    <3>2. i = frames \/ i \in 0..(frames - 1)  BY <1>1
    <3> QED BY <1>7, <1>10, <3>1, <3>2
  <2>2. CASE \E i \in 0..crumbs : \E j \in 0..2 : (i < crumbs \/ j = 0) /\ InCrumbs(file, written, frames, i, j)
    <3>1. PICK i \in 0..crumbs : \E j \in 0..2 : (i < crumbs \/ j = 0) /\ InCrumbs(file, written, frames, i, j)
      BY <2>2
    <3>2. PICK j \in 0..2 : (i < crumbs \/ j = 0) /\ InCrumbs(file, written, frames, i, j)  BY <3>1
    <3>3. i \in 0..(crumbs - 1) \/ (i = crumbs /\ j = 0)  BY <1>1, <3>2
    <3> QED BY <1>8, <1>9, <3>2, <3>3
  <2>3. CASE traced /\ \E j \in 1..3 : InTrace(file, written, frames, crumbs, j)  BY <1>11, <2>3
  <2>4. CASE InName(file, written)  BY <1>6, <2>4 DEF more, n
  <2> QED BY <2>1, <2>2, <2>3, <2>4 DEF Reached
<1> QED BY <1>12 DEF more, n

\* Of a line only a whole id is taken, and it has the characters of one.
LEMMA EndTrace ==
  ASSUME NEW r \in Report
  PROVE  /\ EndLine(r).line = << >>
         /\ \/ EndLine(r).trace = r.trace
            \/ EndLine(r).trace = <<TraceId>> /\ \E i \in 1..Len(r.line) : r.line[i] = "id"
<1> DEFINE nm == r.name
           l == r.line
           fs == r.frames
           cs == r.crumbs
           ts == r.trace
           id == After(TracePrefix, l)
<1>1. r = Has(nm, l, fs, cs, ts) /\ l \in Seq(ReportToken)  BY ReportParts
<1>2. EndsAs(nm, l, fs, cs, ts)  BY EndLineIs
<1>3. id = TraceId => \E i \in 1..Len(l) : l[i] = "id"
  <2> SUFFICES ASSUME id = TraceId PROVE \E i \in 1..Len(l) : l[i] = "id"  OBVIOUS
  <2>1. Len(TracePrefix) = 2 /\ Len(TraceId) = 2 /\ TraceId[1] = "id"  BY DEF TracePrefix, TraceId
  <2>2. id = SubSeq(l, 3, Len(l))  BY <2>1 DEF After
  <2> HIDE DEF id, l
  <2>3. Len(l) \in Nat /\ \A i \in 3..Len(l) : l[i] \in ReportToken  BY <1>1
  <2>4. /\ Len(id) = (IF 3 <= Len(l) THEN Len(l) - 3 + 1 ELSE 0)
        /\ \A i \in 1..(Len(l) - 3 + 1) : id[i] = l[3 + i - 1]
    BY <2>2, <2>3, SubSeqProperties
  <2>5. 3 <= Len(l)
    <3>1. Len(id) = 2  BY <2>1
    <3>2. ~(3 <= Len(l)) => Len(id) = 0  BY <2>4
    <3>3. 0 # 2  OBVIOUS
    <3> QED BY ONLY <3>1, <3>2, <3>3
  <2>6. 1 \in 1..(Len(l) - 3 + 1) /\ 3 \in 1..Len(l) /\ 3 + 1 - 1 = 3  BY <2>3, <2>5
  <2>7. id[1] = l[3]  BY <2>4, <2>6
  <2> QED BY <2>1, <2>6, <2>7
<1>4. ValidId(id) => id = TraceId  BY DEF ValidId
<1>5. \A a, b, c, d, e : Has(a, b, c, d, e).line = b /\ Has(a, b, c, d, e).trace = e  BY DEF Has
<1> HIDE DEF nm, l, fs, cs, ts, id
<1> DEFINE h == EndLine(Has(nm, l, fs, cs, ts))
<1>6. \/ \E a, c, d : h = Has(a, << >>, c, d, ts)
      \/ ValidId(id) /\ h = Has(nm, << >>, fs, cs, <<id>>)
  BY <1>2 DEF EndsAs, id
<1> HIDE DEF h
<1>7. h.line = << >> /\ (h.trace = ts \/ (ValidId(id) /\ h.trace = <<id>>))  BY <1>5, <1>6
<1>8. EndLine(r) = h  BY <1>1 DEF h
<1> QED BY <1>3, <1>4, <1>7, <1>8 DEF l, ts

\* An id in the report was in the file.
TraceFine(r, ids) ==
  /\ r.trace \in {<< >>, <<TraceId>>}
  /\ ids = {} => r.trace = << >> /\ \A i \in 1..Len(r.line) : r.line[i] # "id"

LEMMA EndFine ==
  ASSUME NEW r \in Report, NEW ids, TraceFine(r, ids)
  PROVE  TraceFine(EndLine(r), ids)
<1>1. /\ EndLine(r).line = << >>
      /\ \/ EndLine(r).trace = r.trace
         \/ EndLine(r).trace = <<TraceId>> /\ \E i \in 1..Len(r.line) : r.line[i] = "id"
  BY EndTrace
<1>2. \A i \in 1..Len(<< >>) : << >>[i] # "id"  OBVIOUS
<1>3. EndLine(r).trace \in {<< >>, <<TraceId>>}  BY <1>1 DEF TraceFine
<1>4. ids = {} => EndLine(r).trace = << >>  BY <1>1 DEF TraceFine
<1> QED BY <1>1, <1>2, <1>3, <1>4 DEF TraceFine

LEMMA ReadFine ==
  ASSUME NEW text \in Seq(ReportToken)
  PROVE  TraceFine(Read(text), {k \in 1..Len(text) : text[k] = "id"})
<1> DEFINE ids == {k \in 1..Len(text) : text[k] = "id"}
<1>1. \A n \in 1..Len(text) : text[n] \in ReportToken /\ (ids = {} => text[n] # "id")  OBVIOUS
<1> HIDE DEF ids
<1>2. PICK R : Readings(R, text)  BY ReadIs
<1>3. TraceFine(Unread, ids)  BY DEF TraceFine, Unread
<1>4. ASSUME NEW n \in 1..Len(text), TraceFine(R[n - 1], ids)
      PROVE  TraceFine(R[n], ids)
  <2> DEFINE r == R[n - 1]
  <2>1. n - 1 \in 0..Len(text) /\ r \in Report /\ R[n] = ReadToken(r, text[n])  BY <1>2 DEF Readings
  <2> HIDE DEF r
  <2>2. TraceFine(r, ids)  BY <1>4 DEF r
  <2>3. CASE text[n] = NewLine  BY <2>1, <2>2, <2>3, EndFine DEF ReadToken
  <2>4. CASE text[n] # NewLine
    <3>1. R[n] = [r EXCEPT !.line = Append(@, text[n])] /\ r.line \in Seq(ReportToken)
      BY <2>1, <2>4, ReportParts DEF ReadToken
    <3>2. R[n].trace = r.trace /\ R[n].line = Append(r.line, text[n])  BY <2>1, <3>1 DEF Report
    <3>3. ids = {} => \A i \in 1..Len(Append(r.line, text[n])) : Append(r.line, text[n])[i] # "id"
      BY <1>1, <2>2, <3>1 DEF TraceFine
    <3> QED BY <2>2, <3>2, <3>3 DEF TraceFine
  <2> QED BY <2>3, <2>4
<1>5. \A n \in 0..Len(text) : TraceFine(R[n], ids)
  <2> DEFINE Bad == {n \in 0..Len(text) : ~TraceFine(R[n], ids)}
  <2> SUFFICES ASSUME Bad # {} PROVE FALSE  OBVIOUS
  <2>1. PICK n \in Bad : \A m \in Bad : n <= m
    <3>1. Bad \subseteq Nat  OBVIOUS
    <3> HIDE DEF Bad
    <3> QED BY <3>1, LeastNatural
  <2>2. n \in 0..Len(text) /\ n # 0 /\ ~TraceFine(R[n], ids)  BY <1>2, <1>3, <2>1 DEF Readings
  <2>3. n \in 1..Len(text) /\ n - 1 \in 0..Len(text) /\ TraceFine(R[n - 1], ids)  BY <2>1, <2>2
  <2> QED BY <1>4, <2>2, <2>3
<1>6. Len(text) \in 0..Len(text) /\ Read(text) = R[Len(text)]  BY <1>2 DEF Readings
<1> QED BY <1>5, <1>6 DEF ids

\* What the later run makes of a file that whole writes made.
CompletedAs(nm, i, k, ts) ==
  /\ Completed = Has(nm, << >>, Repeated(Frame, i), Repeated(Crumb, k), ts)
  /\ nm \in {<< >>, <<Name>>}
  /\ k > 0 \/ ts # << >> => i = frames
  /\ written = WriteCount =>
       nm = <<Name>> /\ i = frames /\ k = crumbs /\ ts = IF traced THEN <<TraceId>> ELSE << >>

LEMMA ReachedCompletes ==
  ASSUME TypeOK, Reached(file, written, frames, crumbs, traced)
  PROVE  \E nm, ts : \E i \in 0..frames : \E k \in 0..crumbs : CompletedAs(nm, i, k, ts)
<1>1. /\ frames \in Nat /\ crumbs \in Nat /\ traced \in BOOLEAN /\ written \in Nat
      /\ WriteCount = 2 + frames + 3 * crumbs + (IF traced THEN 3 ELSE 0)
  BY CrashReportAssumption DEF TypeOK, WriteCount
<1>2. /\ Read(file).line = << >> => Completed = Read(file)
      /\ Read(file).line # << >> => Completed = EndLine(Read(file))
  BY DEF Completed
<1>3. \A a, b, c, d, e : Has(a, b, c, d, e).line = b  BY DEF Has
<1>4. \A x : Repeated(x, 0) = << >>  BY RepeatedIs
<1>5. 0 \in 0..frames /\ 0 \in 0..crumbs  BY <1>1
<1>6. CASE InName(file, written)
  <2>1. CASE written = 0 /\ Read(file) = Has(<< >>, << >>, << >>, << >>, << >>)
    <3>1. Completed = Has(<< >>, << >>, << >>, << >>, << >>)  BY <1>2, <1>3, <2>1
    <3>2. CompletedAs(<< >>, 0, 0, << >>)  BY <1>1, <1>4, <2>1, <3>1 DEF CompletedAs
    <3> QED BY <1>5, <3>2
  <2>2. CASE written = 1 /\ Read(file) = Has(<< >>, Name, << >>, << >>, << >>)
    <3>1. Name # << >>  BY DEF Name
    <3>2. Completed = Has(<<Name>>, << >>, << >>, << >>, << >>)
      BY <1>2, <1>3, <2>2, <3>1, EndsOfLines
    <3>3. CompletedAs(<<Name>>, 0, 0, << >>)  BY <1>1, <1>4, <2>2, <3>2 DEF CompletedAs
    <3> QED BY <1>5, <3>3
  <2> QED BY <1>6, <2>1, <2>2 DEF InName
<1>7. ASSUME NEW i \in 0..frames, InFrames(file, written, i)
      PROVE  CompletedAs(<<Name>>, i, 0, << >>)
  <2>1. written = 2 + i /\ Read(file) = Has(<<Name>>, << >>, Repeated(Frame, i), << >>, << >>)
    BY <1>7 DEF InFrames
  <2>2. Completed = Has(<<Name>>, << >>, Repeated(Frame, i), << >>, << >>)  BY <1>2, <1>3, <2>1
  <2>3. written = WriteCount => i = frames /\ crumbs = 0 /\ ~traced  BY <1>1, <2>1
  <2> QED BY <1>4, <2>2, <2>3 DEF CompletedAs
<1>8. ASSUME NEW i \in 0..crumbs, NEW j \in 0..2, i < crumbs \/ j = 0, InCrumbs(file, written, frames, i, j)
      PROVE  \E k \in 0..crumbs : CompletedAs(<<Name>>, frames, k, << >>)
  <2> DEFINE fs == Repeated(Frame, frames)
             cs == Repeated(Crumb, i)
  <2>1. written = 2 + frames + 3 * i + j /\ Read(file) = Has(<<Name>>, CrumbLine(j), fs, cs, << >>)
    BY <1>8 DEF InCrumbs
  <2> HIDE DEF fs, cs
  <2>2. written = WriteCount => i = crumbs /\ ~traced /\ j = 0  BY <1>1, <1>8, <2>1
  <2>3. CASE j = 0
    <3>1. Completed = Has(<<Name>>, << >>, fs, cs, << >>)  BY <1>2, <1>3, <2>1, <2>3 DEF CrumbLine
    <3>2. CompletedAs(<<Name>>, frames, i, << >>)  BY <2>2, <3>1 DEF CompletedAs, fs, cs
    <3> QED BY <3>2
  <2>4. CASE j = 1
    <3>1. Read(file) = Has(<<Name>>, CrumbPrefix, fs, cs, << >>)  BY <2>1, <2>4 DEF CrumbLine
    <3>2. Completed = Has(<<Name>>, << >>, fs, cs, << >>)
      BY <1>2, <1>3, <3>1, LinesAre, EndsOfLines
    <3>3. CompletedAs(<<Name>>, frames, i, << >>)  BY <2>2, <3>2 DEF CompletedAs, fs, cs
    <3> QED BY <3>3
  <2>5. CASE j = 2
    <3> DEFINE line == CrumbPrefix \o Crumb
    <3>1. Read(file) = Has(<<Name>>, line, fs, cs, << >>)  BY <2>1, <2>5 DEF CrumbLine
    <3>2. Completed = Has(<<Name>>, << >>, fs, Append(cs, Crumb), << >>)
      <4>1. line # << >>  BY LinesAre
      <4> HIDE DEF line
      <4>2. Read(file).line = line  BY <1>3, <3>1
      <4>3. Completed = EndLine(Has(<<Name>>, line, fs, cs, << >>))  BY <1>2, <3>1, <4>1, <4>2
      <4> QED BY <4>3, EndsOfLines DEF line
    <3>3. i \in Nat /\ i + 1 \in 0..crumbs  BY <1>1, <1>8, <2>5
    <3>4. Append(cs, Crumb) = Repeated(Crumb, i + 1)  BY <3>3, RepeatedIs DEF cs
    <3>5. CompletedAs(<<Name>>, frames, i + 1, << >>)  BY <2>2, <2>5, <3>2, <3>4 DEF CompletedAs, fs
    <3> QED BY <3>3, <3>5
  <2> QED BY <2>3, <2>4, <2>5
<1>9. ASSUME traced, NEW j \in 1..3, InTrace(file, written, frames, crumbs, j)
      PROVE  \E ts : CompletedAs(<<Name>>, frames, crumbs, ts)
  <2> DEFINE fs == Repeated(Frame, frames)
             cs == Repeated(Crumb, crumbs)
  <2>1. written = 2 + frames + 3 * crumbs + j  BY <1>9 DEF InTrace
  <2>2. Read(file) = Has(<<Name>>, TraceLine(j), fs, cs, IF j = 3 THEN <<TraceId>> ELSE << >>)
    BY <1>9 DEF InTrace
  <2> HIDE DEF fs, cs
  <2>3. written = WriteCount => j = 3  BY <1>1, <1>9, <2>1
  <2>4. CASE j = 1
    <3>1. Read(file) = Has(<<Name>>, TracePrefix, fs, cs, << >>)  BY <2>2, <2>4 DEF TraceLine
    <3>2. Completed = Has(<<Name>>, << >>, fs, cs, << >>)
      BY <1>2, <1>3, <3>1, LinesAre, EndsOfLines
    <3>3. CompletedAs(<<Name>>, frames, crumbs, << >>)  BY <2>3, <2>4, <3>2 DEF CompletedAs, fs, cs
    <3> QED BY <3>3
  <2>5. CASE j = 2
    <3> DEFINE line == TracePrefix \o TraceId
    <3>1. Read(file) = Has(<<Name>>, line, fs, cs, << >>)  BY <2>2, <2>5 DEF TraceLine
    <3>2. Completed = Has(<<Name>>, << >>, fs, cs, <<TraceId>>)
      <4>1. line # << >>  BY LinesAre
      <4> HIDE DEF line
      <4>2. Read(file).line = line  BY <1>3, <3>1
      <4>3. Completed = EndLine(Has(<<Name>>, line, fs, cs, << >>))  BY <1>2, <3>1, <4>1, <4>2
      <4> QED BY <4>3, EndsOfLines DEF line
    <3>3. CompletedAs(<<Name>>, frames, crumbs, <<TraceId>>)
      BY <2>3, <2>5, <3>2 DEF CompletedAs, fs, cs
    <3> QED BY <3>3
  <2>6. CASE j = 3
    <3>1. Read(file) = Has(<<Name>>, << >>, fs, cs, <<TraceId>>)  BY <2>2, <2>6 DEF TraceLine
    <3>2. Completed = Has(<<Name>>, << >>, fs, cs, <<TraceId>>)  BY <1>2, <1>3, <3>1
    <3>3. CompletedAs(<<Name>>, frames, crumbs, <<TraceId>>)  BY <1>9, <3>2 DEF CompletedAs, fs, cs
    <3> QED BY <3>3
  <2> QED BY <2>4, <2>5, <2>6
<1>10. frames \in 0..frames /\ crumbs \in 0..crumbs  BY <1>1
<1>11. CASE \E i \in 0..frames : InFrames(file, written, i)  BY <1>5, <1>7, <1>11
<1>12. CASE \E i \in 0..crumbs : \E j \in 0..2 : (i < crumbs \/ j = 0) /\ InCrumbs(file, written, frames, i, j)
  BY <1>8, <1>10, <1>12
<1>13. CASE traced /\ \E j \in 1..3 : InTrace(file, written, frames, crumbs, j)
  BY <1>9, <1>10, <1>13
<1> QED BY <1>6, <1>11, <1>12, <1>13 DEF Reached

\* The inductive invariant: without a cut the reader has what was written, and
\* without a trace there is nothing of an id in the file.
ReportInv ==
  /\ TypeOK
  /\ cuts = 0 => Reached(file, written, frames, crumbs, traced)
  /\ ~traced => \A i \in 1..Len(file) : file[i] # "id"

LEMMA ReportInvInit == Init => ReportInv
<1> SUFFICES ASSUME Init PROVE ReportInv  OBVIOUS
<1>1. TypeOK
  <2>1. /\ frames \in Nat /\ crumbs \in Nat /\ WriteCount = 2 + frames + 3 * crumbs + (IF traced THEN 3 ELSE 0)
    BY CrashReportAssumption DEF Init, WriteCount
  <2>2. 0 \in 0..WriteCount /\ << >> \in Seq(ReportToken)  BY <2>1
  <2> QED BY <2>2, CrashReportAssumption DEF Init, TypeOK
<1>2. Reached(file, written, frames, crumbs, traced)
  <2>1. Read(file) = Has(<< >>, << >>, << >>, << >>, << >>)  BY ReadNothing DEF Init, Unread, Has
  <2> QED BY <2>1 DEF Init, Reached, InName
<1>3. \A i \in 1..Len(file) : file[i] # "id"  BY DEF Init
<1> QED BY <1>1, <1>2, <1>3 DEF ReportInv

LEMMA ReportInvNext ==
  ASSUME ReportInv, WriteAll \/ WriteShort \/ Die
  PROVE  ReportInv'
<1>1. TypeOK /\ (cuts = 0 => Reached(file, written, frames, crumbs, traced))
      /\ (~traced => \A i \in 1..Len(file) : file[i] # "id")
  BY DEF ReportInv
<1>2. /\ frames \in Nat /\ crumbs \in Nat /\ traced \in BOOLEAN /\ written \in Nat /\ cuts \in Nat
      /\ file \in Seq(ReportToken) /\ WriteCount = 2 + frames + 3 * crumbs + (IF traced THEN 3 ELSE 0)
  BY <1>1, CrashReportAssumption DEF TypeOK, WriteCount
<1> DEFINE w == Write(written + 1)
<1>3. written < WriteCount => w \in Seq(ReportToken) /\ (~traced => \A i \in 1..Len(w) : w[i] # "id")
  <2> SUFFICES ASSUME written < WriteCount
               PROVE  w \in Seq(ReportToken) /\ (~traced => \A i \in 1..Len(w) : w[i] # "id")
    OBVIOUS
  <2>1. written + 1 \in 1..WriteCount  BY <1>2
  <2> QED BY <1>1, <2>1, WriteType
<1>4. CASE WriteAll
  <2>1. /\ written < WriteCount /\ file' = file \o w /\ written' = written + 1
        /\ frames' = frames /\ crumbs' = crumbs /\ traced' = traced /\ phase' = phase /\ cuts' = cuts
    BY <1>4 DEF WriteAll
  <2>2. cuts = 0 => Reached(file \o w, written + 1, frames, crumbs, traced)
    BY <1>1, <2>1, ReachedNext
  <2> HIDE DEF w
  <2>3. WriteCount' = WriteCount  BY <2>1 DEF WriteCount
  <2>4. file' \in Seq(ReportToken) /\ written' \in 0..WriteCount'  BY <1>2, <1>3, <2>1, <2>3
  <2>5. TypeOK'  BY <1>1, <2>1, <2>4 DEF TypeOK
  <2>6. ~traced => \A i \in 1..Len(file') : file'[i] # "id"  BY <1>1, <1>2, <1>3, <2>1
  <2> QED BY <2>1, <2>2, <2>5, <2>6 DEF ReportInv
<1>5. CASE WriteShort
  <2>1. /\ written < WriteCount /\ written' = written + 1 /\ cuts' = cuts + 1 /\ cuts < MaxCuts
        /\ frames' = frames /\ crumbs' = crumbs /\ traced' = traced /\ phase' = phase
    BY <1>5 DEF WriteShort
  <2>2. PICK n \in 0..(Len(w) - 1) : file' = file \o SubSeq(w, 1, n)  BY <1>5 DEF WriteShort
  <2> HIDE DEF w
  <2> DEFINE u == SubSeq(w, 1, n)
  <2>3. u \in Seq(ReportToken) /\ (~traced => \A i \in 1..Len(u) : u[i] # "id")
    <3>1. w \in Seq(ReportToken) /\ n \in Int /\ 1 \in Int /\ \A i \in 1..n : i \in 1..Len(w) /\ w[i] \in ReportToken
      BY <1>3, <2>1, <2>2
    <3>2. /\ u \in Seq(ReportToken) /\ Len(u) = (IF 1 <= n THEN n - 1 + 1 ELSE 0)
          /\ \A i \in 1..(n - 1 + 1) : u[i] = w[1 + i - 1]
      BY <3>1, SubSeqProperties
    <3>3. Len(u) = n /\ \A i \in 1..n : u[i] = w[i]
      <4> HIDE DEF u
      <4> QED BY <2>2, <3>1, <3>2
    <3> HIDE DEF u
    <3> QED BY <1>3, <2>1, <3>1, <3>2, <3>3
  <2> HIDE DEF u
  <2>4. file' = file \o u  BY <2>2 DEF u
  <2>5. WriteCount' = WriteCount  BY <2>1 DEF WriteCount
  <2>6. file' \in Seq(ReportToken) /\ written' \in 0..WriteCount' /\ cuts' \in 0..MaxCuts /\ cuts' # 0
    BY <1>2, <2>1, <2>3, <2>4, <2>5, CrashReportAssumption
  <2>7. TypeOK'  BY <1>1, <2>1, <2>6 DEF TypeOK
  <2>8. ~traced => \A i \in 1..Len(file') : file'[i] # "id"  BY <1>1, <1>2, <2>3, <2>4
  <2> QED BY <2>1, <2>6, <2>7, <2>8 DEF ReportInv
<1>6. CASE Die
  <2>1. /\ frames' = frames /\ crumbs' = crumbs /\ traced' = traced /\ phase' = "dead"
        /\ written' = written /\ file' = file /\ cuts' = cuts
    BY <1>6 DEF Die
  <2>2. WriteCount' = WriteCount  BY <2>1 DEF WriteCount
  <2>3. TypeOK'  BY <1>1, <2>1, <2>2 DEF TypeOK
  <2> QED BY <1>1, <2>1, <2>3 DEF ReportInv
<1> QED BY <1>4, <1>5, <1>6

LEMMA ReportInvStays ==
  ASSUME ReportInv, UNCHANGED <<frames, crumbs, traced, written, file, phase, cuts>>
  PROVE  ReportInv'
<1>1. WriteCount' = WriteCount  BY DEF WriteCount
<1>2. TypeOK'  BY <1>1 DEF ReportInv, TypeOK
<1> QED BY <1>2 DEF ReportInv

LEMMA ReportInvWhole ==
  ASSUME ReportInv
  PROVE  ReportReadsBackWhole
<1>1. TypeOK /\ (cuts = 0 => Reached(file, written, frames, crumbs, traced))
      /\ (~traced => \A i \in 1..Len(file) : file[i] # "id")
  BY DEF ReportInv
<1>2. frames \in Nat /\ crumbs \in Nat /\ file \in Seq(ReportToken) /\ traced \in BOOLEAN
  BY <1>1, CrashReportAssumption DEF TypeOK
<1>3. TraceIdWholeOrAbsent
  <2> DEFINE ids == {k \in 1..Len(file) : file[k] = "id"}
  <2>1. TraceFine(Read(file), ids) /\ Read(file) \in Report  BY <1>2, ReadFine, ReadType
  <2>2. ~traced => ids = {}  BY <1>1
  <2> HIDE DEF ids
  <2>3. TraceFine(Completed, ids)  BY <2>1, EndFine DEF Completed
  <2>4. Completed.trace = << >> \/ (traced /\ Completed.trace = <<TraceId>>)
    BY <2>2, <2>3 DEF TraceFine
  <2> QED BY <2>4 DEF TraceIdWholeOrAbsent
<1>4. cuts = 0 => CrumbsAreWhole /\ FramesAreFrames /\ NothingIsLost
  <2> SUFFICES ASSUME cuts = 0 PROVE CrumbsAreWhole /\ FramesAreFrames /\ NothingIsLost  OBVIOUS
  <2>1. PICK nm, ts : \E i \in 0..frames : \E k \in 0..crumbs : CompletedAs(nm, i, k, ts)
    BY <1>1, ReachedCompletes
  <2>2. PICK i \in 0..frames : \E k \in 0..crumbs : CompletedAs(nm, i, k, ts)  BY <2>1
  <2>3. PICK k \in 0..crumbs : CompletedAs(nm, i, k, ts)  BY <2>2
  <2> DEFINE fs == Repeated(Frame, i)
             cs == Repeated(Crumb, k)
  <2>4. i \in Nat /\ k \in Nat /\ i <= frames /\ k <= crumbs  BY <1>2
  <2>5. /\ Len(fs) = i /\ \A n \in 1..i : fs[n] = Frame
        /\ Len(cs) = k /\ \A n \in 1..k : cs[n] = Crumb /\ (k = 0 => cs = << >>)
    BY <2>4, RepeatedIs
  <2>6. Completed = Has(nm, << >>, fs, cs, ts)  BY <2>3 DEF CompletedAs
  <2>7. k = 0 => cs = << >>  BY <2>4, RepeatedIs
  <2> HIDE DEF fs, cs
  <2>8. Completed.name = nm /\ Completed.frames = fs /\ Completed.crumbs = cs /\ Completed.trace = ts
    BY <2>6 DEF Has
  <2>9. CrumbsAreWhole  BY <2>4, <2>5, <2>8 DEF CrumbsAreWhole
  <2>10. FramesAreFrames
    <3>1. nm \in {<< >>, <<Name>>} /\ (k > 0 \/ ts # << >> => i = frames)  BY <2>3 DEF CompletedAs
    <3>2. cs # << >> \/ ts # << >> => i = frames  BY <2>4, <2>7, <3>1
    <3> QED BY <2>4, <2>5, <2>8, <3>1, <3>2 DEF FramesAreFrames
  <2>11. NothingIsLost
    <3>1. written = WriteCount => nm = <<Name>> /\ i = frames /\ k = crumbs /\ ts = IF traced THEN <<TraceId>> ELSE << >>
      BY <2>3 DEF CompletedAs
    <3>2. Len(IF traced THEN <<TraceId>> ELSE << >>) = IF traced THEN 1 ELSE 0  OBVIOUS
    <3> QED BY <2>5, <2>8, <3>1, <3>2 DEF NothingIsLost
  <2> QED BY <2>9, <2>10, <2>11
<1>5. cuts # 0 => CrumbsAreWhole /\ FramesAreFrames /\ NothingIsLost
  BY DEF CrumbsAreWhole, FramesAreFrames, NothingIsLost
<1> QED BY <1>3, <1>4, <1>5 DEF ReportReadsBackWhole

\* Wherever the handler stops, and whatever of its writes were cut short, the
\* later run reads back entries, frames and a trace id that were there, each
\* whole, for reports of every length (signal_handler.c:157-206).
THEOREM ReportsReadBackWhole == Spec => []ReportReadsBackWhole
<1>1. ReportInv /\ [Next]_vars => ReportInv'
  <2> SUFFICES ASSUME ReportInv, [Next]_vars PROVE ReportInv'  OBVIOUS
  <2>1. CASE UNCHANGED vars  BY <2>1, ReportInvStays DEF vars
  <2>2. CASE WriteAll \/ WriteShort \/ Die  BY <2>2, ReportInvNext
  <2>3. CASE Terminated  BY <2>3, ReportInvStays DEF Terminated, vars
  <2> QED BY <2>1, <2>2, <2>3 DEF Next
<1> QED BY <1>1, ReportInvInit, ReportInvWhole, PTL DEF Spec

\* The same of the composition that the run checks.
THEOREM ScannedReportsReadBack == ScanSpec => []CrashReportsReadBack
<1>1. ScanInit => ReportInv
  <2>1. NoReport => ReportInv
    <3> SUFFICES ASSUME NoReport PROVE ReportInv  OBVIOUS
    <3>1. /\ frames = 0 /\ crumbs = 0 /\ traced = FALSE /\ written = 0
          /\ file = << >> /\ phase = "dead" /\ cuts = 0
      BY DEF NoReport
    <3>2. frames \in 0..MaxFrames /\ crumbs \in 0..MaxCrumbs /\ cuts \in 0..MaxCuts /\ written \in 0..WriteCount
      BY <3>1, CrashReportAssumption DEF WriteCount
    <3>3. TypeOK
      <4>1. << >> \in Seq(ReportToken) /\ FALSE \in BOOLEAN  OBVIOUS
      <4>2. file \in Seq(ReportToken) /\ traced \in BOOLEAN  BY <3>1, <4>1
      <4> QED BY <3>1, <3>2, <4>2 DEF TypeOK
    <3>4. Reached(file, written, frames, crumbs, traced)
      <4>1. Read(file) = Has(<< >>, << >>, << >>, << >>, << >>)
        BY <3>1, ReadNothing DEF Unread, Has
      <4> QED BY <3>1, <4>1 DEF Reached, InName
    <3>5. \A i \in 1..Len(file) : file[i] # "id"  BY <3>1
    <3> QED BY <3>3, <3>4, <3>5 DEF ReportInv
  <2> QED BY <2>1, ReportInvInit DEF ScanInit
<1>2. ReportInv /\ [ScanNext]_scanVars => ReportInv'
  <2> SUFFICES ASSUME ReportInv, [ScanNext]_scanVars PROVE ReportInv'  OBVIOUS
  <2>1. CASE UNCHANGED scanVars  BY <2>1, ReportInvStays DEF scanVars, reportVars, vars
  <2>2. CASE Grow  BY <2>2, ReportInvStays DEF Grow, reportVars, vars
  <2>3. CASE ReportStep  BY <2>3, ReportInvNext DEF ReportStep
  <2> QED BY <2>1, <2>2, <2>3 DEF ScanNext
<1>3. ReportInv => CrashReportsReadBack  BY ReportInvWhole DEF CrashReportsReadBack
<1> QED BY <1>1, <1>2, <1>3, PTL DEF ScanSpec


-----------------------------------------------------------------------------
(***************************************************************************)
(* Messages: the steps that normalize one replace what a regular           *)
(* expression of their shape finds.                                        *)
(***************************************************************************)

\* A step looks for the stretches of S: where one starts, match has the end of
\* the longest, and a scan that skips passes over none.
Finds(N, S, match, skip) ==
  /\ match \in [1..N -> Nat] /\ skip \in [1..N -> Nat]
  /\ \A p \in S : p = <<p[1], p[2]>> /\ p[1] \in 1..N /\ match[p[1]] # 0 /\ p[2] <= match[p[1]] /\ p[2] \in Nat
  /\ \A i \in 1..N : match[i] # 0 => match[i] \in (i + 1)..(N + 1) /\ <<i, match[i]>> \in S
  /\ \A i \in 1..N : match[i] = 0 =>
       skip[i] \in (i + 1)..(N + 1) /\ \A k \in i..(skip[i] - 1) : match[k] = 0

\* What the scan has found from i on.
ScansTo(s, match, skip, Rest) ==
  \A i \in 1..(Len(s) + 1) :
    Rest[i] = IF i > Len(s) THEN {}
              ELSE IF match[i] # 0 THEN {<<i, match[i]>>} \cup Rest[match[i]]
              ELSE Rest[skip[i]]

\* There is a function that the loop of a scan computes.
LEMMA ScanIs ==
  ASSUME NEW Char, NEW s \in Seq(Char), NEW S, NEW match, NEW skip, Finds(Len(s), S, match, skip)
  PROVE  \E Rest : ScansTo(s, match, skip, Rest) /\ Scan(s, match, skip) = Rest[1]
<1> DEFINE N == Len(s)
           D == 1..(N + 1)
           V == SUBSET (Nat \X Nat)
           rank == [i \in D |-> N + 1 - i]
           step == [i \in D |-> IF i > N THEN 0 ELSE IF match[i] # 0 THEN match[i] ELSE skip[i]]
           def == [i \in D |-> [v \in V |-> IF i > N THEN {}
                                            ELSE IF match[i] # 0 THEN {<<i, match[i]>>} \cup v ELSE v]]
           Is(f) == f = [i \in D |-> IF i > N THEN {}
                                     ELSE IF match[i] # 0 THEN {<<i, match[i]>>} \cup f[match[i]]
                                     ELSE f[skip[i]]]
           Rest == CHOOSE f : Is(f)
<1>1. N \in Nat  OBVIOUS
<1>2. /\ \A i \in 1..N : match[i] \in Nat
      /\ \A i \in 1..N : match[i] # 0 => match[i] \in (i + 1)..(N + 1)
      /\ \A i \in 1..N : match[i] = 0 => skip[i] \in (i + 1)..(N + 1)
  BY DEF Finds
<1>3. Scan(s, match, skip) = Rest[1]  BY DEF Scan
<1> HIDE DEF N
<1>4. Descends(step, rank, D)
  <2>1. rank \in [D -> Nat] /\ \A i \in D : rank[i] = N + 1 - i  BY <1>1
  <2>2. \A i \in D : step[i] \in D => step[i] > i  BY <1>1, <1>2
  <2> HIDE DEF rank, step
  <2> QED BY <1>1, <2>1, <2>2 DEF Descends
<1>5. def \in [D -> [V -> V]]
  <2> SUFFICES ASSUME NEW i \in D, NEW v \in V
               PROVE  (IF i > N THEN {} ELSE IF match[i] # 0 THEN {<<i, match[i]>>} \cup v ELSE v) \in V
    OBVIOUS
  <2>1. i <= N => <<i, match[i]>> \in Nat \X Nat  BY <1>1, <1>2
  <2> QED BY <1>1, <2>1
<1>6. PICK f : Recursive(f, D, V, {}, step, def)
  <2>1. {} \in V  OBVIOUS
  <2> HIDE DEF D, V, rank, step, def
  <2> QED BY <1>4, <1>5, <2>1, RecursiveFunction
<1>7. f \in [D -> V]  BY <1>6 DEF Recursive
<1>8. ASSUME NEW i \in D
      PROVE  f[i] = IF i > N THEN {}
                    ELSE IF match[i] # 0 THEN {<<i, match[i]>>} \cup f[match[i]] ELSE f[skip[i]]
  <2> DEFINE v == IF step[i] \in D THEN f[step[i]] ELSE {}
  <2>1. f[i] = def[i][v]  BY <1>6 DEF Recursive
  <2>2. \A w \in V : def[i][w] = IF i > N THEN {} ELSE IF match[i] # 0 THEN {<<i, match[i]>>} \cup w ELSE w
    OBVIOUS
  <2>3. v \in V  BY <1>7
  <2>4. step[i] = IF i > N THEN 0 ELSE IF match[i] # 0 THEN match[i] ELSE skip[i]  OBVIOUS
  <2>5. i <= N => step[i] \in D  BY <1>1, <1>2, <2>4
  <2> HIDE DEF def, V, step
  <2>6. f[i] = IF i > N THEN {} ELSE IF match[i] # 0 THEN {<<i, match[i]>>} \cup v ELSE v
    <3> HIDE DEF v
    <3> QED BY <2>1, <2>2, <2>3
  <2>7. CASE i > N  BY <2>6, <2>7
  <2>8. CASE ~(i > N) /\ match[i] # 0
    <3>1. v = f[match[i]]  BY <1>1, <2>4, <2>5, <2>8
    <3> QED BY <2>6, <2>8, <3>1
  <2>9. CASE ~(i > N) /\ match[i] = 0
    <3>1. v = f[skip[i]]  BY <1>1, <2>4, <2>5, <2>9
    <3> QED BY <2>6, <2>9, <3>1
  <2> QED BY <2>7, <2>8, <2>9
<1>9. Is(f)
  <2> HIDE DEF D, V
  <2> QED BY <1>7, <1>8
<1>10. Is(Rest)  BY <1>9
<1> HIDE DEF Rest
<1>11. ScansTo(s, match, skip, Rest)  BY <1>10 DEF ScansTo, N
<1> QED BY <1>3, <1>11

\* Where nothing taken reaches over i, the scan finds from i on what is taken.
LEMMA ScanFinds ==
  ASSUME NEW Char, NEW s \in Seq(Char), NEW S, NEW match, NEW skip, Finds(Len(s), S, match, skip)
  PROVE  Scan(s, match, skip) = LeftToRight(Longest(S))
<1> DEFINE N == Len(s)
           P == Longest(S)
           T == LeftToRight(P)
<1>1. N \in Nat  OBVIOUS
<1>2. PICK Rest : ScansTo(s, match, skip, Rest) /\ Scan(s, match, skip) = Rest[1]  BY ScanIs
<1>3. /\ \A i \in 1..N : match[i] \in Nat /\ skip[i] \in Nat
      /\ \A i \in 1..N : match[i] # 0 => match[i] \in (i + 1)..(N + 1)
      /\ \A i \in 1..N : match[i] = 0 => skip[i] \in (i + 1)..(N + 1) /\ \A k \in i..(skip[i] - 1) : match[k] = 0
  BY DEF Finds
<1>4. \A i \in 1..(N + 1) :
        Rest[i] = IF i > N THEN {}
                  ELSE IF match[i] # 0 THEN {<<i, match[i]>>} \cup Rest[match[i]]
                  ELSE Rest[skip[i]]
  BY <1>2 DEF ScansTo
<1>5. \A p \in P : p[1] \in 1..N /\ match[p[1]] # 0 /\ p = <<p[1], match[p[1]]>>
  <2> TAKE p \in P
  <2>1. p \in S /\ \A q \in S : q[1] = p[1] => q[2] <= p[2]  BY DEF Longest
  <2>2. p = <<p[1], p[2]>> /\ p[1] \in 1..N /\ match[p[1]] # 0 /\ p[2] <= match[p[1]] /\ p[2] \in Nat
    BY <2>1 DEF Finds
  <2>3. <<p[1], match[p[1]]>> \in S  BY <2>2 DEF Finds
  <2>4. match[p[1]] <= p[2]  BY <2>1, <2>3
  <2>5. match[p[1]] = p[2]  BY <1>3, <2>2, <2>4
  <2> QED BY <2>2, <2>5
<1>6. \A i \in 1..N : match[i] # 0 => <<i, match[i]>> \in P
  <2> TAKE i \in 1..N
  <2> SUFFICES ASSUME match[i] # 0 PROVE <<i, match[i]>> \in P  OBVIOUS
  <2>1. <<i, match[i]>> \in S  BY DEF Finds
  <2>2. \A q \in S : q[1] = i => q[2] <= match[i]  BY DEF Finds
  <2> QED BY <2>1, <2>2 DEF Longest
<1> HIDE DEF N, P
<1>7. Met(P, T)  BY <1>1, <1>5, LeftToRightIs
<1> HIDE DEF T
<1>8. /\ \A q \in T : q[1] \in 1..N /\ match[q[1]] # 0 /\ q = <<q[1], match[q[1]]>>
      /\ \A i \in 1..N : match[i] # 0 => (<<i, match[i]>> \in T <=> ~Covered(T, i))
  BY <1>5, <1>6, <1>7 DEF Met
<1> DEFINE Onwards(i) == {p \in T : p[1] >= i}
           Good(i) == ~Covered(T, i) => Rest[i] = Onwards(i)
           rank == [i \in 1..(N + 1) |-> N + 1 - i]
<1>9. \A i \in 1..(N + 1) : Good(i)
  <2> DEFINE Bad == {i \in 1..(N + 1) : ~Good(i)}
  <2> SUFFICES ASSUME Bad # {} PROVE FALSE  OBVIOUS
  <2>1. PICK i \in Bad : \A k \in 1..(N + 1) : rank[k] < rank[i] => k \notin Bad
    <3>1. Bad \subseteq 1..(N + 1) /\ rank \in [1..(N + 1) -> Nat]  BY <1>1
    <3> HIDE DEF Bad, rank
    <3> QED BY <3>1, LeastRank
  <2>2. i \in 1..(N + 1) /\ ~Covered(T, i) /\ Rest[i] # Onwards(i)  BY <2>1
  <2>3. \A k \in 1..(N + 1) : k > i /\ ~Covered(T, k) => Rest[k] = Onwards(k)
    <3> TAKE k \in 1..(N + 1)
    <3>1. k > i => rank[k] < rank[i]  BY <1>1, <2>2
    <3> HIDE DEF rank
    <3> QED BY <2>1, <3>1
  <2> HIDE DEF Bad, rank
  <2>4. CASE i > N
    <3>1. Rest[i] = {}  BY <1>4, <2>2, <2>4
    <3>2. Onwards(i) = {}  BY <1>1, <1>8, <2>2, <2>4
    <3> QED BY <2>2, <3>1, <3>2
  <2>5. CASE ~(i > N) /\ match[i] # 0
    <3> DEFINE m == match[i]
    <3>1. i \in 1..N /\ m \in (i + 1)..(N + 1) /\ <<i, m>> \in T  BY <1>1, <1>3, <1>8, <2>2, <2>5
    <3> HIDE DEF m
    <3>2. \A q \in T : q[1] > i => q[1] >= m
      <4> SUFFICES ASSUME NEW q \in T, q[1] > i, q[1] < m PROVE FALSE  BY <1>1, <1>8, <3>1
      <4>1. Covered(T, q[1])  BY <1>8, <3>1 DEF Covered
      <4> QED BY <1>8, <4>1
    <3>3. ~Covered(T, m)
      <4> SUFFICES ASSUME NEW q \in T, q[1] < m, m < q[2] PROVE FALSE  BY DEF Covered
      <4>1. q[1] \in 1..N /\ q[2] = match[q[1]] /\ match[q[1]] \in Nat  BY <1>3, <1>8
      <4>2. q[1] # i  BY <3>1, <4>1 DEF m
      <4>3. q[1] < i  BY <1>1, <3>1, <3>2, <4>1, <4>2
      <4>4. i < q[2]  BY <1>1, <3>1, <4>1
      <4> QED BY <2>2, <4>3, <4>4 DEF Covered
    <3>4. Rest[m] = Onwards(m)  BY <1>1, <2>3, <3>1, <3>3
    <3>5. Rest[i] = {<<i, m>>} \cup Onwards(m)  BY <1>4, <2>2, <2>5, <3>4 DEF m
    <3>6. Onwards(i) = {<<i, m>>} \cup Onwards(m)
      <4>1. \A q \in T : q[1] \in Nat /\ (q[1] = i => q = <<i, m>>)  BY <1>1, <1>8 DEF m
      <4> QED BY <1>1, <3>1, <3>2, <4>1
    <3> QED BY <2>2, <3>5, <3>6
  <2>6. CASE ~(i > N) /\ match[i] = 0
    <3> DEFINE k == skip[i]
    <3>1. i \in 1..N /\ k \in (i + 1)..(N + 1) /\ \A j \in i..(k - 1) : match[j] = 0
      BY <1>1, <1>3, <2>2, <2>6
    <3> HIDE DEF k
    <3>2. \A q \in T : q[1] >= i => q[1] >= k  BY <1>1, <1>8, <3>1
    <3>3. ~Covered(T, k)
      <4> SUFFICES ASSUME NEW q \in T, q[1] < k, k < q[2] PROVE FALSE  BY DEF Covered
      <4>1. q[1] \in 1..N /\ q[2] = match[q[1]] /\ match[q[1]] \in Nat  BY <1>3, <1>8
      <4>2. q[1] < i /\ i < q[2]  BY <1>1, <3>1, <3>2, <4>1
      <4> QED BY <2>2, <4>2 DEF Covered
    <3>4. Rest[k] = Onwards(k)  BY <1>1, <2>3, <3>1, <3>3
    <3>5. Rest[i] = Onwards(k)  BY <1>4, <2>2, <2>6, <3>4 DEF k
    <3>6. Onwards(i) = Onwards(k)
      <4>1. \A q \in T : q[1] \in Nat  BY <1>1, <1>8
      <4> QED BY <1>1, <3>1, <3>2, <4>1
    <3> QED BY <2>2, <3>5, <3>6
  <2> QED BY <2>4, <2>5, <2>6
<1>10. 1 \in 1..(N + 1) /\ ~Covered(T, 1) /\ Onwards(1) = T  BY <1>1, <1>8 DEF Covered
<1>11. Rest[1] = T  BY <1>9, <1>10
<1> QED BY <1>2, <1>11 DEF T, P

\* A text with marks put in is a text.
LEMMA ReplaceType ==
  ASSUME NEW Char, NEW s \in Seq(Char), NEW stretches, NEW mark
  PROVE  Replace(s, stretches, mark) \in Seq(Char \cup {mark})
<1> DEFINE N == Len(s)
           D == 0..N
           V == Seq(Char \cup {mark})
           Hidden(n) == \E p \in stretches : p[1] < n /\ n < p[2]
           c(n) == IF \E p \in stretches : p[1] = n THEN mark ELSE s[n]
           rank == [n \in D |-> n]
           step == [n \in D |-> n - 1]
           def == [n \in D |-> [v \in V |-> IF n = 0 THEN << >> ELSE IF Hidden(n) THEN v ELSE Append(v, c(n))]]
           Is(f) == f = [n \in D |-> IF n = 0 THEN << >>
                                     ELSE IF Hidden(n) THEN f[n - 1] ELSE Append(f[n - 1], c(n))]
           Replaced == CHOOSE f : Is(f)
<1>1. N \in Nat /\ \A n \in 1..N : c(n) \in Char \cup {mark}  OBVIOUS
<1>2. Replace(s, stretches, mark) = Replaced[N]  BY DEF Replace
<1> HIDE DEF N, c, Hidden
<1>3. Descends(step, rank, D)
  <2>1. rank \in [D -> Nat] /\ \A n \in D : rank[n] = n /\ step[n] = n - 1  BY <1>1
  <2> HIDE DEF rank, step
  <2> QED BY <1>1, <2>1 DEF Descends
<1>4. def \in [D -> [V -> V]]
  <2> SUFFICES ASSUME NEW n \in D, NEW v \in V
               PROVE  (IF n = 0 THEN << >> ELSE IF Hidden(n) THEN v ELSE Append(v, c(n))) \in V
    OBVIOUS
  <2>1. n # 0 => Append(v, c(n)) \in V
    <3>1. n # 0 => n \in 1..N  BY <1>1
    <3> QED BY <1>1, <3>1
  <2> QED BY <2>1
<1>5. PICK f : Recursive(f, D, V, << >>, step, def)
  <2>1. << >> \in V  OBVIOUS
  <2> HIDE DEF D, V, rank, step, def
  <2> QED BY <1>3, <1>4, <2>1, RecursiveFunction
<1>6. f \in [D -> V]  BY <1>5 DEF Recursive
<1>7. ASSUME NEW n \in D
      PROVE  f[n] = IF n = 0 THEN << >> ELSE IF Hidden(n) THEN f[n - 1] ELSE Append(f[n - 1], c(n))
  <2> DEFINE v == IF step[n] \in D THEN f[step[n]] ELSE << >>
  <2>1. f[n] = def[n][v]  BY <1>5 DEF Recursive
  <2>2. \A w \in V : def[n][w] = IF n = 0 THEN << >> ELSE IF Hidden(n) THEN w ELSE Append(w, c(n))
    OBVIOUS
  <2>3. << >> \in V  OBVIOUS
  <2>4. step[n] = n - 1 /\ (n # 0 => n - 1 \in D)  BY <1>1
  <2> HIDE DEF def, V, step
  <2>5. v \in V /\ (n # 0 => v = f[n - 1])  BY <1>6, <2>3, <2>4
  <2> HIDE DEF v
  <2>6. f[n] = IF n = 0 THEN << >> ELSE IF Hidden(n) THEN v ELSE Append(v, c(n))
    BY <2>1, <2>2, <2>5
  <2> QED BY <2>5, <2>6
<1>8. Is(f)
  <2> HIDE DEF D, V
  <2> QED BY <1>6, <1>7
<1>9. Is(Replaced)  BY <1>8
<1> HIDE DEF Replaced
<1>10. \A n \in D : Replaced[n] = IF n = 0 THEN << >> ELSE IF Hidden(n) THEN Replaced[n - 1] ELSE Append(Replaced[n - 1], c(n))
  BY <1>9
<1>11. \A n \in D : Replaced[n] \in V
  <2> DEFINE Bad == {n \in D : Replaced[n] \notin V}
  <2> SUFFICES ASSUME Bad # {} PROVE FALSE  OBVIOUS
  <2>1. PICK n \in Bad : \A m \in Bad : n <= m
    <3>1. Bad \subseteq Nat  BY <1>1
    <3> HIDE DEF Bad
    <3> QED BY <3>1, LeastNatural
  <2>2. n \in D /\ Replaced[n] \notin V  BY <2>1
  <2>3. CASE n = 0
    <3>1. Replaced[n] = << >>  BY <1>10, <2>2, <2>3
    <3> QED BY <2>2, <3>1
  <2>4. CASE n # 0
    <3>1. n \in 1..N /\ n - 1 \in D /\ n - 1 \notin Bad  BY <1>1, <2>1, <2>2, <2>4
    <3>2. Replaced[n - 1] \in V  BY <3>1
    <3>3. Append(Replaced[n - 1], c(n)) \in V  BY <1>1, <3>1, <3>2
    <3> HIDE DEF V
    <3> QED BY <1>10, <2>2, <2>4, <3>2, <3>3
  <2> QED BY <2>3, <2>4
<1> QED BY <1>1, <1>2, <1>11

\* The characters of a stretch.
Holds(Char, t, s, b, e) ==
  t \in Seq(Char) /\ Len(t) = e - b /\ \A k \in 1..(e - b) : t[k] = s[b + k - 1]

LEMMA SliceIs ==
  ASSUME NEW Char, NEW s \in Seq(Char), NEW b \in 1..(Len(s) + 1), NEW e \in b..(Len(s) + 1)
  PROVE  Holds(Char, Slice(s, b, e), s, b, e)
<1> DEFINE t == Slice(s, b, e)
<1>1. Len(s) \in Nat /\ b \in Int /\ e - 1 \in Int /\ \A i \in b..(e - 1) : s[i] \in Char  OBVIOUS
<1>2. t = SubSeq(s, b, e - 1)  BY DEF Slice
<1> HIDE DEF t
<1>3. /\ t \in Seq(Char) /\ Len(t) = (IF b <= e - 1 THEN (e - 1) - b + 1 ELSE 0)
      /\ \A i \in 1..((e - 1) - b + 1) : t[i] = s[b + i - 1]
  BY <1>1, <1>2, SubSeqProperties
<1>4. (e - 1) - b + 1 = e - b /\ (b <= e - 1 \/ e - b = 0)  OBVIOUS
<1> QED BY <1>3, <1>4 DEF t, Holds

\* They are all of a class.
LEMMA SliceOf ==
  ASSUME NEW Char, NEW s \in Seq(Char), NEW b \in 1..(Len(s) + 1), NEW e \in b..(Len(s) + 1), NEW class
  PROVE  ToSet(Slice(s, b, e)) \subseteq class <=> \A k \in b..(e - 1) : s[k] \in class
<1> DEFINE t == Slice(s, b, e)
<1>1. t \in Seq(Char) /\ Len(t) = e - b /\ \A k \in 1..(e - b) : t[k] = s[b + k - 1]
  BY SliceIs DEF Holds
<1> HIDE DEF t
<1>2. DOMAIN t = 1..(e - b)  BY <1>1
<1>3. ToSet(t) \subseteq class <=> \A k \in 1..(e - b) : t[k] \in class  BY <1>2 DEF ToSet
<1>4. ASSUME \A k \in 1..(e - b) : t[k] \in class, NEW k \in b..(e - 1)
      PROVE  s[k] \in class
  <2>1. k - b + 1 \in 1..(e - b) /\ b + (k - b + 1) - 1 = k  OBVIOUS
  <2> QED BY <1>1, <1>4, <2>1
<1>5. ASSUME \A k \in b..(e - 1) : s[k] \in class, NEW k \in 1..(e - b)
      PROVE  t[k] \in class
  <2>1. b + k - 1 \in b..(e - 1)  OBVIOUS
  <2> QED BY <1>1, <1>5, <2>1
<1> QED BY <1>3, <1>4, <1>5 DEF t

\* A stretch of a stretch.
LEMMA SliceOfSlice ==
  ASSUME NEW Char, NEW s \in Seq(Char), NEW i \in 1..(Len(s) + 1), NEW e \in i..(Len(s) + 1),
         NEW b \in 1..(e - i + 1), NEW f \in b..(e - i + 1)
  PROVE  Slice(Slice(s, i, e), b, f) = Slice(s, i + b - 1, i + f - 1)
<1> DEFINE t == Slice(s, i, e)
           u == Slice(t, b, f)
           w == Slice(s, i + b - 1, i + f - 1)
<1>1. t \in Seq(Char) /\ Len(t) = e - i /\ \A k \in 1..(e - i) : t[k] = s[i + k - 1]
  BY SliceIs DEF Holds
<1>2. u \in Seq(Char) /\ Len(u) = f - b /\ \A k \in 1..(f - b) : u[k] = t[b + k - 1]
  <2>1. b \in 1..(Len(t) + 1) /\ f \in b..(Len(t) + 1)  BY <1>1
  <2> HIDE DEF t
  <2>2. Holds(Char, Slice(t, b, f), t, b, f)  BY <1>1, <2>1, SliceIs
  <2> QED BY <2>2 DEF Holds
<1>3. w \in Seq(Char) /\ Len(w) = (i + f - 1) - (i + b - 1) /\ \A k \in 1..((i + f - 1) - (i + b - 1)) : w[k] = s[(i + b - 1) + k - 1]
  <2>1. i + b - 1 \in 1..(Len(s) + 1) /\ i + f - 1 \in (i + b - 1)..(Len(s) + 1)  OBVIOUS
  <2>2. Holds(Char, Slice(s, i + b - 1, i + f - 1), s, i + b - 1, i + f - 1)  BY <2>1, SliceIs
  <2> QED BY <2>2 DEF Holds
<1>4. (i + f - 1) - (i + b - 1) = f - b  OBVIOUS
<1> HIDE DEF t, u, w
<1>5. ASSUME NEW k \in 1..(f - b) PROVE u[k] = w[k]
  <2>1. b + k - 1 \in 1..(e - i) /\ i + (b + k - 1) - 1 = (i + b - 1) + k - 1  OBVIOUS
  <2> QED BY <1>1, <1>2, <1>3, <1>4, <2>1
<1>6. u = w  BY <1>2, <1>3, <1>4, <1>5, SeqEqual
<1> QED BY <1>6 DEF t, u, w

\* Stretches of a shape, as the scans look for them.
LEMMA StretchIs ==
  ASSUME NEW Char, NEW s \in Seq(Char), NEW i \in 1..Len(s), NEW e \in (i + 1)..(Len(s) + 1)
  PROVE  /\ i \in 1..(Len(s) + 1) /\ e \in i..(Len(s) + 1)
         /\ Slice(s, i, e) \in Seq(Char) /\ Len(Slice(s, i, e)) = e - i
         /\ \A k \in 1..(e - i) : Slice(s, i, e)[k] = s[i + k - 1]
         /\ Slice(s, i, e)[1] = s[i] /\ Last(Slice(s, i, e)) = s[e - 1]
<1> DEFINE t == Slice(s, i, e)
<1>1. i \in 1..(Len(s) + 1) /\ e \in i..(Len(s) + 1)  OBVIOUS
<1>2. t \in Seq(Char) /\ Len(t) = e - i /\ \A k \in 1..(e - i) : t[k] = s[i + k - 1]
  BY <1>1, SliceIs DEF Holds
<1> HIDE DEF t
<1>3. 1 \in 1..(e - i) /\ e - i \in 1..(e - i) /\ i + 1 - 1 = i /\ i + (e - i) - 1 = e - 1  BY <1>1
<1>4. t[1] = s[i] /\ t[e - i] = s[e - 1]  BY <1>2, <1>3
<1> QED BY <1>1, <1>2, <1>4 DEF t, Last

LEMMA HexShapeIs ==
  ASSUME NEW Char, NEW s \in Seq(Char), NEW i \in 1..Len(s), NEW e \in (i + 1)..(Len(s) + 1)
  PROVE  HexShape(Slice(s, i, e)) <=>
           /\ e >= i + 6 /\ s[i] = "0" /\ s[i + 1] = "x"
           /\ \A k \in (i + 2)..(e - 1) : s[k] \in HexDigit
<1> DEFINE t == Slice(s, i, e)
<1>1. /\ i \in 1..(Len(s) + 1) /\ e \in i..(Len(s) + 1)
      /\ t \in Seq(Char) /\ Len(t) = e - i /\ \A k \in 1..(e - i) : t[k] = s[i + k - 1]
  BY StretchIs
<1>2. ASSUME e >= i + 6
      PROVE  /\ t[1] = s[i] /\ t[2] = s[i + 1]
             /\ ToSet(SubSeq(t, 3, Len(t))) \subseteq HexDigit <=> \A k \in (i + 2)..(e - 1) : s[k] \in HexDigit
  <2>1. 1 \in 1..(e - i) /\ 2 \in 1..(e - i) /\ i + 1 - 1 = i /\ i + 2 - 1 = i + 1  BY <1>2
  <2>2. t[1] = s[i] /\ t[2] = s[i + 1]  BY <1>1, <2>1
  <2>3. 3 \in 1..(e - i + 1) /\ e - i + 1 \in 3..(e - i + 1) /\ i + 3 - 1 = i + 2 /\ i + (e - i + 1) - 1 = e
        /\ (e - i + 1) - 1 = e - i
    BY <1>2
  <2>4. Slice(t, 3, e - i + 1) = Slice(s, i + 3 - 1, i + (e - i + 1) - 1)
    <3> DEFINE f == e - i + 1
    <3>1. 3 \in 1..(e - i + 1) /\ f \in 3..(e - i + 1)  BY <2>3
    <3> HIDE DEF f
    <3>2. Slice(Slice(s, i, e), 3, f) = Slice(s, i + 3 - 1, i + f - 1)  BY <1>1, <3>1, SliceOfSlice
    <3> QED BY <3>2 DEF f
  <2>5. SubSeq(t, 3, Len(t)) = Slice(s, i + 2, e)  BY <1>1, <2>3, <2>4 DEF Slice
  <2>6. i + 2 \in 1..(Len(s) + 1) /\ e \in (i + 2)..(Len(s) + 1)  BY <1>2
  <2> HIDE DEF t
  <2> QED BY <2>2, <2>5, <2>6, SliceOf
<1>3. HexShape(t) <=> e >= i + 6 /\ t[1] = "0" /\ t[2] = "x" /\ ToSet(SubSeq(t, 3, Len(t))) \subseteq HexDigit
  <2>1. Len(t) >= 6 <=> e >= i + 6  BY <1>1
  <2> HIDE DEF t
  <2> QED BY <2>1 DEF HexShape
<1> HIDE DEF t
<1> QED BY <1>2, <1>3 DEF t

LEMMA HexFound ==
  ASSUME NEW Char, NEW s \in Seq(Char)
  PROVE  HexObjectIds(s) = LeftToRight(Longest(Shaped(s, HexShape)))
<1> DEFINE N == Len(s)
           match == [i \in DOMAIN s |-> HexAt(s, i)]
           skip == OneByOne(s)
           S == Shaped(s, HexShape)
           end(i) == RunEnd(s, i + 2, HexDigit)
<1>1. N \in Nat /\ DOMAIN s = 1..N /\ \A k \in 1..N : At(s, k) = s[k]  BY DEF At
<1>2. skip \in [1..N -> Nat] /\ \A i \in 1..N : skip[i] = i + 1  BY <1>1 DEF OneByOne
<1>3. ASSUME NEW i \in 1..N
      PROVE  /\ match[i] # 0 => match[i] \in (i + 1)..(N + 1) /\ <<i, match[i]>> \in S
             /\ match[i] \in Nat
             /\ \A e \in (i + 1)..(N + 1) : HexShape(Slice(s, i, e)) => match[i] # 0 /\ e <= match[i]
  <2>1. match[i] = IF s[i] = "0" /\ At(s, i + 1) = "x" /\ end(i) >= i + 6 THEN end(i) ELSE 0
    BY <1>1 DEF HexAt
  <2> HIDE DEF match
  <2>2. CASE At(s, i + 1) # "x"
    <3>1. match[i] = 0  BY <2>1, <2>2
    <3>2. ASSUME NEW e \in (i + 1)..(N + 1), HexShape(Slice(s, i, e)) PROVE FALSE
      <4>1. e >= i + 6 /\ s[i + 1] = "x"  BY <3>2, HexShapeIs
      <4>2. i + 1 \in 1..N  BY <1>1, <4>1
      <4> QED BY <1>1, <2>2, <4>1, <4>2
    <3> QED BY <3>1, <3>2
  <2>3. CASE At(s, i + 1) = "x"
    <3>1. i + 1 \in 1..N  BY <1>1, <2>3 DEF At
    <3>2. i + 2 \in 1..(N + 1) /\ "end" \notin HexDigit  BY <1>1, <3>1 DEF HexDigit, StrictDigit
    <3>3. /\ end(i) \in (i + 2)..(N + 1)
          /\ \A j \in (i + 2)..(end(i) - 1) : j \in 1..N /\ s[j] \in HexDigit
          /\ At(s, end(i)) \notin HexDigit
      BY <3>2, RunEndIs
    <3> HIDE DEF end
    <3>4. ASSUME match[i] # 0
          PROVE  match[i] \in (i + 1)..(N + 1) /\ <<i, match[i]>> \in S
      <4>1. s[i] = "0" /\ end(i) >= i + 6 /\ match[i] = end(i) /\ s[i + 1] = "x"
        BY <1>1, <2>1, <2>3, <3>1, <3>4
      <4>2. end(i) \in (i + 1)..(N + 1)  BY <1>1, <3>3
      <4>3. HexShape(Slice(s, i, end(i)))  BY <3>3, <4>1, <4>2, HexShapeIs
      <4>4. <<i, end(i)>> \in (1..N) \X (2..(N + 1)) /\ i < end(i)  BY <1>1, <4>2
      <4>5. <<i, end(i)>> \in S  BY <4>3, <4>4 DEF Shaped
      <4> QED BY <4>1, <4>2, <4>5
    <3>5. ASSUME NEW e \in (i + 1)..(N + 1), HexShape(Slice(s, i, e))
          PROVE  match[i] # 0 /\ e <= match[i]
      <4>1. e >= i + 6 /\ s[i] = "0" /\ \A k \in (i + 2)..(e - 1) : s[k] \in HexDigit
        BY <3>5, HexShapeIs
      <4>2. ~(end(i) < e)
        <5> SUFFICES ASSUME end(i) < e PROVE FALSE  OBVIOUS
        <5>1. end(i) \in (i + 2)..(e - 1) /\ end(i) \in 1..N  BY <1>1, <3>3
        <5> QED BY <1>1, <3>3, <4>1, <5>1
      <4>3. end(i) >= i + 6 /\ end(i) # 0 /\ e <= end(i)  BY <1>1, <3>3, <4>1, <4>2
      <4> QED BY <2>1, <2>3, <4>1, <4>3
    <3>6. match[i] \in Nat  BY <1>1, <2>1, <3>3
    <3> QED BY <3>4, <3>5, <3>6
  <2> QED BY <2>2, <2>3
<1>4. match \in [1..N -> Nat]
  <2>1. DOMAIN match = 1..N /\ match = [i \in 1..N |-> match[i]]  BY <1>1
  <2> HIDE DEF match
  <2> QED BY <1>3, <2>1
<1> HIDE DEF match, skip
<1>5. ASSUME NEW p \in S
      PROVE  p = <<p[1], p[2]>> /\ p[1] \in 1..N /\ match[p[1]] # 0 /\ p[2] <= match[p[1]] /\ p[2] \in Nat
  <2>1. p \in (1..N) \X (2..(N + 1)) /\ p[1] < p[2] /\ HexShape(Slice(s, p[1], p[2]))  BY DEF Shaped
  <2>2. p = <<p[1], p[2]>> /\ p[1] \in 1..N /\ p[2] \in (p[1] + 1)..(N + 1) /\ p[2] \in Nat
    BY <1>1, <2>1
  <2> QED BY <1>3, <2>1, <2>2
<1>6. \A i \in 1..N : skip[i] \in (i + 1)..(N + 1) /\ \A k \in i..(skip[i] - 1) : k = i
  BY <1>1, <1>2
<1>7. Finds(N, S, match, skip)
  <2> HIDE DEF S
  <2> QED BY <1>2, <1>3, <1>4, <1>5, <1>6 DEF Finds
<1>8. Scan(s, match, skip) = LeftToRight(Longest(S))
  <2> HIDE DEF S
  <2> QED BY <1>7, ScanFinds
<1> QED BY <1>8 DEF HexObjectIds, match, skip

\* The greater of two positions.
LEMMA MaxOfTwo ==
  ASSUME NEW a \in Nat, NEW b \in Nat
  PROVE  Max({a, b}) \in {a, b} /\ a <= Max({a, b}) /\ b <= Max({a, b})
<1>1. \E x \in {a, b} : \A y \in {a, b} : x >= y
  <2>1. CASE a >= b  BY <2>1
  <2>2. CASE ~(a >= b)  BY <2>2
  <2> QED BY <2>1, <2>2
<1>2. Max({a, b}) \in {a, b} /\ \A y \in {a, b} : Max({a, b}) >= y  BY <1>1 DEF Max
<1> HIDE DEF Max
<1>3. Max({a, b}) \in Nat  BY <1>2
<1> QED BY <1>2, <1>3

\* What a shape that stands alone is looked for in.
LEMMA NumbersFound ==
  ASSUME NEW Char, NEW s \in Seq(Char)
  PROVE  Numbers(s) =
           LeftToRight(Longest({p \in Shaped(s, LAMBDA t : ToSet(t) \subseteq StrictDigit) : StandsAlone(s, p, StrictWord)}))
<1> DEFINE N == Len(s)
           match == [i \in DOMAIN s |-> NumberAt(s, i)]
           skip == [i \in DOMAIN s |-> Max({i + 1, RunEnd(s, i, StrictDigit)})]
           S == {p \in Shaped(s, LAMBDA t : ToSet(t) \subseteq StrictDigit) : StandsAlone(s, p, StrictWord)}
           end(i) == RunEnd(s, i, StrictDigit)
           Alone(i, e) == At(s, i - 1) \notin StrictWord /\ At(s, e) \notin StrictWord
<1>1. N \in Nat /\ DOMAIN s = 1..N /\ \A k \in 1..N : At(s, k) = s[k]  BY DEF At
<1>2. "end" \notin StrictDigit /\ StrictDigit \subseteq StrictWord
  BY DEF StrictDigit, StrictWord, Alpha
<1>3. ASSUME NEW i \in 1..N
      PROVE  /\ end(i) \in i..(N + 1)
             /\ \A j \in i..(end(i) - 1) : j \in 1..N /\ s[j] \in StrictDigit
             /\ match[i] = IF end(i) > i /\ Alone(i, end(i)) THEN end(i) ELSE 0
             /\ skip[i] = Max({i + 1, end(i)})
  <2>1. i \in 1..(N + 1)  BY <1>1
  <2>2. /\ end(i) \in i..(N + 1)
        /\ \A j \in i..(end(i) - 1) : j \in 1..N /\ s[j] \in StrictDigit
    BY <1>2, <2>1, RunEndIs
  <2>3. match[i] = IF end(i) > i /\ Alone(i, end(i)) THEN end(i) ELSE 0
    BY <1>1 DEF NumberAt, StandsAlone
  <2> QED BY <1>1, <2>2, <2>3
<1>4. match = [i \in 1..N |-> match[i]] /\ skip = [i \in 1..N |-> skip[i]]  BY <1>1
<1>5. \A p : p \in S <=> /\ p \in (1..N) \X (2..(N + 1)) /\ p[1] < p[2]
                         /\ ToSet(Slice(s, p[1], p[2])) \subseteq StrictDigit /\ Alone(p[1], p[2])
  BY DEF Shaped, StandsAlone
<1> HIDE DEF match, skip, S, end, Alone
<1> HIDE DEF N
<1>6. \A i \in 1..N : end(i) \in Nat /\ i <= end(i) /\ end(i) <= N + 1
  <2> TAKE i \in 1..N
  <2>1. end(i) \in i..(N + 1)  BY <1>3
  <2> QED BY <1>1, <2>1
<1>7. \A i \in 1..N : \A j \in i..(end(i) - 1) : j \in 1..N /\ s[j] \in StrictDigit  BY <1>3
<1>8. \A i \in 1..N : /\ end(i) > i /\ Alone(i, end(i)) => match[i] = end(i)
                      /\ match[i] # 0 => end(i) > i /\ Alone(i, end(i)) /\ match[i] = end(i)
                      /\ match[i] \in {0, end(i)}
  BY <1>3
<1>9. \A i \in 1..N : skip[i] \in {i + 1, end(i)} /\ i + 1 <= skip[i] /\ end(i) <= skip[i]
  <2> TAKE i \in 1..N
  <2>1. i + 1 \in Nat /\ end(i) \in Nat /\ skip[i] = Max({i + 1, end(i)})  BY <1>1, <1>3, <1>6
  <2> QED BY <2>1, MaxOfTwo
<1>10. match \in [1..N -> Nat] /\ skip \in [1..N -> Nat]
  <2>1. ASSUME NEW i \in 1..N PROVE match[i] \in Nat /\ skip[i] \in Nat
    <3>1. end(i) \in Nat /\ i + 1 \in Nat /\ match[i] \in {0, end(i)} /\ skip[i] \in {i + 1, end(i)}
      BY <1>1, <1>9, <1>6, <1>8
    <3> QED BY <3>1
  <2> QED BY <1>4, <2>1
<1>11. ASSUME NEW p \in S
       PROVE  p = <<p[1], p[2]>> /\ p[1] \in 1..N /\ match[p[1]] # 0 /\ p[2] <= match[p[1]] /\ p[2] \in Nat
  <2> DEFINE i == p[1]
             e == p[2]
  <2>1. p = <<i, e>> /\ i \in 1..N /\ e \in (i + 1)..(N + 1) /\ ToSet(Slice(s, i, e)) \subseteq StrictDigit /\ Alone(i, e)
    BY <1>1, <1>5
  <2> HIDE DEF i, e
  <2>2. i \in 1..(N + 1) /\ e \in i..(N + 1)  BY <1>1, <2>1
  <2>3. \A k \in i..(e - 1) : s[k] \in StrictDigit  BY <2>1, <2>2, SliceOf DEF N
  <2>4. At(s, e) \notin StrictDigit  BY <1>2, <2>1 DEF Alone
  <2>5. end(i) = e  BY <1>2, <2>2, <2>3, <2>4, RunEndOnly DEF end, N
  <2>6. match[i] = e /\ e # 0  BY <1>1, <1>8, <2>1, <2>5
  <2> QED BY <1>1, <2>1, <2>6 DEF i, e
<1>12. ASSUME NEW i \in 1..N, match[i] # 0
       PROVE  match[i] \in (i + 1)..(N + 1) /\ <<i, match[i]>> \in S
  <2> DEFINE e == match[i]
  <2>1. e = end(i) /\ end(i) > i /\ Alone(i, e)  BY <1>12, <1>8
  <2> HIDE DEF e
  <2>2. e \in (i + 1)..(N + 1) /\ i \in 1..(N + 1) /\ e \in i..(N + 1) /\ e \in 2..(N + 1)
    BY <1>1, <1>6, <2>1
  <2>3. ToSet(Slice(s, i, e)) \subseteq StrictDigit  BY <1>7, <2>1, <2>2, SliceOf DEF N
  <2> DEFINE p == <<i, e>>
  <2>4. p \in (1..N) \X (2..(N + 1)) /\ p[1] = i /\ p[2] = e /\ i < e  BY <1>1, <2>2
  <2>5. p \in S
    <3> HIDE DEF p
    <3> QED BY <1>5, <2>1, <2>3, <2>4
  <2> QED BY <2>2, <2>5 DEF e
<1>13. ASSUME NEW i \in 1..N, match[i] = 0
       PROVE  skip[i] \in (i + 1)..(N + 1) /\ \A k \in i..(skip[i] - 1) : match[k] = 0
  <2>1. skip[i] \in (i + 1)..(N + 1)
    <3>1. end(i) \in Nat /\ end(i) <= N + 1 /\ skip[i] \in {i + 1, end(i)} /\ i + 1 <= skip[i]
      BY <1>9, <1>6
    <3>2. skip[i] \in Nat  BY <3>1
    <3> QED BY <1>1, <3>1, <3>2
  <2>2. ASSUME NEW k \in i..(skip[i] - 1), k # i PROVE match[k] = 0
    <3>1. k \in (i + 1)..(end(i) - 1) /\ k - 1 \in i..(end(i) - 1) /\ k \in 1..N
      <4>1. end(i) \in Nat /\ end(i) <= N + 1 /\ skip[i] \in {i + 1, end(i)} /\ skip[i] \in Nat
        BY <1>1, <1>9, <1>6, <2>1
      <4>2. skip[i] # i + 1  BY <1>1, <2>2, <4>1
      <4>3. k \in i..(end(i) - 1)  BY <2>2, <4>1, <4>2
      <4> QED BY <1>1, <2>2, <4>1, <4>3
    <3>2. k - 1 \in 1..N /\ s[k - 1] \in StrictDigit  BY <1>1, <1>7, <3>1
    <3>3. At(s, k - 1) \in StrictWord  BY <1>1, <1>2, <3>2
    <3> QED BY <1>8, <3>1, <3>3 DEF Alone
  <2> QED BY <1>13, <2>1, <2>2
<1>14. Finds(N, S, match, skip)  BY <1>10, <1>11, <1>12, <1>13 DEF Finds
<1>15. Scan(s, match, skip) = LeftToRight(Longest(S))  BY <1>14, ScanFinds DEF N
<1> QED BY <1>15 DEF Numbers, match, skip, S

\* A step that goes on with the next character when it finds nothing.
LEMMA FindsOneByOne ==
  ASSUME NEW Char, NEW s \in Seq(Char), NEW S, NEW match \in [1..Len(s) -> Nat],
         \A p \in S : p = <<p[1], p[2]>> /\ p[1] \in 1..Len(s) /\ match[p[1]] # 0 /\ p[2] <= match[p[1]] /\ p[2] \in Nat,
         \A i \in 1..Len(s) : match[i] # 0 => match[i] \in (i + 1)..(Len(s) + 1) /\ <<i, match[i]>> \in S
  PROVE  Scan(s, match, OneByOne(s)) = LeftToRight(Longest(S))
<1> DEFINE N == Len(s)
           skip == OneByOne(s)
<1>1. N \in Nat /\ DOMAIN s = 1..N  OBVIOUS
<1>2. skip \in [1..N -> Nat] /\ \A i \in 1..N : skip[i] = i + 1  BY <1>1 DEF OneByOne
<1>3. \A i \in 1..N : skip[i] \in (i + 1)..(N + 1) /\ \A k \in i..(skip[i] - 1) : k = i
  BY <1>1, <1>2
<1> HIDE DEF skip
<1>4. Finds(N, S, match, skip)  BY <1>2, <1>3 DEF Finds
<1>5. Scan(s, match, skip) = LeftToRight(Longest(S))  BY <1>4, ScanFinds
<1> QED BY <1>5 DEF skip

LEMMA UuidShapeIs ==
  ASSUME NEW Char, NEW s \in Seq(Char), NEW i \in 1..Len(s), NEW e \in (i + 1)..(Len(s) + 1)
  PROVE  UuidShape(Slice(s, i, e)) <=> e = i + 36 /\ IsUuidAt(s, i)
<1> DEFINE t == Slice(s, i, e)
           Dash == {8, 13, 18, 23}
<1>1. t \in Seq(Char) /\ Len(t) = e - i /\ \A k \in 1..(e - i) : t[k] = s[i + k - 1]  BY StretchIs
<1>2. UuidShape(t) => e = i + 36
  <2> HIDE DEF t
  <2>1. UuidShape(t) => Len(t) = 36  BY DEF UuidShape
  <2> QED BY <1>1, <2>1
<1>3. ASSUME e = i + 36
      PROVE  UuidShape(t) <=> IsUuidAt(s, i)
  <2>1. DOMAIN t = 1..36 /\ Len(t) = 36  BY <1>1, <1>3
  <2>2. ASSUME NEW k \in 0..35 PROVE k + 1 \in 1..36 /\ At(s, i + k) = t[k + 1]
    <3>1. k + 1 \in 1..(e - i) /\ i + (k + 1) - 1 = i + k /\ i + k \in 1..Len(s) /\ k + 1 \in 1..36
      BY <1>3
    <3>2. t[k + 1] = s[i + k]  BY <1>1, <3>1
    <3> QED BY <3>1, <3>2 DEF At
  <2> HIDE DEF t
  <2>3. IsUuidAt(s, i) <=> \A k \in 0..35 : IF k \in Dash THEN t[k + 1] = "-" ELSE t[k + 1] \in HexDigit
    <3>1. UuidLength - 1 = 35  BY DEF UuidLength
    <3>2. IsUuidAt(s, i) <=> \A k \in 0..35 : IF k \in Dash THEN At(s, i + k) = "-" ELSE At(s, i + k) \in HexDigit
      BY <3>1 DEF IsUuidAt
    <3> HIDE DEF Dash
    <3> QED BY <2>2, <3>2
  <2>4. UuidShape(t) <=> \A k \in 1..36 : (t[k] = "-" <=> k \in {9, 14, 19, 24}) /\ t[k] \in HexDigit \cup {"-"}
    <3>1. UuidShape(t) <=> {k \in 1..36 : t[k] = "-"} = {9, 14, 19, 24} /\ ToSet(t) \subseteq HexDigit \cup {"-"}
      BY <2>1 DEF UuidShape
    <3>2. ToSet(t) \subseteq HexDigit \cup {"-"} <=> \A k \in 1..36 : t[k] \in HexDigit \cup {"-"}
      BY <2>1 DEF ToSet
    <3>3. \A k \in {9, 14, 19, 24} : k \in 1..36  OBVIOUS
    <3>4. {k \in 1..36 : t[k] = "-"} = {9, 14, 19, 24} <=> \A k \in 1..36 : t[k] = "-" <=> k \in {9, 14, 19, 24}
      BY <3>3
    <3> QED BY <3>1, <3>2, <3>4
  <2>5. "-" \notin HexDigit  BY DEF HexDigit, StrictDigit
  <2>6. ASSUME IsUuidAt(s, i), NEW k \in 1..36
        PROVE  (t[k] = "-" <=> k \in {9, 14, 19, 24}) /\ t[k] \in HexDigit \cup {"-"}
    <3>1. k - 1 \in 0..35 /\ (k - 1) + 1 = k /\ (k - 1 \in Dash <=> k \in {9, 14, 19, 24})  OBVIOUS
    <3>2. IF k - 1 \in Dash THEN t[k] = "-" ELSE t[k] \in HexDigit  BY <2>3, <2>6, <3>1
    <3> HIDE DEF Dash
    <3> QED BY <2>5, <3>1, <3>2
  <2>7. ASSUME UuidShape(t), NEW k \in 0..35
        PROVE  IF k \in Dash THEN t[k + 1] = "-" ELSE t[k + 1] \in HexDigit
    <3>1. k + 1 \in 1..36 /\ (k \in Dash <=> k + 1 \in {9, 14, 19, 24})  OBVIOUS
    <3> HIDE DEF Dash
    <3> QED BY <2>4, <2>7, <3>1
  <2> QED BY <2>3, <2>4, <2>6, <2>7
<1>4. ASSUME e # i + 36 PROVE ~UuidShape(t)  BY <1>2, <1>4
<1> HIDE DEF t
<1> QED BY <1>2, <1>3 DEF t

LEMMA UuidsFound ==
  ASSUME NEW Char, NEW s \in Seq(Char)
  PROVE  Uuids(s) = LeftToRight(Longest({p \in Shaped(s, UuidShape) : StandsAlone(s, p, StrictWord)}))
<1> DEFINE N == Len(s)
           match == [i \in DOMAIN s |-> UuidAt(s, i)]
           S == {p \in Shaped(s, UuidShape) : StandsAlone(s, p, StrictWord)}
           Alone(i, e) == At(s, i - 1) \notin StrictWord /\ At(s, e) \notin StrictWord
<1>1. N \in Nat /\ DOMAIN s = 1..N  OBVIOUS
<1>2. match = [i \in 1..N |-> match[i]]  BY <1>1
<1>3. \A i \in 1..N : match[i] = IF IsUuidAt(s, i) /\ Alone(i, i + 36) THEN i + 36 ELSE 0
  BY <1>1 DEF UuidAt, UuidLength, StandsAlone
<1>4. \A p : p \in S <=> /\ p \in (1..N) \X (2..(N + 1)) /\ p[1] < p[2]
                         /\ UuidShape(Slice(s, p[1], p[2])) /\ Alone(p[1], p[2])
  BY DEF Shaped, StandsAlone
<1> HIDE DEF match, S, Alone
<1>5. match \in [1..N -> Nat]
  <2>1. \A i \in 1..N : match[i] \in Nat  BY <1>1, <1>3
  <2> QED BY <1>2, <2>1
<1>6. ASSUME NEW p \in S
      PROVE  p = <<p[1], p[2]>> /\ p[1] \in 1..N /\ match[p[1]] # 0 /\ p[2] <= match[p[1]] /\ p[2] \in Nat
  <2> DEFINE i == p[1]
             e == p[2]
  <2>1. p = <<i, e>> /\ i \in 1..N /\ e \in (i + 1)..(N + 1) /\ UuidShape(Slice(s, i, e)) /\ Alone(i, e)
    BY <1>1, <1>4
  <2> HIDE DEF i, e
  <2>2. e = i + 36 /\ IsUuidAt(s, i)  BY <2>1, UuidShapeIs
  <2>3. match[i] = e /\ e # 0 /\ e \in Nat  BY <1>1, <1>3, <2>1, <2>2
  <2> QED BY <2>1, <2>3 DEF i, e
<1>7. ASSUME NEW i \in 1..N, match[i] # 0
      PROVE  match[i] \in (i + 1)..(N + 1) /\ <<i, match[i]>> \in S
  <2> DEFINE e == i + 36
  <2>1. match[i] = e /\ IsUuidAt(s, i) /\ Alone(i, e)  BY <1>3, <1>7
  <2>2. i + 35 \in 1..N
    <3>1. At(s, i + 35) \in HexDigit
      <4>1. 35 \in 0..(36 - 1) /\ 35 \notin {8, 13, 18, 23}  OBVIOUS
      <4> QED BY <2>1, <4>1 DEF IsUuidAt, UuidLength
    <3>2. "end" \notin HexDigit  BY DEF HexDigit, StrictDigit
    <3> QED BY <1>1, <3>1, <3>2 DEF At
  <2>3. e \in (i + 1)..(N + 1) /\ e \in 2..(N + 1) /\ i < e  BY <1>1, <2>2
  <2>4. UuidShape(Slice(s, i, e))  BY <2>1, <2>3, UuidShapeIs
  <2> HIDE DEF e
  <2> DEFINE p == <<i, e>>
  <2>5. p \in (1..N) \X (2..(N + 1)) /\ p[1] = i /\ p[2] = e  BY <2>3
  <2>6. p \in S
    <3> HIDE DEF p
    <3> QED BY <1>4, <2>1, <2>3, <2>4, <2>5
  <2> QED BY <2>1, <2>3, <2>6
<1>8. Scan(s, match, OneByOne(s)) = LeftToRight(Longest(S))  BY <1>5, <1>6, <1>7, FindsOneByOne
<1> QED BY <1>8 DEF Uuids, match, S

LEMMA QuotedShapeIs ==
  ASSUME NEW Char, NEW s \in Seq(Char), NEW quote, NEW i \in 1..Len(s), NEW e \in (i + 1)..(Len(s) + 1)
  PROVE  QuotedShape(Slice(s, i, e), quote) <=>
           /\ e > i + 1 /\ s[i] = quote /\ s[e - 1] = quote
           /\ \A k \in (i + 1)..(e - 2) : s[k] \notin {quote, "newline"}
<1> DEFINE t == Slice(s, i, e)
           Closes == {quote, "newline"}
<1>1. /\ t \in Seq(Char) /\ Len(t) = e - i /\ \A k \in 1..(e - i) : t[k] = s[i + k - 1]
      /\ t[1] = s[i] /\ Last(t) = s[e - 1]
  BY StretchIs
<1>2. Len(t) > 1 <=> e > i + 1  BY <1>1
<1> HIDE DEF t
<1>3. QuotedShape(t, quote) <=>
        e > i + 1 /\ t[1] = quote /\ Last(t) = quote /\ \A k \in 2..((e - i) - 1) : t[k] \notin Closes
  BY <1>1, <1>2 DEF QuotedShape
<1> HIDE DEF Closes
<1>4. ASSUME \A k \in 2..((e - i) - 1) : t[k] \notin Closes, NEW k \in (i + 1)..(e - 2)
      PROVE  s[k] \notin Closes
  <2>1. k - i + 1 \in 2..((e - i) - 1) /\ k - i + 1 \in 1..(e - i) /\ i + (k - i + 1) - 1 = k
    OBVIOUS
  <2> QED BY <1>1, <1>4, <2>1
<1>5. ASSUME \A k \in (i + 1)..(e - 2) : s[k] \notin Closes, NEW k \in 2..((e - i) - 1)
      PROVE  t[k] \notin Closes
  <2>1. i + k - 1 \in (i + 1)..(e - 2) /\ k \in 1..(e - i)  OBVIOUS
  <2> QED BY <1>1, <1>5, <2>1
<1> QED BY <1>1, <1>3, <1>4, <1>5 DEF t, Closes

\* Where a literal that opens before b closes, if it does.
LEMMA CloseIs ==
  ASSUME NEW Char, NEW s \in Seq(Char), NEW quote, NEW b \in 1..(Len(s) + 1)
  PROVE  \E end \in b..(Len(s) + 1) :
           /\ end = Min({k \in b..(Len(s) + 1) : At(s, k) \in {quote, "newline", "end"}})
           /\ At(s, end) \in {quote, "newline", "end"}
           /\ \A k \in b..(end - 1) : k \in 1..Len(s) /\ s[k] \notin {quote, "newline"}
<1> DEFINE N == Len(s)
           Closes == {quote, "newline", "end"}
           K == {k \in b..(N + 1) : At(s, k) \in Closes}
           end == Min(K)
<1>1. N \in Nat /\ DOMAIN s = 1..N /\ At(s, N + 1) = "end" /\ \A k \in 1..N : At(s, k) = s[k]
  BY DEF At
<1>2. N + 1 \in K /\ K \subseteq Nat  BY <1>1
<1>3. end \in K /\ \A k \in K : end <= k
  <2>1. \E x \in K : \A y \in K : x <= y
    <3> HIDE DEF K
    <3> QED BY <1>2, LeastNatural
  <2> HIDE DEF K
  <2> QED BY <2>1 DEF Min
<1> HIDE DEF end
<1>4. end \in b..(N + 1) /\ At(s, end) \in Closes  BY <1>3
<1>5. ASSUME NEW k \in b..(end - 1) PROVE k \in 1..N /\ s[k] \notin {quote, "newline"}
  <2>1. k \in b..(N + 1) /\ k \in 1..N /\ ~(end <= k)  BY <1>1, <1>4
  <2>2. At(s, k) \notin Closes  BY <1>3, <2>1
  <2> QED BY <1>1, <2>1, <2>2
<1> QED BY <1>4, <1>5 DEF end

\* The stretches in quotes that a step replaces.
InQuotes(s, quote, atWordBoundary) ==
  {p \in Shaped(s, LAMBDA t : QuotedShape(t, quote)) : ~atWordBoundary \/ StandsAlone(s, p, StrictWord)}

LEMMA QuotedFound ==
  ASSUME NEW Char, "end" \notin Char, NEW s \in Seq(Char), NEW quote, quote # "end", quote # "newline", NEW atWordBoundary \in BOOLEAN
  PROVE  Quoted(s, quote, atWordBoundary) =
           LeftToRight(Longest(InQuotes(s, quote, atWordBoundary)))
<1> DEFINE N == Len(s)
           match == [i \in DOMAIN s |-> QuotedAt(s, quote, atWordBoundary, i)]
           S == InQuotes(s, quote, atWordBoundary)
           Alone(i, e) == ~atWordBoundary \/ (At(s, i - 1) \notin StrictWord /\ At(s, e) \notin StrictWord)
           end(i) == Min({k \in (i + 1)..(N + 1) : At(s, k) \in {quote, "newline", "end"}})
<1>1. N \in Nat /\ DOMAIN s = 1..N /\ At(s, N + 1) = "end" /\ \A k \in 1..N : At(s, k) = s[k]
  BY DEF At
<1>2. match = [i \in 1..N |-> match[i]]  BY <1>1
<1>3. \A i \in 1..N :
        match[i] = IF s[i] = quote /\ At(s, end(i)) = quote /\ Alone(i, end(i) + 1) THEN end(i) + 1 ELSE 0
  BY <1>1 DEF QuotedAt, StandsAlone
<1>4. \A p : p \in S <=> /\ p \in (1..N) \X (2..(N + 1)) /\ p[1] < p[2]
                         /\ QuotedShape(Slice(s, p[1], p[2]), quote) /\ Alone(p[1], p[2])
  BY DEF InQuotes, Shaped, StandsAlone
<1>5. ASSUME NEW i \in 1..N
      PROVE  /\ end(i) \in (i + 1)..(N + 1) /\ At(s, end(i)) \in {quote, "newline", "end"}
             /\ \A k \in (i + 1)..(end(i) - 1) : k \in 1..N /\ s[k] \notin {quote, "newline"}
  <2> DEFINE b == i + 1
  <2>1. b \in 1..(N + 1)  BY <1>1
  <2>2. \E x \in b..(N + 1) :
         /\ x = Min({k \in b..(N + 1) : At(s, k) \in {quote, "newline", "end"}})
         /\ At(s, x) \in {quote, "newline", "end"}
         /\ \A k \in b..(x - 1) : k \in 1..N /\ s[k] \notin {quote, "newline"}
    <3> HIDE DEF b
    <3> QED BY <2>1, CloseIs
  <2> QED BY <2>2
<1> HIDE DEF match, S, Alone, end
<1>6. match \in [1..N -> Nat]
  <2>1. ASSUME NEW i \in 1..N PROVE match[i] \in Nat
    <3>1. end(i) \in (i + 1)..(N + 1)  BY <1>5
    <3>2. end(i) + 1 \in Nat  BY <1>1, <3>1
    <3> QED BY <1>3, <3>2
  <2> QED BY <1>2, <2>1
<1>7. ASSUME NEW p \in S
      PROVE  p = <<p[1], p[2]>> /\ p[1] \in 1..N /\ match[p[1]] # 0 /\ p[2] <= match[p[1]] /\ p[2] \in Nat
  <2> DEFINE i == p[1]
             e == p[2]
  <2>1. p = <<i, e>> /\ i \in 1..N /\ e \in (i + 1)..(N + 1) /\ QuotedShape(Slice(s, i, e), quote) /\ Alone(i, e)
    BY <1>1, <1>4
  <2> HIDE DEF i, e
  <2>2. e > i + 1 /\ s[i] = quote /\ s[e - 1] = quote /\ \A k \in (i + 1)..(e - 2) : s[k] \notin {quote, "newline"}
    BY <2>1, QuotedShapeIs
  <2>3. end(i) \in (i + 1)..(N + 1) /\ At(s, end(i)) \in {quote, "newline", "end"}
        /\ \A k \in (i + 1)..(end(i) - 1) : k \in 1..N /\ s[k] \notin {quote, "newline"}
    BY <1>5, <2>1
  <2> DEFINE c == e - 1
  <2>4. c \in (i + 1)..N /\ c \in 1..N /\ e = c + 1 /\ e - 2 = c - 1  BY <1>1, <2>1, <2>2
  <2> HIDE DEF c
  <2>5. ~(c < end(i))
    <3>1. c < end(i) => c \in (i + 1)..(end(i) - 1)  BY <2>3, <2>4
    <3> QED BY <2>2, <2>3, <3>1 DEF c
  <2>6. ~(end(i) < c)
    <3> SUFFICES ASSUME end(i) < c PROVE FALSE  OBVIOUS
    <3>1. end(i) \in (i + 1)..(c - 1) /\ end(i) \in 1..N
      <4>1. i \in Nat /\ c \in Nat /\ c <= N /\ end(i) \in (i + 1)..(N + 1)
        BY <1>1, <2>1, <2>3, <2>4
      <4> HIDE DEF N
      <4> QED BY <1>1, <4>1
    <3>2. s[end(i)] \notin {quote, "newline"} /\ At(s, end(i)) = s[end(i)]
      BY <1>1, <2>2, <2>4, <3>1
    <3>3. s[end(i)] = "end" /\ s[end(i)] \in Char  BY <2>3, <3>1, <3>2
    <3> QED BY <3>3
  <2>7. end(i) = c  BY <2>3, <2>4, <2>5, <2>6
  <2>8. At(s, end(i)) = quote  BY <1>1, <2>2, <2>4, <2>7 DEF c
  <2>9. match[i] = e /\ e # 0 /\ e \in Nat  BY <1>1, <1>3, <2>1, <2>2, <2>4, <2>7, <2>8
  <2> QED BY <2>1, <2>9 DEF i, e
<1>8. ASSUME NEW i \in 1..N, match[i] # 0
      PROVE  match[i] \in (i + 1)..(N + 1) /\ <<i, match[i]>> \in S
  <2> DEFINE c == end(i)
             e == c + 1
  <2>1. match[i] = e /\ s[i] = quote /\ At(s, c) = quote /\ Alone(i, e)  BY <1>3, <1>8
  <2>2. c \in (i + 1)..(N + 1) /\ \A k \in (i + 1)..(c - 1) : s[k] \notin {quote, "newline"}
    BY <1>5
  <2> HIDE DEF c
  <2>3. c # N + 1  BY <1>1, <2>1
  <2>4. c \in 1..N /\ e \in (i + 1)..(N + 1) /\ e \in 2..(N + 1) /\ i < e /\ e - 1 = c /\ e - 2 = c - 1 /\ e > i + 1
    BY <1>1, <2>2, <2>3
  <2> HIDE DEF e
  <2>5. QuotedShape(Slice(s, i, e), quote)  BY <1>1, <2>1, <2>2, <2>4, QuotedShapeIs
  <2> DEFINE p == <<i, e>>
  <2>6. p \in (1..N) \X (2..(N + 1)) /\ p[1] = i /\ p[2] = e  BY <2>4
  <2>7. p \in S
    <3> HIDE DEF p
    <3> QED BY <1>4, <2>1, <2>4, <2>5, <2>6
  <2> QED BY <2>1, <2>4, <2>7
<1>9. Scan(s, match, OneByOne(s)) = LeftToRight(Longest(S))  BY <1>6, <1>7, <1>8, FindsOneByOne
<1> QED BY <1>9 DEF Quoted, match, S

\* The last of several positions of a text.
LEMMA LastOf ==
  ASSUME NEW N \in Nat, NEW K, K \subseteq 1..N, K # {}
  PROVE  Max(K) \in K /\ \A k \in K : k <= Max(K)
<1> DEFINE R == {m \in Nat : \A k \in K : k <= m}
<1>1. PICK x \in R : \A m \in R : x <= m
  <2>1. N \in R /\ R \subseteq Nat  OBVIOUS
  <2> HIDE DEF R
  <2> QED BY <2>1, LeastNatural
<1>2. x \in K
  <2> SUFFICES ASSUME x \notin K PROVE FALSE  OBVIOUS
  <2>1. PICK k \in K : k \in 1..N /\ k <= x  BY <1>1
  <2>2. x - 1 \in Nat /\ \A y \in K : y <= x - 1  BY <1>1, <2>1
  <2>3. x - 1 \in R  BY <2>2
  <2> QED BY <1>1, <2>3
<1>3. \A y \in K : x >= y  BY <1>1
<1>4. Max(K) \in K /\ \A y \in K : Max(K) >= y  BY <1>2, <1>3 DEF Max
<1> HIDE DEF Max
<1> QED BY <1>4

\* An address from i to e with its "@" at a and its last dot at d.
EmailParts(s, i, e, a, d) ==
  /\ s[a] = "@" /\ s[d] = "."
  /\ \A k \in i..(a - 1) : s[k] \in EmailLocal
  /\ \A k \in (a + 1)..(d - 1) : s[k] \in EmailDomain
  /\ \A k \in (d + 1)..(e - 1) : s[k] \in Alpha

\* The parts as the shape of an address has them, counted from its start.
LEMMA EmailPartsAre ==
  ASSUME NEW Char, NEW s \in Seq(Char), NEW i \in 1..Len(s), NEW e \in (i + 1)..(Len(s) + 1),
         NEW at \in 2..(e - i), NEW dot \in (at + 2)..(e - i - 2)
  PROVE  LET t == Slice(s, i, e) IN
         EmailParts(s, i, e, i + at - 1, i + dot - 1) <=>
           /\ t[at] = "@" /\ t[dot] = "."
           /\ ToSet(Slice(t, 1, at)) \subseteq EmailLocal
           /\ ToSet(Slice(t, at + 1, dot)) \subseteq EmailDomain
           /\ ToSet(SubSeq(t, dot + 1, Len(t))) \subseteq Alpha
<1> DEFINE N == Len(s)
           t == Slice(s, i, e)
           a == i + at - 1
           d == i + dot - 1
<1>1. /\ i \in 1..(N + 1) /\ e \in i..(N + 1)
      /\ t \in Seq(Char) /\ Len(t) = e - i /\ \A k \in 1..(e - i) : t[k] = s[i + k - 1]
  <2>1. i \in 1..(N + 1) /\ e \in i..(N + 1)  OBVIOUS
  <2>2. Holds(Char, t, s, i, e)  BY <2>1, SliceIs
  <2> QED BY <2>1, <2>2 DEF Holds
<1>2. at \in 1..(e - i) /\ dot \in 1..(e - i)  OBVIOUS
<1>3. t[at] = s[a] /\ t[dot] = s[d]  BY <1>1, <1>2
<1>4. Slice(t, 1, at) = Slice(s, i, a)
  <2>1. 1 \in 1..(e - i + 1) /\ at \in 1..(e - i + 1) /\ i + 1 - 1 = i  BY <1>2
  <2> QED BY <1>1, <2>1, SliceOfSlice
<1>5. Slice(t, at + 1, dot) = Slice(s, a + 1, d)
  <2> DEFINE b == at + 1
  <2>1. b \in 1..(e - i + 1) /\ dot \in b..(e - i + 1) /\ i + b - 1 = a + 1  BY <1>2
  <2> HIDE DEF b
  <2>2. Slice(t, b, dot) = Slice(s, i + b - 1, i + dot - 1)  BY <1>1, <2>1, SliceOfSlice
  <2> QED BY <2>1, <2>2 DEF b
<1>6. SubSeq(t, dot + 1, Len(t)) = Slice(s, d + 1, e)
  <2> DEFINE b == dot + 1
             f == e - i + 1
  <2>1. b \in 1..(e - i + 1) /\ f \in b..(e - i + 1) /\ i + b - 1 = d + 1 /\ i + f - 1 = e /\ f - 1 = e - i
    BY <1>2
  <2> HIDE DEF b, f
  <2>2. Slice(t, b, f) = Slice(s, i + b - 1, i + f - 1)  BY <1>1, <2>1, SliceOfSlice
  <2>3. Slice(t, b, f) = SubSeq(t, b, Len(t))  BY <1>1, <2>1 DEF Slice
  <2> QED BY <2>1, <2>2, <2>3 DEF b
<1>7. /\ a \in i..(N + 1) /\ a + 1 \in 1..(N + 1) /\ d \in (a + 1)..(N + 1) /\ d + 1 \in 1..(N + 1) /\ e \in (d + 1)..(N + 1)
      /\ i \in 1..(N + 1)
  BY <1>1
<1> HIDE DEF t, a, d
<1>8. ToSet(Slice(s, i, a)) \subseteq EmailLocal <=> \A k \in i..(a - 1) : s[k] \in EmailLocal
  BY <1>7, SliceOf
<1>9. ToSet(Slice(s, a + 1, d)) \subseteq EmailDomain <=> \A k \in (a + 1)..(d - 1) : s[k] \in EmailDomain
  <2> DEFINE b == a + 1
  <2>1. b \in 1..(N + 1) /\ d \in b..(N + 1)  BY <1>7
  <2> HIDE DEF b
  <2>2. ToSet(Slice(s, b, d)) \subseteq EmailDomain <=> \A k \in b..(d - 1) : s[k] \in EmailDomain
    BY <2>1, SliceOf
  <2> QED BY <2>2 DEF b
<1>10. ToSet(Slice(s, d + 1, e)) \subseteq Alpha <=> \A k \in (d + 1)..(e - 1) : s[k] \in Alpha
  <2> DEFINE b == d + 1
  <2>1. b \in 1..(N + 1) /\ e \in b..(N + 1)  BY <1>7
  <2> HIDE DEF b
  <2>2. ToSet(Slice(s, b, e)) \subseteq Alpha <=> \A k \in b..(e - 1) : s[k] \in Alpha
    BY <2>1, SliceOf
  <2> QED BY <2>2 DEF b
<1>11. EmailParts(s, i, e, a, d) <=>
         /\ t[at] = "@" /\ t[dot] = "."
         /\ ToSet(Slice(t, 1, at)) \subseteq EmailLocal
         /\ ToSet(Slice(t, at + 1, dot)) \subseteq EmailDomain
         /\ ToSet(SubSeq(t, dot + 1, Len(t))) \subseteq Alpha
  <2> HIDE DEF N
  <2> QED BY <1>3, <1>4, <1>5, <1>6, <1>8, <1>9, <1>10 DEF EmailParts
<1> QED BY <1>11 DEF t, a, d

LEMMA EmailShapeIs ==
  ASSUME NEW Char, NEW s \in Seq(Char), NEW i \in 1..Len(s), NEW e \in (i + 1)..(Len(s) + 1)
  PROVE  EmailShape(Slice(s, i, e)) <=>
           \E a \in (i + 1)..(e - 1) : \E d \in (a + 2)..(e - 3) : EmailParts(s, i, e, a, d)
<1> DEFINE t == Slice(s, i, e)
           Parts(at, dot) == /\ t[at] = "@" /\ t[dot] = "."
                             /\ ToSet(Slice(t, 1, at)) \subseteq EmailLocal
                             /\ ToSet(Slice(t, at + 1, dot)) \subseteq EmailDomain
                             /\ ToSet(SubSeq(t, dot + 1, Len(t))) \subseteq Alpha
<1>1. t \in Seq(Char) /\ Len(t) = e - i  BY StretchIs
<1>2. \A at \in 2..(e - i) : \A dot \in (at + 2)..(e - i - 2) :
        EmailParts(s, i, e, i + at - 1, i + dot - 1) <=> Parts(at, dot)
  BY EmailPartsAre
<1>3. EmailShape(t) <=> \E at \in DOMAIN t : \E dot \in (at + 2)..(Len(t) - 2) : at > 1 /\ Parts(at, dot)
  BY DEF EmailShape
<1> HIDE DEF t, Parts
<1>4. DOMAIN t = 1..(e - i)  BY <1>1
<1>5. ASSUME EmailShape(t)
      PROVE  \E a \in (i + 1)..(e - 1) : \E d \in (a + 2)..(e - 3) : EmailParts(s, i, e, a, d)
  <2>1. PICK at \in 1..(e - i) : \E dot \in (at + 2)..(e - i - 2) : at > 1 /\ Parts(at, dot)
    BY <1>1, <1>3, <1>4, <1>5
  <2>2. PICK dot \in (at + 2)..(e - i - 2) : at > 1 /\ Parts(at, dot)  BY <2>1
  <2>3. at \in 2..(e - i)  BY <2>2
  <2>4. EmailParts(s, i, e, i + at - 1, i + dot - 1)  BY <1>2, <2>2, <2>3
  <2>5. i + at - 1 \in (i + 1)..(e - 1) /\ i + dot - 1 \in ((i + at - 1) + 2)..(e - 3)  BY <2>3
  <2> QED BY <2>4, <2>5
<1>6. ASSUME NEW a \in (i + 1)..(e - 1), NEW d \in (a + 2)..(e - 3), EmailParts(s, i, e, a, d)
      PROVE  EmailShape(t)
  <2> DEFINE at == a - i + 1
             dot == d - i + 1
  <2>1. at \in 2..(e - i) /\ at \in 1..(e - i) /\ at > 1 /\ dot \in (at + 2)..(e - i - 2) /\ i + at - 1 = a /\ i + dot - 1 = d
    OBVIOUS
  <2> HIDE DEF at, dot
  <2>2. Parts(at, dot)  BY <1>2, <1>6, <2>1
  <2> QED BY <1>1, <1>3, <1>4, <2>1, <2>2
<1> QED BY <1>5, <1>6 DEF t

\* What the code looks for after a local part that ends at a.
EmailDots(s, a) ==
  {d \in (a + 2)..(RunEnd(s, a + 1, EmailDomain) - 1) : s[d] = "." /\ RunEnd(s, d + 1, Alpha) >= d + 3}

EmailEnd(s, a) ==
  IF At(s, a) # "@" \/ EmailDots(s, a) = {} THEN 0 ELSE RunEnd(s, Max(EmailDots(s, a)) + 1, Alpha)

LEMMA EmailClasses ==
  /\ "end" \notin EmailLocal /\ "end" \notin EmailDomain /\ "end" \notin Alpha
  /\ "@" \notin EmailLocal /\ "." \in EmailDomain /\ "." \notin Alpha
  BY DEF EmailLocal, EmailDomain, Alpha, StrictDigit

\* The dots stand inside the text, a top level follows each.
LEMMA EmailDotsAre ==
  ASSUME NEW Char, NEW s \in Seq(Char), NEW a \in 1..Len(s), NEW d \in EmailDots(s, a)
  PROVE  /\ d \in (a + 2)..Len(s) /\ s[d] = "."
         /\ \A k \in (a + 1)..(d - 1) : s[k] \in EmailDomain
         /\ RunEnd(s, d + 1, Alpha) \in (d + 3)..(Len(s) + 1)
         /\ \A k \in (d + 1)..(RunEnd(s, d + 1, Alpha) - 1) : s[k] \in Alpha
<1> DEFINE N == Len(s)
           b == a + 1
           c == d + 1
           D == RunEnd(s, b, EmailDomain)
           e == RunEnd(s, c, Alpha)
<1>1. N \in Nat /\ b \in 1..(N + 1)  OBVIOUS
<1>2. d \in (a + 2)..(D - 1) /\ s[d] = "." /\ e >= d + 3  BY DEF EmailDots
<1> HIDE DEF b, D
<1>3. D \in b..(N + 1) /\ \A k \in b..(D - 1) : s[k] \in EmailDomain
  BY <1>1, EmailClasses, RunEndIs DEF D
<1> HIDE DEF N
<1>4. d \in Nat /\ a + 2 <= d /\ d <= N /\ d < D
  <2>1. D \in Int /\ D <= N + 1  BY <1>1, <1>3
  <2> QED BY <1>1, <1>2, <2>1
<1>5. c \in 1..(N + 1)  BY <1>1, <1>4
<1> HIDE DEF c, e
<1>6. e \in c..(N + 1) /\ \A k \in c..(e - 1) : s[k] \in Alpha
  BY <1>5, EmailClasses, RunEndIs DEF e, N
<1>7. e \in (d + 3)..(N + 1)  BY <1>1, <1>2, <1>4, <1>6
<1>8. \A k \in (a + 1)..(d - 1) : k \in b..(D - 1)  BY <1>1, <1>3, <1>4 DEF b
<1>9. d \in (a + 2)..N  BY <1>1, <1>4
<1> QED BY <1>2, <1>3, <1>6, <1>7, <1>8, <1>9 DEF c, e, N

\* An address the code finds is one, and it is the longest.
LEMMA EmailEndIs ==
  ASSUME NEW Char, NEW s \in Seq(Char), NEW i \in 1..Len(s), NEW a \in (i + 1)..(Len(s) + 1),
         \A k \in i..(a - 1) : s[k] \in EmailLocal
  PROVE  /\ EmailEnd(s, a) \in Nat
         /\ EmailEnd(s, a) # 0 => /\ EmailEnd(s, a) \in (i + 1)..(Len(s) + 1)
                                  /\ EmailShape(Slice(s, i, EmailEnd(s, a)))
<1> DEFINE N == Len(s)
           K == EmailDots(s, a)
           m == Max(K)
           e == RunEnd(s, m + 1, Alpha)
<1>1. N \in Nat  OBVIOUS
<1>2. EmailEnd(s, a) = IF At(s, a) # "@" \/ K = {} THEN 0 ELSE e  BY DEF EmailEnd
<1> HIDE DEF K, m, e
<1>3. CASE At(s, a) # "@" \/ K = {}  BY <1>2, <1>3
<1>4. CASE At(s, a) = "@" /\ K # {}
  <2>1. a \in 1..N /\ s[a] = "@"  BY <1>1, <1>4 DEF At
  <2>2. \A d \in K : d \in (a + 2)..N  BY <2>1, EmailDotsAre DEF K
  <2>3. K \subseteq 1..N  BY <1>1, <2>1, <2>2
  <2>4. m \in K
    <3> HIDE DEF N
    <3> QED BY <1>1, <1>4, <2>3, LastOf DEF m
  <2>5. /\ m \in (a + 2)..N /\ s[m] = "."
        /\ \A k \in (a + 1)..(m - 1) : s[k] \in EmailDomain
        /\ e \in (m + 3)..(N + 1)
        /\ \A k \in (m + 1)..(e - 1) : s[k] \in Alpha
    BY <2>1, <2>4, EmailDotsAre DEF K, e
  <2>6. EmailParts(s, i, e, a, m)  BY <2>1, <2>5 DEF EmailParts
  <2>7. a \in (i + 1)..(e - 1) /\ m \in (a + 2)..(e - 3) /\ e \in (i + 1)..(N + 1) /\ e \in Nat
    BY <1>1, <2>1, <2>5
  <2>8. EmailShape(Slice(s, i, e))  BY <2>6, <2>7, EmailShapeIs
  <2> QED BY <1>2, <1>4, <2>7, <2>8
<1> QED BY <1>3, <1>4

LEMMA EmailEndLongest ==
  ASSUME NEW Char, NEW s \in Seq(Char), NEW i \in 1..Len(s), NEW e \in (i + 1)..(Len(s) + 1),
         EmailShape(Slice(s, i, e))
  PROVE  \E a \in (i + 1)..Len(s) : RunEnd(s, i, EmailLocal) = a /\ EmailEnd(s, a) # 0 /\ e <= EmailEnd(s, a)
<1> DEFINE N == Len(s)
<1>1. N \in Nat /\ DOMAIN s = 1..N /\ \A k \in 1..N : At(s, k) = s[k]  BY DEF At
<1>2. PICK a \in (i + 1)..(e - 1) : \E d \in (a + 2)..(e - 3) : EmailParts(s, i, e, a, d)
  BY EmailShapeIs
<1>3. PICK d \in (a + 2)..(e - 3) : EmailParts(s, i, e, a, d)  BY <1>2
<1>4. /\ s[a] = "@" /\ s[d] = "." /\ \A k \in i..(a - 1) : s[k] \in EmailLocal
      /\ \A k \in (a + 1)..(d - 1) : s[k] \in EmailDomain
      /\ \A k \in (d + 1)..(e - 1) : s[k] \in Alpha
  BY <1>3 DEF EmailParts
<1>5. /\ i \in Nat /\ a \in Nat /\ d \in Nat /\ e \in Nat /\ e <= N + 1
      /\ a \in 1..N /\ a \in (i + 1)..N /\ d \in 1..N /\ i \in 1..(N + 1) /\ a \in i..(N + 1)
      /\ a + 2 <= d /\ d + 3 <= e
  BY <1>1
<1>6. RunEnd(s, i, EmailLocal) = a
  <2>1. At(s, a) \notin EmailLocal  BY <1>1, <1>4, <1>5, EmailClasses
  <2> QED BY <1>4, <1>5, <2>1, EmailClasses, RunEndOnly
<1> DEFINE b == a + 1
           c == d + 1
           D == RunEnd(s, b, EmailDomain)
           f == RunEnd(s, c, Alpha)
           K == EmailDots(s, a)
           m == Max(K)
           g == RunEnd(s, m + 1, Alpha)
<1>7. \A x : x \in K <=> x \in (a + 2)..(D - 1) /\ s[x] = "." /\ RunEnd(s, x + 1, Alpha) >= x + 3
  BY DEF EmailDots
<1>8. EmailEnd(s, a) = IF At(s, a) # "@" \/ K = {} THEN 0 ELSE g  BY DEF EmailEnd
<1>9. b \in 1..(N + 1) /\ c \in 1..(N + 1) /\ b = a + 1 /\ c = d + 1  BY <1>1, <1>5
<1> HIDE DEF b, c, D, f, K, m, g
<1>10. D \in b..(N + 1) /\ At(s, D) \notin EmailDomain  BY <1>9, EmailClasses, RunEndIs DEF D
<1>11. f \in c..(N + 1) /\ At(s, f) \notin Alpha  BY <1>9, EmailClasses, RunEndIs DEF f
<1> HIDE DEF N
<1>12. d < D
  <2> SUFFICES ASSUME D <= d PROVE FALSE  BY <1>1, <1>5, <1>9, <1>10
  <2>1. D \in 1..N /\ (D = d \/ D \in (a + 1)..(d - 1))  BY <1>1, <1>5, <1>9, <1>10
  <2>2. s[D] \in EmailDomain  BY <1>4, <2>1, EmailClasses
  <2> QED BY <1>1, <1>10, <2>1, <2>2
<1>13. e <= f
  <2> SUFFICES ASSUME f < e PROVE FALSE  BY <1>1, <1>5, <1>9, <1>11
  <2>1. f \in 1..N /\ f \in (d + 1)..(e - 1)  BY <1>1, <1>5, <1>9, <1>11
  <2> QED BY <1>1, <1>4, <1>11, <2>1
<1>14. d \in K
  <2>1. d \in (a + 2)..(D - 1) /\ f >= d + 3  BY <1>1, <1>5, <1>9, <1>10, <1>11, <1>12, <1>13
  <2> QED BY <1>4, <1>7, <1>9, <2>1 DEF f
<1>15. /\ \A x \in K : x \in (a + 2)..N /\ s[x] = "."
       /\ \A x \in K : RunEnd(s, x + 1, Alpha) \in (x + 3)..(N + 1)
  BY <1>5, EmailDotsAre DEF K, N
<1>16. m \in K /\ d <= m
  <2>1. K \subseteq 1..N  BY <1>1, <1>5, <1>15
  <2> QED BY <1>1, <1>14, <2>1, LastOf DEF m
<1>17. m \in (a + 2)..N /\ s[m] = "." /\ g \in (m + 3)..(N + 1)  BY <1>15, <1>16 DEF g
<1>18. e <= g /\ g # 0
  <2>1. CASE m = d
    <3>1. g = f  BY <1>9, <2>1 DEF f, g
    <3> QED BY <1>1, <1>5, <1>9, <1>11, <1>13, <3>1
  <2>2. CASE m # d
    <3>1. m \notin (d + 1)..(e - 1)  BY <1>4, <1>17, EmailClasses
    <3> QED BY <1>1, <1>5, <1>16, <1>17, <2>2, <3>1
  <2> QED BY <2>1, <2>2
<1>19. EmailEnd(s, a) = g  BY <1>1, <1>4, <1>5, <1>8, <1>14
<1> QED BY <1>5, <1>6, <1>18, <1>19 DEF N

LEMMA EmailsFound ==
  ASSUME NEW Char, NEW s \in Seq(Char)
  PROVE  Emails(s) = LeftToRight(Longest(Shaped(s, EmailShape)))
<1> DEFINE N == Len(s)
           match == [i \in DOMAIN s |-> EmailAt(s, i)]
           skip == [i \in DOMAIN s |-> Max({i + 1, RunEnd(s, i, EmailLocal)})]
           S == Shaped(s, EmailShape)
           end(i) == RunEnd(s, i, EmailLocal)
<1>1. N \in Nat /\ DOMAIN s = 1..N  OBVIOUS
<1>2. match = [i \in 1..N |-> match[i]] /\ skip = [i \in 1..N |-> skip[i]]  BY <1>1
<1>3. \A i \in 1..N : match[i] = IF end(i) = i THEN 0 ELSE EmailEnd(s, end(i))
  BY <1>1 DEF EmailAt, EmailEnd, EmailDots
<1>4. \A i \in 1..N : skip[i] = Max({i + 1, end(i)})  BY <1>1
<1>5. \A p : p \in S <=> p \in (1..N) \X (2..(N + 1)) /\ p[1] < p[2] /\ EmailShape(Slice(s, p[1], p[2]))
  BY DEF Shaped
<1>6. ASSUME NEW i \in 1..N
      PROVE  /\ end(i) \in i..(N + 1) /\ At(s, end(i)) \notin EmailLocal
             /\ \A k \in i..(end(i) - 1) : k \in 1..N /\ s[k] \in EmailLocal
  <2>1. i \in 1..(N + 1)  BY <1>1
  <2> QED BY <2>1, EmailClasses, RunEndIs
<1> HIDE DEF match, skip, S, end
<1>7. ASSUME NEW i \in 1..N
      PROVE  /\ match[i] \in Nat
             /\ match[i] # 0 => match[i] \in (i + 1)..(N + 1) /\ EmailShape(Slice(s, i, match[i]))
  <2> DEFINE a == end(i)
  <2>1. a \in i..(N + 1) /\ \A k \in i..(a - 1) : s[k] \in EmailLocal  BY <1>6
  <2>2. match[i] = IF a = i THEN 0 ELSE EmailEnd(s, a)  BY <1>3
  <2> HIDE DEF a
  <2>3. CASE a = i  BY <2>2, <2>3
  <2>4. CASE a # i
    <3>1. a \in (i + 1)..(N + 1)  BY <1>1, <2>1, <2>4
    <3> QED BY <2>1, <2>2, <2>4, <3>1, EmailEndIs
  <2> QED BY <2>3, <2>4
<1>8. ASSUME NEW p \in S
      PROVE  p = <<p[1], p[2]>> /\ p[1] \in 1..N /\ match[p[1]] # 0 /\ p[2] <= match[p[1]] /\ p[2] \in Nat
  <2> DEFINE i == p[1]
             e == p[2]
  <2>1. p = <<i, e>> /\ i \in 1..N /\ e \in (i + 1)..(N + 1) /\ EmailShape(Slice(s, i, e)) /\ e \in Nat
    BY <1>1, <1>5
  <2> HIDE DEF i, e
  <2>2. PICK a \in (i + 1)..N : end(i) = a /\ EmailEnd(s, a) # 0 /\ e <= EmailEnd(s, a)
    BY <2>1, EmailEndLongest DEF end
  <2>3. match[i] = EmailEnd(s, a)  BY <1>1, <1>3, <2>1, <2>2
  <2> QED BY <2>1, <2>2, <2>3 DEF i, e
<1>9. ASSUME NEW i \in 1..N, match[i] # 0
      PROVE  match[i] \in (i + 1)..(N + 1) /\ <<i, match[i]>> \in S
  <2> DEFINE e == match[i]
             p == <<i, e>>
  <2>1. e \in (i + 1)..(N + 1) /\ EmailShape(Slice(s, i, e))  BY <1>7, <1>9
  <2> HIDE DEF e
  <2>2. p \in (1..N) \X (2..(N + 1)) /\ p[1] = i /\ p[2] = e /\ i < e  BY <1>1, <2>1
  <2>3. p \in S
    <3> HIDE DEF p
    <3> QED BY <1>5, <2>1, <2>2
  <2> QED BY <2>1, <2>3 DEF e
<1> HIDE DEF N
<1>10. ASSUME NEW i \in 1..N
       PROVE  skip[i] \in {i + 1, end(i)} /\ skip[i] \in (i + 1)..(N + 1) /\ skip[i] \in Nat /\ end(i) \in Nat
  <2>1. end(i) \in i..(N + 1)  BY <1>6
  <2>2. i + 1 \in Nat /\ end(i) \in Nat /\ end(i) <= N + 1 /\ skip[i] = Max({i + 1, end(i)})
    BY <1>1, <1>4, <2>1
  <2>3. skip[i] \in {i + 1, end(i)} /\ i + 1 <= skip[i]  BY <2>2, MaxOfTwo
  <2>4. skip[i] \in Nat  BY <2>2, <2>3
  <2> QED BY <1>1, <2>2, <2>3, <2>4
<1>11. ASSUME NEW i \in 1..N, match[i] = 0, NEW k \in i..(skip[i] - 1), k # i
       PROVE  match[k] = 0
  <2> DEFINE a == end(i)
  <2>1. a \in i..(N + 1) /\ At(s, a) \notin EmailLocal /\ \A j \in i..(a - 1) : j \in 1..N /\ s[j] \in EmailLocal
    BY <1>6
  <2>2. skip[i] \in {i + 1, a} /\ a \in Nat  BY <1>10
  <2>3. match[i] = IF a = i THEN 0 ELSE EmailEnd(s, a)  BY <1>3
  <2> HIDE DEF a
  <2>4. skip[i] # i + 1  BY <1>1, <1>11
  <2>5. k \in (i + 1)..(a - 1) /\ a # i  BY <1>1, <1>11, <2>2, <2>4
  <2>6. k \in 1..N /\ k \in 1..(N + 1) /\ a \in k..(N + 1) /\ a # k /\ \A j \in k..(a - 1) : s[j] \in EmailLocal
    BY <1>1, <2>1, <2>5
  <2>7. end(k) = a  BY <2>1, <2>6, EmailClasses, RunEndOnly DEF end, N
  <2>8. EmailEnd(s, a) = 0  BY <1>11, <2>3, <2>5
  <2> QED BY <1>3, <2>6, <2>7, <2>8
<1>12. Finds(N, S, match, skip)
  <2>1. match \in [1..N -> Nat] /\ skip \in [1..N -> Nat]  BY <1>2, <1>7, <1>10
  <2>2. \A i \in 1..N : match[i] = 0 => skip[i] \in (i + 1)..(N + 1) /\ \A k \in i..(skip[i] - 1) : match[k] = 0
    BY <1>10, <1>11
  <2> QED BY <1>8, <1>9, <2>1, <2>2 DEF Finds
<1>13. Scan(s, match, skip) = LeftToRight(Longest(S))  BY <1>12, ScanFinds DEF N
<1> QED BY <1>13 DEF Emails, match, skip, S

\* Each step of forgeops_strict_privacy_normalize_message finds, in whatever
\* the steps before made of the message, what its rule describes: the message
\* is normalized by the rules, whatever its length and its characters, as long
\* as no character is the one that stands for the end of a text
\* (strict_privacy.c:121-294).
THEOREM MessagesNormalize ==
  ASSUME NEW Char, "end" \notin Char, NEW message \in Seq(Char)
  PROVE  NormalizesByTheRules(message)
<1> DEFINE All == Char \cup {"<email>", "<str>", "0x", "<uuid>", "<n>"}
           emails == Replace(message, Emails(message), "<email>")
           double == Replace(emails, Quoted(emails, "\"", FALSE), "<str>")
           single == Replace(double, Quoted(double, "'", TRUE), "<str>")
           hex == Replace(single, HexObjectIds(single), "0x")
           uuids == Replace(hex, Uuids(hex), "<uuid>")
           numbers == Replace(uuids, Numbers(uuids), "<n>")
           Found(s, Shape(_)) == LeftToRight(Longest(Shaped(s, Shape)))
           Alone(s, Shape(_)) == LeftToRight(Longest({p \in Shaped(s, Shape) : StandsAlone(s, p, StrictWord)}))
<1>1. "end" \notin All  OBVIOUS
<1>2. ASSUME NEW s \in Seq(All), NEW stretches, NEW mark \in All
      PROVE  Replace(s, stretches, mark) \in Seq(All)
  <2> HIDE DEF All
  <2>1. Replace(s, stretches, mark) \in Seq(All \cup {mark})  BY ReplaceType
  <2>2. All \cup {mark} = All  OBVIOUS
  <2> QED BY <2>1, <2>2
<1>3. message \in Seq(All) /\ "<email>" \in All /\ "<str>" \in All /\ "0x" \in All /\ "<uuid>" \in All
  OBVIOUS
<1> HIDE DEF All
<1>4. emails \in Seq(All) /\ double \in Seq(All) /\ single \in Seq(All) /\ hex \in Seq(All) /\ uuids \in Seq(All)
  <2>1. emails \in Seq(All)  BY <1>2, <1>3
  <2>2. double \in Seq(All)
    <3> HIDE DEF emails
    <3> QED BY <1>2, <1>3, <2>1, Zenon
  <2>3. single \in Seq(All)
    <3> HIDE DEF double
    <3> QED BY <1>2, <1>3, <2>2, Zenon
  <2>4. hex \in Seq(All)
    <3> HIDE DEF single
    <3> QED BY <1>2, <1>3, <2>3
  <2>5. uuids \in Seq(All)
    <3> HIDE DEF hex
    <3> QED BY <1>2, <1>3, <2>4
  <2> QED BY <2>1, <2>2, <2>3, <2>4, <2>5
<1>5. NormalizeMessage(message) = numbers  BY Zenon DEF NormalizeMessage
<1>6. Emails(message) = Found(message, EmailShape)  BY EmailsFound
<1> HIDE DEF emails, double, single, hex, uuids, numbers
<1>7. Quoted(emails, "\"", FALSE) = Found(emails, LAMBDA t : QuotedShape(t, "\""))
  <2> DEFINE quote == "\""
  <2>1. quote # "end" /\ quote # "newline"  BY Zenon
  <2> HIDE DEF quote
  <2>2. Quoted(emails, quote, FALSE) = LeftToRight(Longest(InQuotes(emails, quote, FALSE)))
    BY <1>1, <1>4, <2>1, QuotedFound
  <2>3. InQuotes(emails, quote, FALSE) = Shaped(emails, LAMBDA t : QuotedShape(t, quote))
    BY DEF InQuotes
  <2>4. Quoted(emails, quote, FALSE) = Found(emails, LAMBDA t : QuotedShape(t, quote))
    BY <2>2, <2>3
  <2> QED BY <2>4, Zenon DEF quote
<1>8. Quoted(double, "'", TRUE) = Alone(double, LAMBDA t : QuotedShape(t, "'"))
  <2> DEFINE quote == "'"
  <2>1. quote # "end" /\ quote # "newline"  BY Zenon
  <2> HIDE DEF quote
  <2>2. Quoted(double, quote, TRUE) = LeftToRight(Longest(InQuotes(double, quote, TRUE)))
    BY <1>1, <1>4, <2>1, QuotedFound
  <2>3. InQuotes(double, quote, TRUE) = {p \in Shaped(double, LAMBDA t : QuotedShape(t, quote)) : StandsAlone(double, p, StrictWord)}
    BY DEF InQuotes
  <2>4. Quoted(double, quote, TRUE) = Alone(double, LAMBDA t : QuotedShape(t, quote))  BY <2>2, <2>3
  <2> QED BY <2>4, Zenon DEF quote
<1>9. HexObjectIds(single) = Found(single, HexShape)  BY <1>4, HexFound
<1>10. Uuids(hex) = Alone(hex, UuidShape)  BY <1>4, UuidsFound
<1>11. Numbers(uuids) = Alone(uuids, LAMBDA t : ToSet(t) \subseteq StrictDigit)
  BY <1>4, NumbersFound
<1>12. NormalizesByTheRules(message) <=>
         LET emails1 == Replace(message, Found(message, EmailShape), "<email>")
             double1 == Replace(emails1, Found(emails1, LAMBDA t : QuotedShape(t, "\"")), "<str>")
             single1 == Replace(double1, Alone(double1, LAMBDA t : QuotedShape(t, "'")), "<str>")
             hex1 == Replace(single1, Found(single1, HexShape), "0x")
             uuids1 == Replace(hex1, Alone(hex1, UuidShape), "<uuid>")
         IN NormalizeMessage(message) = Replace(uuids1, Alone(uuids1, LAMBDA t : ToSet(t) \subseteq StrictDigit), "<n>")
  BY Zenon DEF NormalizesByTheRules
<1> HIDE DEF Found, Alone
<1>13. emails = Replace(message, Found(message, EmailShape), "<email>")  BY <1>6 DEF emails
<1>14. double = Replace(emails, Found(emails, LAMBDA t : QuotedShape(t, "\"")), "<str>")
  BY <1>7, Zenon DEF double
<1>15. single = Replace(double, Alone(double, LAMBDA t : QuotedShape(t, "'")), "<str>")
  BY <1>8, Zenon DEF single
<1>16. hex = Replace(single, Found(single, HexShape), "0x")  BY <1>9 DEF hex
<1>17. uuids = Replace(hex, Alone(hex, UuidShape), "<uuid>")  BY <1>10 DEF uuids
<1>18. numbers = Replace(uuids, Alone(uuids, LAMBDA t : ToSet(t) \subseteq StrictDigit), "<n>")
  BY <1>11 DEF numbers
<1> QED BY <1>5, <1>12, <1>13, <1>14, <1>15, <1>16, <1>17, <1>18, Zenon

\* The messages of the run are texts of characters.
MessageText == MessageChars \cup {"1"}

LEMMA MessageTexts ==
  "end" \notin MessageText /\ Starts["messages"] \subseteq Seq(MessageText) /\ Pieces["messages"] \subseteq Seq(MessageText)
<1> DEFINE apostrophe == "'"
           quotationMark == "\""
<1>1. "end" \notin MessageText  BY Zenon DEF MessageText, MessageChars
<1>2. /\ "0" \in MessageText /\ "1" \in MessageText /\ "a" \in MessageText /\ "." \in MessageText /\ "@" \in MessageText
      /\ "-" \in MessageText /\ "x" \in MessageText
  BY Zenon DEF MessageText, MessageChars
<1>3. apostrophe \in MessageText /\ quotationMark \in MessageText
  BY Zenon DEF MessageText, MessageChars
<1>4. Starts["messages"] = MessageStarts /\ Pieces["messages"] = One(MessageChars)
  BY DEF Starts, Pieces
<1>5. MessageStarts =
        { << >>, <<"a", "@", "a", ".", "a">>, <<"a", "@", "a", ".", "a", "a", ".">>, <<"0", "x", "1", "a">>,
          <<apostrophe, "a">>, <<quotationMark, "a", "@">>,
          Ones(8) \o <<"-">> \o Ones(4) \o <<"-">> \o Ones(4) \o <<"-">> \o Ones(4) \o <<"-">> \o Ones(11) }
  BY Zenon DEF MessageStarts
<1> HIDE DEF apostrophe, quotationMark
<1>6. \A n \in Nat : Ones(n) \in Seq(MessageText)  BY <1>2 DEF Ones
<1>7. Ones(8) \o <<"-">> \o Ones(4) \o <<"-">> \o Ones(4) \o <<"-">> \o Ones(4) \o <<"-">> \o Ones(11) \in Seq(MessageText)
  <2>1. Ones(8) \in Seq(MessageText) /\ Ones(4) \in Seq(MessageText) /\ Ones(11) \in Seq(MessageText)
    BY <1>6
  <2>2. <<"-">> \in Seq(MessageText)  BY <1>2
  <2>3. \A t, u \in Seq(MessageText) : t \o u \in Seq(MessageText)  OBVIOUS
  <2> QED BY <2>1, <2>2, <2>3
<1>8. MessageStarts \subseteq Seq(MessageText)
  <2>1. << >> \in Seq(MessageText) /\ <<"0", "x", "1", "a">> \in Seq(MessageText)  BY <1>2
  <2>2. <<"a", "@", "a", ".", "a">> \in Seq(MessageText) /\ <<"a", "@", "a", ".", "a", "a", ".">> \in Seq(MessageText)
    BY <1>2
  <2>3. <<apostrophe, "a">> \in Seq(MessageText) /\ <<quotationMark, "a", "@">> \in Seq(MessageText)
    BY <1>2, <1>3
  <2> QED BY <1>5, <1>7, <2>1, <2>2, <2>3, Zenon
<1>9. One(MessageChars) \subseteq Seq(MessageText)
  <2>1. \A c \in MessageText : <<c>> \in Seq(MessageText)  OBVIOUS
  <2>2. MessageChars \subseteq MessageText  BY DEF MessageText
  <2> QED BY <2>1, <2>2 DEF One
<1> QED BY <1>1, <1>4, <1>8, <1>9

\* Strict privacy's fingerprint is taken of a message without its varying
\* parts: the run's invariant, for messages that grow without a bound
\* (strict_privacy.c:121-294).
THEOREM ScannedMessagesAreNormalized == ScanSpec => []MessagesAreNormalized
<1> DEFINE Inv == Reads("messages", Seq(MessageText))
<1>1. \A text, piece \in Seq(MessageText) : text \o piece \in Seq(MessageText)  OBVIOUS
<1>2. (ScanInit => Inv) /\ (Inv /\ [ScanNext]_scanVars => Inv')  BY <1>1, MessageTexts, InputsAreTexts DEF Reads
<1>3. Inv => MessagesAreNormalized  BY MessageTexts, MessagesNormalize DEF Reads, MessagesAreNormalized
<1> QED BY <1>2, <1>3, PTL DEF ScanSpec

-----------------------------------------------------------------------------
(***************************************************************************)
(* Settings: the list of fields that strict privacy lets through.          *)
(***************************************************************************)
\* The characters that the loop looks for.
Blank == " "
Comma == ","

\* The entry that starts at b ends at the first comma, and its field is what
\* stands between the blanks around it.
IsEntry(list, b, end, from, to) ==
  /\ end \in b..(Len(list) + 1) /\ At(list, end) \in {Comma, "end"}
  /\ \A k \in b..(end - 1) : k \in 1..Len(list) /\ list[k] # Comma
  /\ from \in b..end /\ (from = end \/ list[from] # Blank)
  /\ \A k \in b..(from - 1) : list[k] = Blank
  /\ to \in from..end /\ (to = from \/ list[to - 1] # Blank)
  /\ \A k \in to..(end - 1) : list[k] = Blank

LEMMA EntryIs ==
  ASSUME NEW Char, NEW list \in Seq(Char), NEW b \in 1..(Len(list) + 1)
  PROVE  IsEntry(list, b, EntryEnd(list, b), EntryFrom(list, b), EntryTo(list, b))
<1> DEFINE N == Len(list)
           Ends == {i \in b..(N + 1) : At(list, i) \in {Comma, "end"}}
           end == EntryEnd(list, b)
           Begins == {i \in b..end : i = end \/ list[i] # Blank}
           from == EntryFrom(list, b)
           Closes == {i \in from..end : i = from \/ list[i - 1] # Blank}
           to == EntryTo(list, b)
<1>1. N \in Nat /\ DOMAIN list = 1..N /\ At(list, N + 1) = "end" /\ \A k \in 1..N : At(list, k) = list[k]
  BY DEF At
<1>2. end \in Ends /\ \A i \in Ends : end <= i
  <2>1. Ends \subseteq Nat /\ N + 1 \in Ends  BY <1>1
  <2>2. end = Min(Ends)  BY Zenon DEF EntryEnd, Comma
  <2> HIDE DEF Ends, end
  <2> QED BY <2>1, <2>2, MinIs
<1>3. from = Min(Begins)  BY Zenon DEF EntryFrom, Blank
<1>4. to = Max(Closes)  BY Zenon DEF EntryTo, Blank
<1> HIDE DEF end, from, to
<1>5. end \in b..(N + 1) /\ At(list, end) \in {Comma, "end"}  BY <1>2
<1>6. \A k \in b..(end - 1) : k \in 1..N /\ list[k] # Comma
  <2> TAKE k \in b..(end - 1)
  <2>1. k \in 1..N /\ k \in b..(N + 1) /\ ~(end <= k)  BY <1>1, <1>5
  <2>2. At(list, k) \notin {Comma, "end"}  BY <1>2, <2>1
  <2> QED BY <1>1, <2>1, <2>2
<1> HIDE DEF Ends, N
<1>7. from \in Begins /\ \A i \in Begins : from <= i
  <2>1. Begins \subseteq Nat /\ end \in Begins  BY <1>1, <1>5
  <2> HIDE DEF Begins
  <2> QED BY <1>3, <2>1, MinIs
<1>8. from \in b..end /\ (from = end \/ list[from] # Blank)  BY <1>7
<1>9. \A k \in b..(from - 1) : list[k] = Blank
  <2> TAKE k \in b..(from - 1)
  <2>1. k \in b..end /\ ~(from <= k)  BY <1>1, <1>5, <1>8
  <2> QED BY <1>7, <2>1
<1> HIDE DEF Begins
<1>10. to \in Closes /\ \A i \in Closes : i <= to
  <2>1. Closes \subseteq 1..(N + 1) /\ from \in Closes  BY <1>1, <1>5, <1>8
  <2>2. N + 1 \in Nat  BY <1>1
  <2> HIDE DEF Closes
  <2> QED BY <1>4, <2>1, <2>2, LastOf
<1>11. to \in from..end /\ (to = from \/ list[to - 1] # Blank)  BY <1>10
<1>12. \A k \in to..(end - 1) : list[k] = Blank
  <2> TAKE k \in to..(end - 1)
  <2>1. k + 1 \in from..end /\ ~(k + 1 <= to) /\ k + 1 # from /\ (k + 1) - 1 = k
    BY <1>1, <1>5, <1>8, <1>11
  <2>2. k + 1 \notin Closes  BY <1>10, <2>1
  <2> QED BY <2>1, <2>2
<1> QED BY <1>5, <1>6, <1>8, <1>9, <1>11, <1>12 DEF IsEntry, end, from, to, N

\* What the loop has read from an entry on.
FieldsFrom(list, fields) ==
  \A b \in 1..(Len(list) + 1) :
    fields[b] = (IF EntryTo(list, b) > EntryFrom(list, b)
                 THEN <<Slice(list, EntryFrom(list, b), EntryTo(list, b))>> ELSE << >>)
              \o (IF At(list, EntryEnd(list, b)) = "end" THEN << >> ELSE fields[EntryEnd(list, b) + 1])

\* There is a function that the loop computes.
LEMMA FieldsAre ==
  ASSUME NEW Char, NEW list \in Seq(Char), "end" \notin Char, list # << >>
  PROVE  \E fields : /\ fields \in [1..(Len(list) + 1) -> Seq(Seq(Char))] /\ FieldsFrom(list, fields)
                   /\ FieldsFromList(list) = fields[1]
<1> DEFINE N == Len(list)
           D == 1..(N + 1)
           V == Seq(Seq(Char))
           end(b) == EntryEnd(list, b)
           last(b) == At(list, end(b)) = "end"
           field(b) == IF EntryTo(list, b) > EntryFrom(list, b)
                         THEN <<Slice(list, EntryFrom(list, b), EntryTo(list, b))>> ELSE << >>
           rank == [b \in D |-> N + 1 - b]
           step == [b \in D |-> IF last(b) THEN 0 ELSE end(b) + 1]
           def == [b \in D |-> [v \in V |-> field(b) \o v]]
           Is(f) == f = [b \in D |-> field(b) \o (IF last(b) THEN << >> ELSE f[end(b) + 1])]
           fields == CHOOSE f : Is(f)
<1>1. N \in Nat /\ DOMAIN list = 1..N /\ \A k \in 1..N : list[k] \in Char  OBVIOUS
<1>2. FieldsFromList(list) = fields[1]  BY DEF FieldsFromList
<1>3. ASSUME NEW b \in D
      PROVE  /\ end(b) \in b..(N + 1) /\ (~last(b) => end(b) + 1 \in D /\ end(b) + 1 > b)
             /\ field(b) \in V
  <2> DEFINE e == end(b)
             from == EntryFrom(list, b)
             to == EntryTo(list, b)
  <2>1. IsEntry(list, b, e, from, to)  BY EntryIs
  <2>2. e \in b..(N + 1) /\ from \in b..e /\ to \in from..e  BY <2>1 DEF IsEntry
  <2>3. At(list, N + 1) = "end"  BY <1>1 DEF At
  <2> HIDE DEF e, from, to
  <2>4. from \in 1..(N + 1) /\ to \in from..(N + 1)  BY <1>1, <2>2
  <2>5. Slice(list, from, to) \in Seq(Char)  BY <2>4, SliceIs DEF Holds
  <2>6. field(b) \in V
    <3> DEFINE t == Slice(list, from, to)
    <3>1. <<t>> \in V /\ << >> \in V
      <4> HIDE DEF t
      <4> QED BY <2>5 DEF t
    <3> HIDE DEF V
    <3> QED BY <3>1 DEF from, to
  <2>7. e # N + 1 => e + 1 \in D /\ e + 1 > b
    <3> HIDE DEF N
    <3> QED BY <1>1, <2>2
  <2>8. ~last(b) => e # N + 1  BY <2>3 DEF e
  <2> QED BY <2>2, <2>6, <2>7, <2>8 DEF e
<1> HIDE DEF N, end, last, field
<1>4. Descends(step, rank, D)
  <2>1. rank \in [D -> Nat] /\ \A b \in D : rank[b] = N + 1 - b  BY <1>1
  <2>2. \A b \in D : step[b] \in D => step[b] > b  BY <1>1, <1>3
  <2> HIDE DEF rank, step
  <2> QED BY <1>1, <2>1, <2>2 DEF Descends
<1>5. def \in [D -> [V -> V]]
  <2>1. \A v, w \in V : v \o w \in V  OBVIOUS
  <2> HIDE DEF V, D
  <2> QED BY <1>3, <2>1
<1>6. PICK f : Recursive(f, D, V, << >>, step, def)
  <2>1. << >> \in V  OBVIOUS
  <2> HIDE DEF D, V, rank, step, def
  <2> QED BY <1>4, <1>5, <2>1, RecursiveFunction
<1>7. f \in [D -> V]  BY <1>6 DEF Recursive
<1>8. ASSUME NEW b \in D
      PROVE  f[b] = field(b) \o (IF last(b) THEN << >> ELSE f[end(b) + 1])
  <2> DEFINE v == IF step[b] \in D THEN f[step[b]] ELSE << >>
  <2>1. f[b] = def[b][v]  BY <1>6 DEF Recursive
  <2>2. \A w \in V : def[b][w] = field(b) \o w  OBVIOUS
  <2>3. << >> \in V  OBVIOUS
  <2>4. step[b] = IF last(b) THEN 0 ELSE end(b) + 1  OBVIOUS
  <2>5. 0 \notin D /\ (~last(b) => end(b) + 1 \in D)  BY <1>1, <1>3
  <2> HIDE DEF def, V, step, D
  <2>6. v \in V /\ v = IF last(b) THEN << >> ELSE f[end(b) + 1]  BY <1>7, <2>3, <2>4, <2>5
  <2> HIDE DEF v
  <2> QED BY <2>1, <2>2, <2>6
<1>9. Is(f)
  <2> HIDE DEF D, V
  <2> QED BY <1>7, <1>8
<1>10. Is(fields)  BY <1>9
<1> HIDE DEF fields
<1>11. \A b \in D : fields[b] = field(b) \o (IF last(b) THEN << >> ELSE fields[end(b) + 1])
  BY <1>10
<1>12. FieldsFrom(list, fields)  BY <1>11 DEF FieldsFrom, field, last, end, N
<1>13. \A b \in D : fields[b] \in V
  <2> DEFINE Bad == {b \in D : fields[b] \notin V}
  <2> SUFFICES ASSUME Bad # {} PROVE FALSE  OBVIOUS
  <2>1. PICK b \in Bad : \A c \in D : rank[c] < rank[b] => c \notin Bad
    <3>1. Bad \subseteq D /\ rank \in [D -> Nat]  BY <1>1
    <3> HIDE DEF Bad, rank, D
    <3> QED BY <3>1, LeastRank
  <2>2. b \in D /\ fields[b] \notin V  BY <2>1
  <2> DEFINE v == IF last(b) THEN << >> ELSE fields[end(b) + 1]
  <2>3. v \in V
    <3>1. CASE last(b)  BY <3>1
    <3>2. CASE ~last(b)
      <4>1. end(b) + 1 \in D /\ end(b) + 1 > b  BY <1>3, <2>2, <3>2
      <4>2. rank[end(b) + 1] < rank[b]  BY <1>1, <2>2, <4>1
      <4>3. end(b) + 1 \notin Bad  BY <2>1, <4>1, <4>2
      <4> QED BY <3>2, <4>1, <4>3
    <3> QED BY <3>1, <3>2
  <2>4. field(b) \o v \in V
    <3>1. \A u, w \in V : u \o w \in V  OBVIOUS
    <3> HIDE DEF V, v, D
    <3> QED BY <1>3, <2>2, <2>3, <3>1
  <2> QED BY <1>11, <2>2, <2>4
<1>14. fields \in [D -> V]
  <2>1. fields = [b \in D |-> fields[b]]  BY <1>10
  <2> QED BY <1>13, <2>1
<1> QED BY <1>2, <1>12, <1>14 DEF N

\* The stretches of a list that its rule calls fields.
CommasOf(list) == {0, Len(list) + 1} \cup {i \in DOMAIN list : list[i] = Comma}
Between(list, before, after, i, e) ==
  before < i /\ e <= after /\ \A k \in ((before + 1)..(i - 1)) \cup (e..(after - 1)) : list[k] = Blank
IsField(list, i, e) ==
  /\ i \in 1..Len(list) /\ e \in (i + 1)..(Len(list) + 1) /\ list[i] # Blank /\ list[e - 1] # Blank
  /\ \A k \in i..(e - 1) : list[k] # Comma
  /\ \E before \in CommasOf(list), after \in CommasOf(list) : Between(list, before, after, i, e)

\* What stands between the blanks of an entry is a field.
LEMMA EntryIsField ==
  ASSUME NEW Char, NEW list \in Seq(Char), "end" \notin Char, NEW b \in 1..(Len(list) + 1), b = 1 \/ list[b - 1] = Comma,
         NEW end, NEW from, NEW to, IsEntry(list, b, end, from, to), to > from
  PROVE  IsField(list, from, to)
<1> DEFINE N == Len(list)
<1>1. N \in Nat /\ DOMAIN list = 1..N /\ \A k \in 1..N : list[k] \in Char  OBVIOUS
<1>2. /\ end \in b..(N + 1) /\ At(list, end) \in {Comma, "end"}
      /\ \A k \in b..(end - 1) : k \in 1..N /\ list[k] # Comma
      /\ from \in b..end /\ (from = end \/ list[from] # Blank)
      /\ \A k \in b..(from - 1) : list[k] = Blank
      /\ to \in from..end /\ (to = from \/ list[to - 1] # Blank)
      /\ \A k \in to..(end - 1) : list[k] = Blank
  BY DEF IsEntry
<1>3. end \in CommasOf(list)
  <2>1. end \in 1..N => list[end] = Comma  BY <1>1, <1>2 DEF At
  <2>2. end \in 1..N \/ end = N + 1  BY <1>1, <1>2
  <2> QED BY <1>1, <2>1, <2>2 DEF CommasOf
<1>4. b - 1 \in CommasOf(list)
  <2>1. b # 1 => b - 1 \in 1..N  BY <1>1
  <2> QED BY <1>1, <2>1 DEF CommasOf
<1> HIDE DEF N
<1>5. b \in Nat /\ from \in Nat /\ to \in Nat /\ end \in Nat /\ b <= from /\ from < to /\ to <= end /\ end <= N + 1 /\ b >= 1
  BY <1>1, <1>2
<1>6. from \in 1..N /\ to \in (from + 1)..(N + 1) /\ list[from] # Blank /\ list[to - 1] # Blank
  BY <1>1, <1>2, <1>5
<1>7. \A k \in from..(to - 1) : list[k] # Comma
  <2> TAKE k \in from..(to - 1)
  <2>1. k \in b..(end - 1)  BY <1>5
  <2> QED BY <1>2, <2>1
<1>8. Between(list, b - 1, end, from, to)
  <2>1. b - 1 < from /\ to <= end /\ (b - 1) + 1 = b  BY <1>5
  <2> QED BY <1>2, <2>1 DEF Between
<1> QED BY <1>3, <1>4, <1>6, <1>7, <1>8 DEF IsField, N

\* A field that starts in an entry is what stands between its blanks.
LEMMA FieldOfEntry ==
  ASSUME NEW Char, NEW list \in Seq(Char), "end" \notin Char, NEW b \in 1..(Len(list) + 1), b = 1 \/ list[b - 1] = Comma,
         NEW end, NEW from, NEW to, IsEntry(list, b, end, from, to),
         NEW i, NEW e, IsField(list, i, e), i >= b
  PROVE  (i < end /\ i = from /\ e = to) \/ (At(list, end) # "end" /\ i >= end + 1)
<1> DEFINE N == Len(list)
<1>1. N \in Nat /\ DOMAIN list = 1..N /\ \A k \in 1..N : list[k] \in Char  OBVIOUS
<1>2. /\ end \in b..(N + 1) /\ At(list, end) \in {Comma, "end"}
      /\ \A k \in b..(end - 1) : k \in 1..N /\ list[k] # Comma
      /\ from \in b..end /\ (from = end \/ list[from] # Blank)
      /\ \A k \in b..(from - 1) : list[k] = Blank
      /\ to \in from..end /\ (to = from \/ list[to - 1] # Blank)
      /\ \A k \in to..(end - 1) : list[k] = Blank
  BY DEF IsEntry
<1>3. /\ i \in 1..N /\ e \in (i + 1)..(N + 1) /\ list[i] # Blank /\ list[e - 1] # Blank
      /\ \A k \in i..(e - 1) : list[k] # Comma
  BY DEF IsField
<1>4. PICK before \in CommasOf(list), after \in CommasOf(list) : Between(list, before, after, i, e)
  BY DEF IsField
<1>5. /\ before < i /\ e <= after
      /\ \A k \in (before + 1)..(i - 1) : list[k] = Blank
      /\ \A k \in e..(after - 1) : list[k] = Blank
  BY <1>4 DEF Between
<1>6. \A c \in CommasOf(list) : c \in 0..(N + 1) /\ (c \in 1..N => list[c] = Comma)
  BY <1>1 DEF CommasOf
<1>7. end \in 1..N => list[end] = Comma /\ At(list, end) # "end"  BY <1>1, <1>2 DEF At
<1> HIDE DEF N
<1>8. /\ b \in Nat /\ from \in Nat /\ to \in Nat /\ end \in Nat /\ i \in Nat /\ e \in Nat /\ before \in Nat /\ after \in Nat
      /\ b <= from /\ from <= to /\ to <= end /\ end <= N + 1 /\ b >= 1 /\ i < e /\ e <= N + 1 /\ i <= N
      /\ before <= N + 1 /\ after <= N + 1
  <2>1. before \in 0..(N + 1) /\ after \in 0..(N + 1)  BY <1>6
  <2> QED BY <1>1, <1>2, <1>3, <2>1
<1>9. CASE i < end
  <2>1. e <= end
    <3> SUFFICES ASSUME end < e PROVE FALSE  BY <1>8
    <3>1. end \in 1..N /\ end \in i..(e - 1)  BY <1>1, <1>8, <1>9
    <3> QED BY <1>3, <1>7, <3>1
  <2>2. before < b
    <3> SUFFICES ASSUME b <= before PROVE FALSE  BY <1>8
    <3>1. before \in 1..N /\ before \in b..(end - 1)  BY <1>1, <1>5, <1>8, <1>9
    <3> QED BY <1>2, <1>6, <3>1
  <2>3. end <= after
    <3> SUFFICES ASSUME after < end PROVE FALSE  BY <1>8
    <3>1. after \in 1..N /\ after \in b..(end - 1)  BY <1>1, <1>5, <1>8, <1>9
    <3> QED BY <1>2, <1>6, <3>1
  <2>4. ~(from < i)
    <3> SUFFICES ASSUME from < i PROVE FALSE  OBVIOUS
    <3>1. from \in (before + 1)..(i - 1) /\ from # end  BY <1>8, <1>9, <2>2
    <3> QED BY <1>2, <1>5, <3>1
  <2>5. ~(i < from)
    <3> SUFFICES ASSUME i < from PROVE FALSE  OBVIOUS
    <3>1. i \in b..(from - 1)  BY <1>8
    <3> QED BY <1>2, <1>3, <3>1
  <2>6. i = from  BY <1>8, <2>4, <2>5
  <2>7. ~(to < e)
    <3> SUFFICES ASSUME to < e PROVE FALSE  OBVIOUS
    <3>1. e - 1 \in to..(end - 1)  BY <1>8, <2>1
    <3> QED BY <1>2, <1>3, <3>1
  <2>8. ~(e < to)
    <3> SUFFICES ASSUME e < to PROVE FALSE  OBVIOUS
    <3>1. to - 1 \in e..(after - 1) /\ to # from  BY <1>8, <2>3, <2>6
    <3> QED BY <1>2, <1>5, <3>1
  <2>9. e = to  BY <1>8, <2>7, <2>8
  <2> QED BY <1>9, <2>6, <2>9
<1>10. CASE ~(i < end)
  <2>1. end \in 1..N  BY <1>1, <1>8, <1>10
  <2>2. i # end
    <3>1. i \in i..(e - 1)  BY <1>8
    <3> QED BY <1>3, <1>7, <2>1, <3>1
  <2> QED BY <1>7, <1>8, <1>10, <2>1, <2>2
<1> QED BY <1>9, <1>10

LEMMA ToSetConcat ==
  ASSUME NEW V, NEW t \in Seq(V), NEW u \in Seq(V)
  PROVE  ToSet(t \o u) = ToSet(t) \cup ToSet(u)
<1>1. Len(t) \in Nat /\ Len(u) \in Nat /\ DOMAIN t = 1..Len(t) /\ DOMAIN u = 1..Len(u) /\ DOMAIN (t \o u) = 1..(Len(t) + Len(u))
  OBVIOUS
<1>2. ASSUME NEW k \in 1..(Len(t) + Len(u))
      PROVE  (t \o u)[k] \in {t[i] : i \in 1..Len(t)} \cup {u[i] : i \in 1..Len(u)}
  <2>1. CASE k <= Len(t)  BY <1>1, <2>1
  <2>2. CASE k > Len(t)
    <3>1. k - Len(t) \in 1..Len(u) /\ (t \o u)[k] = u[k - Len(t)]  BY <1>1, <2>2
    <3> QED BY <3>1
  <2> QED BY <1>1, <2>1, <2>2
<1>3. ASSUME NEW i \in 1..Len(t)
      PROVE  i \in 1..(Len(t) + Len(u)) /\ (t \o u)[i] = t[i]
  BY <1>1
<1>4. ASSUME NEW i \in 1..Len(u)
      PROVE  Len(t) + i \in 1..(Len(t) + Len(u)) /\ (t \o u)[Len(t) + i] = u[i]
  BY <1>1
<1> DEFINE w == t \o u
<1>5. DOMAIN w = 1..(Len(t) + Len(u))  BY <1>1
<1>6. \A i \in 1..Len(t) : t[i] \in {w[k] : k \in 1..(Len(t) + Len(u))}
  <2> TAKE i \in 1..Len(t)
  <2>1. i \in 1..(Len(t) + Len(u)) /\ w[i] = t[i]  BY <1>3
  <2> HIDE DEF w
  <2> QED BY <2>1
<1>7. \A i \in 1..Len(u) : u[i] \in {w[k] : k \in 1..(Len(t) + Len(u))}
  <2> TAKE i \in 1..Len(u)
  <2>1. Len(t) + i \in 1..(Len(t) + Len(u)) /\ w[Len(t) + i] = u[i]  BY <1>4
  <2> HIDE DEF w
  <2> QED BY <2>1
<1>8. \A k \in 1..(Len(t) + Len(u)) : w[k] \in {t[i] : i \in 1..Len(t)} \cup {u[i] : i \in 1..Len(u)}
  BY <1>2
<1> HIDE DEF w
<1>9. ToSet(w) = ToSet(t) \cup ToSet(u)  BY <1>1, <1>5, <1>6, <1>7, <1>8 DEF ToSet
<1> QED BY <1>9 DEF w

\* The fields of a list that begin at b or later, and their texts.
FieldsAt(list, b) == {p \in (1..Len(list)) \X (2..(Len(list) + 1)) : IsField(list, p[1], p[2]) /\ p[1] >= b}
TextsAt(list, b) == {Slice(list, p[1], p[2]) : p \in FieldsAt(list, b)}

\* They are the one of the entry at b and the ones of the entries after it.
LEMMA FieldsSplit ==
  ASSUME NEW Char, NEW list \in Seq(Char), "end" \notin Char, NEW b \in 1..(Len(list) + 1), b = 1 \/ list[b - 1] = Comma,
         NEW end, NEW from, NEW to, IsEntry(list, b, end, from, to)
  PROVE  FieldsAt(list, b) = (IF to > from THEN {<<from, to>>} ELSE {})
                             \cup (IF At(list, end) = "end" THEN {} ELSE FieldsAt(list, end + 1))
<1> DEFINE N == Len(list)
           Own == IF to > from THEN {<<from, to>>} ELSE {}
           Others == IF At(list, end) = "end" THEN {} ELSE FieldsAt(list, end + 1)
<1>1. N \in Nat /\ end \in b..(N + 1) /\ from \in b..end /\ to \in from..end  BY DEF IsEntry
<1>2. ASSUME NEW p \in FieldsAt(list, b)
      PROVE  p \in Own \cup Others
  <2>1. p \in (1..N) \X (2..(N + 1)) /\ IsField(list, p[1], p[2]) /\ p[1] >= b  BY DEF FieldsAt
  <2> DEFINE i == p[1]
             e == p[2]
  <2>2. i \in 1..N /\ e \in (i + 1)..(N + 1) /\ p = <<i, e>>  BY <2>1 DEF IsField
  <2>3. IsField(list, i, e) /\ i >= b  BY <2>1
  <2> HIDE DEF i, e
  <2>4. (i < end /\ i = from /\ e = to) \/ (At(list, end) # "end" /\ i >= end + 1)
    BY <2>3, FieldOfEntry
  <2>5. CASE i = from /\ e = to
    <3>1. to > from  BY <1>1, <2>2, <2>5
    <3> QED BY <2>2, <2>5, <3>1
  <2>6. CASE At(list, end) # "end" /\ i >= end + 1
    <3>1. p \in FieldsAt(list, end + 1)  BY <2>1, <2>6 DEF FieldsAt, i
    <3> QED BY <2>6, <3>1
  <2> QED BY <2>4, <2>5, <2>6
<1>3. ASSUME to > from
      PROVE  <<from, to>> \in FieldsAt(list, b)
  <2>1. IsField(list, from, to)  BY <1>3, EntryIsField
  <2>2. from \in 1..N /\ to \in (from + 1)..(N + 1)  BY <2>1 DEF IsField
  <2>3. <<from, to>> \in (1..N) \X (2..(N + 1)) /\ from >= b
    <3> HIDE DEF N
    <3> QED BY <1>1, <2>2
  <2> QED BY <2>1, <2>3 DEF FieldsAt
<1>4. ASSUME NEW p \in FieldsAt(list, end + 1)
      PROVE  p \in FieldsAt(list, b)
  <2>1. p \in (1..N) \X (2..(N + 1)) /\ IsField(list, p[1], p[2]) /\ p[1] >= end + 1
    BY DEF FieldsAt
  <2>2. p[1] \in Nat /\ end \in Nat /\ b \in Nat /\ end >= b  BY <1>1, <2>1
  <2>3. p[1] >= b  BY <2>1, <2>2
  <2> QED BY <2>1, <2>3 DEF FieldsAt
<1>5. FieldsAt(list, b) \subseteq Own \cup Others
  <2> HIDE DEF Own, Others
  <2> QED BY <1>2
<1>6. Own \subseteq FieldsAt(list, b)  BY <1>3
<1>7. Others \subseteq FieldsAt(list, b)  BY <1>4
<1>8. FieldsAt(list, b) = Own \cup Others
  <2> HIDE DEF Own, Others
  <2> QED BY <1>5, <1>6, <1>7
<1> QED BY <1>8

LEMMA ToSetOne ==
  ASSUME NEW V, NEW t \in V
  PROVE  <<t>> \in Seq(V) /\ ToSet(<<t>>) = {t} /\ << >> \in Seq(V) /\ ToSet(<< >>) = {}
<1>1. <<t>> \in Seq(V) /\ << >> \in Seq(V)  OBVIOUS
<1>2. DOMAIN <<t>> = {1} /\ <<t>>[1] = t /\ DOMAIN << >> = {}  OBVIOUS
<1> QED BY <1>1, <1>2 DEF ToSet

\* fields the start of an entry on the loop reads the fields that begin there.
LEMMA FieldsFound ==
  ASSUME NEW Char, NEW list \in Seq(Char), "end" \notin Char,
         NEW fields \in [1..(Len(list) + 1) -> Seq(Seq(Char))], FieldsFrom(list, fields)
  PROVE  \A b \in 1..(Len(list) + 1) : b = 1 \/ list[b - 1] = Comma => ToSet(fields[b]) = TextsAt(list, b)
<1> DEFINE N == Len(list)
           D == 1..(N + 1)
           V == Seq(Char)
           rank == [b \in D |-> N + 1 - b]
           StartsEntry(b) == b = 1 \/ list[b - 1] = Comma
           Bad == {b \in D : StartsEntry(b) /\ ToSet(fields[b]) # TextsAt(list, b)}
<1> SUFFICES ASSUME Bad # {} PROVE FALSE  OBVIOUS
<1>1. N \in Nat /\ DOMAIN list = 1..N /\ \A k \in 1..N : list[k] \in Char  OBVIOUS
<1>2. PICK b \in Bad : \A c \in D : rank[c] < rank[b] => c \notin Bad
  <2>1. Bad \subseteq D /\ rank \in [D -> Nat]  BY <1>1
  <2> HIDE DEF Bad, rank, D
  <2> QED BY <2>1, LeastRank
<1>3. b \in D /\ StartsEntry(b) /\ ToSet(fields[b]) # TextsAt(list, b)  BY <1>2
<1> DEFINE end == EntryEnd(list, b)
           from == EntryFrom(list, b)
           to == EntryTo(list, b)
           last == At(list, end) = "end"
           text == Slice(list, from, to)
           own == IF to > from THEN <<text>> ELSE << >>
           others == IF last THEN << >> ELSE fields[end + 1]
<1>4. IsEntry(list, b, end, from, to)  BY <1>3, EntryIs
<1>5. fields[b] = own \o others  BY <1>3 DEF FieldsFrom
<1>6. end \in b..(N + 1) /\ from \in b..end /\ to \in from..end /\ At(list, end) \in {Comma, "end"}
  BY <1>4 DEF IsEntry
<1> HIDE DEF end, from, to
<1>7. text \in V
  <2>1. from \in 1..(N + 1) /\ to \in from..(N + 1)  BY <1>1, <1>3, <1>6
  <2> QED BY <2>1, SliceIs DEF Holds
<1>8. ~last => end + 1 \in D /\ rank[end + 1] < rank[b] /\ StartsEntry(end + 1)
  <2> SUFFICES ASSUME ~last PROVE end + 1 \in D /\ rank[end + 1] < rank[b] /\ StartsEntry(end + 1)
    OBVIOUS
  <2>1. end \in DOMAIN list /\ list[end] = Comma  BY <1>6 DEF At
  <2> HIDE DEF N
  <2>2. end \in 1..N /\ b \in Nat /\ b <= end  BY <1>1, <1>3, <1>6, <2>1
  <2>3. end + 1 \in D /\ (end + 1) - 1 = end /\ N + 1 - (end + 1) < N + 1 - b  BY <1>1, <2>2
  <2> QED BY <1>3, <2>1, <2>3
<1>9. ~last => ToSet(fields[end + 1]) = TextsAt(list, end + 1)  BY <1>2, <1>8
<1>10. own \in Seq(V) /\ ToSet(own) = IF to > from THEN {text} ELSE {}
  <2> HIDE DEF V, text
  <2> QED BY <1>7, ToSetOne
<1>11. others \in Seq(V) /\ ToSet(others) = IF last THEN {} ELSE TextsAt(list, end + 1)
  <2>1. << >> \in Seq(V) /\ ToSet(<< >>) = {}
    <3> HIDE DEF V, text
    <3> QED BY <1>7, ToSetOne
  <2>2. ~last => fields[end + 1] \in Seq(V)  BY <1>8
  <2> HIDE DEF V, last
  <2> QED BY <1>9, <2>1, <2>2
<1>12. ToSet(fields[b]) = ToSet(own) \cup ToSet(others)
  <2>1. own \in Seq(V) /\ others \in Seq(V)  BY <1>10, <1>11
  <2> HIDE DEF own, others, V
  <2>2. ToSet(own \o others) = ToSet(own) \cup ToSet(others)  BY <2>1, ToSetConcat
  <2> QED BY <1>5, <2>2
<1>13. FieldsAt(list, b) = (IF to > from THEN {<<from, to>>} ELSE {}) \cup (IF last THEN {} ELSE FieldsAt(list, end + 1))
  <2>1. b = 1 \/ list[b - 1] = Comma  BY <1>3
  <2> QED BY <1>3, <1>4, <2>1, FieldsSplit
<1>14. TextsAt(list, b) = (IF to > from THEN {text} ELSE {}) \cup (IF last THEN {} ELSE TextsAt(list, end + 1))
  <2> HIDE DEF last
  <2>1. {Slice(list, p[1], p[2]) : p \in {<<from, to>>}} = {text}
    <3>1. <<from, to>>[1] = from /\ <<from, to>>[2] = to  OBVIOUS
    <3> QED BY <3>1
  <2> DEFINE Texts(P) == {Slice(list, p[1], p[2]) : p \in P}
  <2>2. Texts({}) = {} /\ Texts({<<from, to>>}) = {text}  BY <2>1
  <2> HIDE DEF text
  <2>3. \A P, Q : Texts(P \cup Q) = Texts(P) \cup Texts(Q)  OBVIOUS
  <2>4. TextsAt(list, b) = Texts(FieldsAt(list, b)) /\ TextsAt(list, end + 1) = Texts(FieldsAt(list, end + 1))
    BY Zenon DEF TextsAt
  <2> DEFINE A == FieldsAt(list, b)
             B == FieldsAt(list, end + 1)
             O == {<<from, to>>}
  <2> HIDE DEF Texts, A, B, O
  <2>5. A = (IF to > from THEN O ELSE {}) \cup (IF last THEN {} ELSE B)  BY <1>13 DEF A, B, O
  <2>6. Texts({}) = {} /\ Texts(O) = {text} /\ TextsAt(list, b) = Texts(A) /\ TextsAt(list, end + 1) = Texts(B)
    BY <2>2, <2>4 DEF A, B, O
  <2> DEFINE P == IF to > from THEN O ELSE {}
             Q == IF last THEN {} ELSE B
  <2>7. Texts(P) = (IF to > from THEN {text} ELSE {}) /\ Texts(Q) = (IF last THEN {} ELSE TextsAt(list, end + 1))
    BY <2>6
  <2>8. A = P \cup Q  BY <2>5
  <2> HIDE DEF P, Q
  <2>9. Texts(A) = Texts(P) \cup Texts(Q)  BY <2>3, <2>8
  <2> QED BY <2>6, <2>7, <2>9
<1> HIDE DEF own, others, text, last
<1> QED BY <1>3, <1>10, <1>11, <1>12, <1>14

\* The rule's stretches are the fields.
LEMMA NamedAreFields ==
  ASSUME NEW Char, NEW list \in Seq(Char), "end" \notin Char
  PROVE  FieldsStandInTheList(list) <=> ToSet(FieldsFromList(list)) = TextsAt(list, 1)
<1> DEFINE N == Len(list)
           comma == CommasOf(list)
           Bounded(p) == \E before \in comma, after \in comma : Between(list, before, after, p[1], p[2])
           Free(p) == Comma \notin ToSet(Slice(list, p[1], p[2]))
           named == {p \in (1..N) \X (2..(N + 1)) :
                      /\ p[1] < p[2] /\ list[p[1]] # Blank /\ list[p[2] - 1] # Blank
                      /\ Free(p) /\ Bounded(p)}
<1>1. FieldsStandInTheList(list) <=> ToSet(FieldsFromList(list)) = {Slice(list, p[1], p[2]) : p \in named}
  BY Zenon DEF FieldsStandInTheList, CommasOf, Between, Comma, Blank
<1>2. ASSUME NEW p \in (1..N) \X (2..(N + 1))
      PROVE  /\ p[1] < p[2] /\ list[p[1]] # Blank /\ list[p[2] - 1] # Blank /\ Free(p) /\ Bounded(p)
             <=> IsField(list, p[1], p[2]) /\ p[1] >= 1
  <2> DEFINE i == p[1]
             e == p[2]
  <2>1. N \in Nat /\ i \in 1..N /\ e \in 2..(N + 1) /\ i >= 1  OBVIOUS
  <2> HIDE DEF i, e
  <2>2. i < e <=> e \in (i + 1)..(N + 1)  BY <2>1
  <2>3. ASSUME i < e
        PROVE  Comma \notin ToSet(Slice(list, i, e)) <=> \A k \in i..(e - 1) : list[k] # Comma
    <3>1. i \in 1..(N + 1) /\ e \in i..(N + 1)  BY <2>1, <2>3
    <3> DEFINE t == Slice(list, i, e)
    <3>6. Holds(Char, t, list, i, e)  BY <3>1, SliceIs
    <3> HIDE DEF t
    <3>2. DOMAIN t = 1..(e - i) /\ \A k \in 1..(e - i) : t[k] = list[i + k - 1]  BY <3>6 DEF Holds
    <3> HIDE DEF t, N
    <3>3. \A k \in i..(e - 1) : k - i + 1 \in 1..(e - i) /\ i + (k - i + 1) - 1 = k  BY <2>1
    <3>4. \A k \in 1..(e - i) : i + k - 1 \in i..(e - 1)  BY <2>1
    <3>5. \A k \in i..(e - 1) : list[k] = t[k - i + 1]  BY <3>2, <3>3
    <3> QED BY <3>2, <3>3, <3>4, <3>5 DEF ToSet, t
  <2>4. Free(p) = (Comma \notin ToSet(Slice(list, i, e)))  BY DEF i, e
  <2>5. Bounded(p) = \E before \in CommasOf(list), after \in CommasOf(list) : Between(list, before, after, i, e)
    BY DEF i, e
  <2> HIDE DEF Free, Bounded
  <2>6. (i < e /\ list[i] # Blank /\ list[e - 1] # Blank /\ Free(p) /\ Bounded(p)) <=> (IsField(list, i, e) /\ i >= 1)
    BY <2>1, <2>2, <2>3, <2>4, <2>5 DEF IsField
  <2> QED BY <2>6 DEF i, e
<1>3. named = FieldsAt(list, 1)
  <2> HIDE DEF Free, Bounded
  <2> QED BY <1>2 DEF FieldsAt
<1> HIDE DEF named
<1> QED BY <1>1, <1>3 DEF TextsAt

\* The fields read from a list are the ones that stand in it, whatever the
\* list (configuration.c:31-61): a name is let through by strict privacy only
\* when the list names it as a whole, and every name it holds is let through.
THEOREM ListedFields ==
  ASSUME NEW Char, NEW list \in Seq(Char), "end" \notin Char
  PROVE  FieldsStandInTheList(list)
<1>1. SUFFICES ToSet(FieldsFromList(list)) = TextsAt(list, 1)  BY NamedAreFields
<1>2. CASE list = << >>
  <2>1. FieldsFromList(list) = << >>  BY <1>2 DEF FieldsFromList
  <2>2. ToSet(<< >>) = {} /\ Len(list) = 0  BY <1>2 DEF ToSet
  <2>3. FieldsAt(list, 1) = {}  BY <2>2 DEF FieldsAt
  <2> QED BY <2>1, <2>2, <2>3 DEF TextsAt
<1>3. CASE list # << >>
  <2>1. PICK fields : /\ fields \in [1..(Len(list) + 1) -> Seq(Seq(Char))] /\ FieldsFrom(list, fields)
                    /\ FieldsFromList(list) = fields[1]
    BY <1>3, FieldsAre
  <2>2. 1 \in 1..(Len(list) + 1)  OBVIOUS
  <2>3. ToSet(fields[1]) = TextsAt(list, 1)  BY <2>1, <2>2, FieldsFound
  <2> QED BY <2>1, <2>3
<1> QED BY <1>2, <1>3

-----------------------------------------------------------------------------
(***************************************************************************)
(* Settings: the hosts that a header is sent to.                           *)
(***************************************************************************)

Dot == "."
LastDot(s, e) == Max({0} \cup {i \in 1..e : s[i] = Dot})

\* The label that ends at e begins after the last dot up to there.
IsLastDot(s, e, dot) ==
  dot \in 0..e /\ (dot = 0 \/ s[dot] = Dot) /\ \A k \in (dot + 1)..e : s[k] # Dot

LEMMA LastDotIs ==
  ASSUME NEW Char, NEW s \in Seq(Char), NEW e \in 0..Len(s)
  PROVE  IsLastDot(s, e, LastDot(s, e))
<1> DEFINE Dots == {0} \cup {i \in 1..e : s[i] = Dot}
           dot == LastDot(s, e)
<1>1. e \in Nat /\ Dots \subseteq 0..e /\ 0 \in Dots  OBVIOUS
<1>2. dot \in Dots /\ \A i \in Dots : i <= dot
  <2>1. PICK m \in Dots : \A i \in Dots : i <= m
    <3> DEFINE T == {e - i : i \in Dots}
    <3>1. T \subseteq Nat /\ T # {}
      <4>1. \A i \in Dots : e - i \in Nat  BY <1>1
      <4> HIDE DEF Dots
      <4> QED BY <1>1, <4>1
    <3> HIDE DEF T
    <3>2. PICK t \in T : \A u \in T : t <= u  BY <3>1, LeastNatural
    <3>3. PICK m \in Dots : t = e - m  BY <3>2 DEF T
    <3>4. \A i \in Dots : e - m <= e - i  BY <3>2, <3>3 DEF T
    <3>5. \A i \in Dots : i \in 0..e  BY <1>1
    <3> HIDE DEF Dots
    <3> QED BY <1>1, <3>3, <3>4, <3>5
  <2>2. dot = CHOOSE x \in Dots : \A y \in Dots : x >= y  BY DEF LastDot, Max
  <2>3. \A i \in Dots : i \in Nat  BY <1>1
  <2>4. \A i \in Dots : m >= i  BY <2>1, <2>3
  <2> HIDE DEF Dots, dot
  <2>5. dot \in Dots /\ \A y \in Dots : dot >= y  BY <2>1, <2>2, <2>4
  <2> QED BY <2>3, <2>5
<1>3. dot \in 0..e /\ (dot = 0 \/ s[dot] = Dot)  BY <1>1, <1>2
<1>4. \A k \in (dot + 1)..e : s[k] # Dot
  <2> TAKE k \in (dot + 1)..e
  <2>1. k \in 1..e /\ ~(k <= dot)  BY <1>1, <1>3
  <2> QED BY <1>2, <2>1
<1> QED BY <1>3, <1>4 DEF IsLastDot

LEMMA OnlyLastDot ==
  ASSUME NEW s, NEW e \in Nat, NEW b, NEW c, IsLastDot(s, e, b), IsLastDot(s, e, c)
  PROVE  b = c
  BY DEF IsLastDot

\* The labels of the text up to e.
LabelsUpTo(s, U) ==
  \A e \in 0..Len(s) :
    U[e] = <<Slice(s, LastDot(s, e) + 1, e + 1)>> \o (IF LastDot(s, e) = 0 THEN << >> ELSE U[LastDot(s, e) - 1])

LEMMA LabelsAre ==
  ASSUME NEW Char, NEW s \in Seq(Char)
  PROVE  \E U : U \in [0..Len(s) -> Seq(Seq(Char))] /\ LabelsUpTo(s, U) /\ Labels(s) = U[Len(s)]
<1> DEFINE N == Len(s)
           D == 0..N
           V == Seq(Seq(Char))
           dot(e) == LastDot(s, e)
           label(e) == <<Slice(s, dot(e) + 1, e + 1)>>
           rank == [e \in D |-> e]
           step == [e \in D |-> dot(e) - 1]
           def == [e \in D |-> [v \in V |-> label(e) \o v]]
           Is(f) == f = [e \in D |-> label(e) \o (IF dot(e) = 0 THEN << >> ELSE f[dot(e) - 1])]
           U == CHOOSE f : Is(f)
<1>1. N \in Nat  OBVIOUS
<1>2. Labels(s) = U[N]  BY DEF Labels, LastDot, Dot
<1>3. ASSUME NEW e \in D
      PROVE  /\ dot(e) \in 0..e /\ (dot(e) # 0 => dot(e) - 1 \in D /\ dot(e) - 1 < e)
             /\ label(e) \in V
  <2> DEFINE d == dot(e)
  <2>1. d \in 0..e  BY LastDotIs DEF IsLastDot
  <2> HIDE DEF d
  <2>2. d + 1 \in 1..(N + 1) /\ e + 1 \in (d + 1)..(N + 1)  BY <1>1, <2>1
  <2>3. Slice(s, d + 1, e + 1) \in Seq(Char)  BY <2>2, SliceIs DEF Holds
  <2>4. <<Slice(s, d + 1, e + 1)>> \in V
    <3> DEFINE t == Slice(s, d + 1, e + 1)
    <3> HIDE DEF t
    <3> QED BY <2>3 DEF t
  <2>5. d # 0 => d - 1 \in D /\ d - 1 < e  BY <1>1, <2>1
  <2> QED BY <2>1, <2>4, <2>5 DEF d
<1> HIDE DEF N, dot, label
<1>4. Descends(step, rank, D)
  <2>1. rank \in [D -> Nat] /\ \A e \in D : rank[e] = e  BY <1>1
  <2>2. \A e \in D : step[e] \in D => step[e] < e  BY <1>1, <1>3
  <2> HIDE DEF rank, step
  <2> QED BY <1>1, <2>1, <2>2 DEF Descends
<1>5. def \in [D -> [V -> V]]
  <2>1. \A v, w \in V : v \o w \in V  OBVIOUS
  <2> HIDE DEF V, D
  <2> QED BY <1>3, <2>1
<1>6. PICK f : Recursive(f, D, V, << >>, step, def)
  <2>1. << >> \in V  OBVIOUS
  <2> HIDE DEF D, V, rank, step, def
  <2> QED BY <1>4, <1>5, <2>1, RecursiveFunction
<1>7. f \in [D -> V]  BY <1>6 DEF Recursive
<1>8. ASSUME NEW e \in D
      PROVE  f[e] = label(e) \o (IF dot(e) = 0 THEN << >> ELSE f[dot(e) - 1])
  <2> DEFINE v == IF step[e] \in D THEN f[step[e]] ELSE << >>
  <2>1. f[e] = def[e][v]  BY <1>6 DEF Recursive
  <2>2. \A w \in V : def[e][w] = label(e) \o w  OBVIOUS
  <2>3. << >> \in V  OBVIOUS
  <2>4. step[e] = dot(e) - 1  OBVIOUS
  <2>5. (dot(e) = 0 => dot(e) - 1 \notin D) /\ (dot(e) # 0 => dot(e) - 1 \in D)  BY <1>1, <1>3
  <2> HIDE DEF def, V, step, D
  <2>6. v \in V /\ v = IF dot(e) = 0 THEN << >> ELSE f[dot(e) - 1]  BY <1>7, <2>3, <2>4, <2>5
  <2> HIDE DEF v
  <2> QED BY <2>1, <2>2, <2>6
<1>9. Is(f)
  <2> HIDE DEF D, V
  <2> QED BY <1>7, <1>8
<1>10. Is(U)  BY <1>9
<1> HIDE DEF U
<1>11. \A e \in D : U[e] = label(e) \o (IF dot(e) = 0 THEN << >> ELSE U[dot(e) - 1])  BY <1>10
<1>12. LabelsUpTo(s, U)  BY <1>11 DEF LabelsUpTo, label, dot, N
<1>13. \A e \in D : U[e] \in V
  <2> DEFINE Bad == {e \in D : U[e] \notin V}
  <2> SUFFICES ASSUME Bad # {} PROVE FALSE  OBVIOUS
  <2>1. PICK e \in Bad : \A c \in D : rank[c] < rank[e] => c \notin Bad
    <3>1. Bad \subseteq D /\ rank \in [D -> Nat]  BY <1>1
    <3> HIDE DEF Bad, rank, D
    <3> QED BY <3>1, LeastRank
  <2>2. e \in D /\ U[e] \notin V  BY <2>1
  <2> DEFINE v == IF dot(e) = 0 THEN << >> ELSE U[dot(e) - 1]
  <2>3. v \in V
    <3>1. CASE dot(e) = 0  BY <3>1
    <3>2. CASE dot(e) # 0
      <4>1. dot(e) - 1 \in D /\ dot(e) - 1 < e  BY <1>3, <2>2, <3>2
      <4>2. rank[dot(e) - 1] < rank[e]  BY <1>1, <2>2, <4>1
      <4>3. dot(e) - 1 \notin Bad  BY <2>1, <4>1, <4>2
      <4> QED BY <3>2, <4>1, <4>3
    <3> QED BY <3>1, <3>2
  <2>4. label(e) \o v \in V
    <3>1. \A u, w \in V : u \o w \in V  OBVIOUS
    <3> HIDE DEF V, v, D
    <3> QED BY <1>3, <2>2, <2>3, <3>1
  <2> QED BY <1>11, <2>2, <2>4
<1>14. U \in [D -> V]
  <2>1. U = [e \in D |-> U[e]]  BY <1>10
  <2> QED BY <1>13, <2>1
<1> QED BY <1>2, <1>12, <1>14 DEF N

\* A prefix, label by label.
LEMMA PrefixOfCons ==
  ASSUME NEW V, NEW a \in V, NEW b \in V, NEW u \in Seq(V), NEW v \in Seq(V)
  PROVE  IsPrefix(<<a>> \o u, <<b>> \o v) <=> a = b /\ IsPrefix(u, v)
<1>1. \A s, t \in Seq(V) : IsPrefix(s, t) <=> Len(s) <= Len(t) /\ \A k \in 1..Len(s) : s[k] = t[k]
  <2> TAKE s, t \in Seq(V)
  <2> SUFFICES ASSUME Len(s) <= Len(t)
               PROVE  SubSeq(s, 1, Len(s)) = SubSeq(t, 1, Len(s)) <=> \A k \in 1..Len(s) : s[k] = t[k]
    BY DEF IsPrefix
  <2> DEFINE n == Len(s)
             p == SubSeq(s, 1, n)
             q == SubSeq(t, 1, n)
  <2>1. n \in Nat /\ Len(t) \in Nat /\ n <= Len(t)  OBVIOUS
  <2>2. p \in Seq(V) /\ q \in Seq(V) /\ Len(p) = n /\ Len(q) = n  OBVIOUS
  <2>3. \A k \in 1..n : p[k] = s[k] /\ q[k] = t[k]  OBVIOUS
  <2> HIDE DEF p, q, n
  <2>4. p = q <=> \A k \in 1..n : p[k] = q[k]  BY <2>2, SeqEqual
  <2> QED BY <2>3, <2>4 DEF p, q, n
<1> DEFINE s == <<a>> \o u
           t == <<b>> \o v
<1>2. /\ s \in Seq(V) /\ t \in Seq(V) /\ Len(s) = Len(u) + 1 /\ Len(t) = Len(v) + 1 /\ s[1] = a /\ t[1] = b
      /\ Len(u) \in Nat /\ Len(v) \in Nat
  OBVIOUS
<1>3. (\A k \in 1..Len(u) : s[k + 1] = u[k]) /\ (\A k \in 1..Len(v) : t[k + 1] = v[k])  OBVIOUS
<1> HIDE DEF s, t
<1>4. ASSUME IsPrefix(s, t)
      PROVE  a = b /\ IsPrefix(u, v)
  <2>1. Len(s) <= Len(t) /\ \A k \in 1..Len(s) : s[k] = t[k]  BY <1>1, <1>2, <1>4
  <2>2. a = b /\ Len(u) <= Len(v)  BY <1>2, <2>1
  <2>3. \A k \in 1..Len(u) : u[k] = v[k]
    <3> TAKE k \in 1..Len(u)
    <3>1. k + 1 \in 1..Len(s) /\ k \in 1..Len(v)  BY <1>2, <2>2
    <3> QED BY <1>3, <2>1, <3>1
  <2> QED BY <1>1, <2>2, <2>3
<1>5. ASSUME a = b, IsPrefix(u, v)
      PROVE  IsPrefix(s, t)
  <2>1. Len(u) <= Len(v) /\ \A k \in 1..Len(u) : u[k] = v[k]  BY <1>1, <1>5
  <2>2. \A k \in 1..Len(s) : s[k] = t[k]
    <3> TAKE k \in 1..Len(s)
    <3>1. CASE k = 1  BY <1>2, <1>5, <3>1
    <3>2. CASE k # 1
      <4>1. k - 1 \in 1..Len(u) /\ k - 1 \in 1..Len(v) /\ (k - 1) + 1 = k  BY <1>2, <2>1, <3>2
      <4> QED BY <1>3, <2>1, <4>1
    <3> QED BY <3>1, <3>2
  <2>3. Len(s) <= Len(t)  BY <1>2, <2>1
  <2> QED BY <1>1, <1>2, <2>2, <2>3
<1> QED BY <1>4, <1>5 DEF s, t

\* The text t up to e ends the text h up to f, and a dot of h comes before.
Agree(t, h, e, f) ==
  f >= e /\ (\A k \in 1..e : t[k] = h[k + (f - e)]) /\ (f = e \/ h[f - e] = Dot)

\* Two last labels are the same.
Same(t, h, e, f, b, c) == e - b = f - c /\ \A k \in (b + 1)..e : t[k] = h[k + (f - e)]

LEMMA SameLabel ==
  ASSUME NEW Char, NEW t \in Seq(Char), NEW h \in Seq(Char), NEW e \in 0..Len(t), NEW f \in 0..Len(h),
         NEW b \in 0..e, NEW c \in 0..f
  PROVE  Slice(t, b + 1, e + 1) = Slice(h, c + 1, f + 1) <=> Same(t, h, e, f, b, c)
<1> DEFINE x == Slice(t, b + 1, e + 1)
           y == Slice(h, c + 1, f + 1)
<1>1. b + 1 \in 1..(Len(t) + 1) /\ e + 1 \in (b + 1)..(Len(t) + 1) /\ c + 1 \in 1..(Len(h) + 1) /\ f + 1 \in (c + 1)..(Len(h) + 1)
  OBVIOUS
<1>2. Holds(Char, x, t, b + 1, e + 1) /\ Holds(Char, y, h, c + 1, f + 1)  BY <1>1, SliceIs
<1> HIDE DEF x, y
<1>3. /\ x \in Seq(Char) /\ Len(x) = (e + 1) - (b + 1) /\ \A k \in 1..((e + 1) - (b + 1)) : x[k] = t[(b + 1) + k - 1]
      /\ y \in Seq(Char) /\ Len(y) = (f + 1) - (c + 1) /\ \A k \in 1..((f + 1) - (c + 1)) : y[k] = h[(c + 1) + k - 1]
  BY <1>2 DEF Holds
<1>4. b \in Nat /\ c \in Nat /\ e \in Nat /\ f \in Nat /\ b <= e /\ c <= f  OBVIOUS
<1>5. x = y <=> Len(x) = Len(y) /\ \A k \in 1..Len(x) : x[k] = y[k]  BY <1>3, SeqEqual
<1>6. Len(x) = e - b /\ Len(y) = f - c  BY <1>3, <1>4
<1>7. ASSUME e - b = f - c
      PROVE  (\A k \in 1..(e - b) : x[k] = y[k]) <=> \A k \in (b + 1)..e : t[k] = h[k + (f - e)]
  <2>1. \A k \in 1..(e - b) : x[k] = t[b + k] /\ y[k] = h[c + k]
    <3> TAKE k \in 1..(e - b)
    <3>1. k \in 1..((e + 1) - (b + 1)) /\ k \in 1..((f + 1) - (c + 1)) /\ (b + 1) + k - 1 = b + k /\ (c + 1) + k - 1 = c + k
      BY <1>4, <1>7
    <3> QED BY <1>3, <3>1
  <2>2. \A k \in (b + 1)..e : k - b \in 1..(e - b) /\ b + (k - b) = k /\ c + (k - b) = k + (f - e)
    BY <1>4, <1>7
  <2>3. \A k \in 1..(e - b) : b + k \in (b + 1)..e /\ (b + k) + (f - e) = c + k  BY <1>4, <1>7
  <2>4. ASSUME \A k \in 1..(e - b) : x[k] = y[k], NEW k \in (b + 1)..e
        PROVE  t[k] = h[k + (f - e)]
    <3> DEFINE j == k - b
    <3>1. j \in 1..(e - b) /\ b + j = k /\ c + j = k + (f - e)  BY <2>2
    <3> HIDE DEF j
    <3>2. x[j] = t[b + j] /\ y[j] = h[c + j] /\ x[j] = y[j]  BY <2>1, <2>4, <3>1
    <3> QED BY <3>1, <3>2
  <2>5. ASSUME \A k \in (b + 1)..e : t[k] = h[k + (f - e)], NEW k \in 1..(e - b)
        PROVE  x[k] = y[k]
    BY <2>1, <2>3, <2>5
  <2> QED BY <2>4, <2>5
<1>8. x = y <=> Same(t, h, e, f, b, c)  BY <1>5, <1>6, <1>7 DEF Same
<1> QED BY <1>8 DEF x, y

\* With one label left, and with more.
LEMMA AgreeOnOne ==
  ASSUME NEW t, NEW h, NEW e \in Nat, NEW f \in Nat, NEW c,
         IsLastDot(t, e, 0), IsLastDot(h, f, c)
  PROVE  Same(t, h, e, f, 0, c) <=> Agree(t, h, e, f)
<1>1. c \in 0..f /\ (c = 0 \/ h[c] = Dot) /\ \A k \in (c + 1)..f : h[k] # Dot  BY DEF IsLastDot
<1>2. \A k \in 1..e : t[k] # Dot  BY DEF IsLastDot
<1>3. ASSUME Same(t, h, e, f, 0, c)
      PROVE  Agree(t, h, e, f)
  <2>1. e = f - c /\ \A k \in 1..e : t[k] = h[k + (f - e)]  BY <1>3 DEF Same
  <2>2. f - e = c /\ f >= e /\ (c = 0 => f = e)  BY <1>1, <2>1
  <2> QED BY <1>1, <2>1, <2>2 DEF Agree
<1>4. ASSUME Agree(t, h, e, f)
      PROVE  Same(t, h, e, f, 0, c)
  <2>1. f >= e /\ (\A k \in 1..e : t[k] = h[k + (f - e)]) /\ (f = e \/ h[f - e] = Dot)
    BY <1>4 DEF Agree
  <2>2. \A k \in ((f - e) + 1)..f : h[k] # Dot
    <3> TAKE k \in ((f - e) + 1)..f
    <3>1. k - (f - e) \in 1..e /\ (k - (f - e)) + (f - e) = k  BY <2>1
    <3> QED BY <1>2, <2>1, <3>1
  <2>3. f - e \in 0..f /\ (f - e = 0 \/ h[f - e] = Dot)  BY <2>1
  <2>4. IsLastDot(h, f, f - e)  BY <2>2, <2>3 DEF IsLastDot
  <2>5. c = f - e  BY <2>4, OnlyLastDot
  <2>6. e - 0 = f - c  BY <2>1, <2>5
  <2> QED BY <2>1, <2>6 DEF Same
<1> QED BY <1>3, <1>4

LEMMA AgreeOnMore ==
  ASSUME NEW t, NEW h, NEW e \in Nat, NEW f \in Nat, NEW b, NEW c,
         IsLastDot(t, e, b), IsLastDot(h, f, c), b # 0
  PROVE  Same(t, h, e, f, b, c) /\ c # 0 /\ Agree(t, h, b - 1, c - 1) <=> Agree(t, h, e, f)
<1>1. c \in 0..f /\ (c = 0 \/ h[c] = Dot) /\ \A k \in (c + 1)..f : h[k] # Dot  BY DEF IsLastDot
<1>2. b \in 1..e /\ t[b] = Dot /\ \A k \in (b + 1)..e : t[k] # Dot  BY DEF IsLastDot
<1>3. ASSUME Same(t, h, e, f, b, c), c # 0, Agree(t, h, b - 1, c - 1)
      PROVE  Agree(t, h, e, f)
  <2>1. e - b = f - c /\ \A k \in (b + 1)..e : t[k] = h[k + (f - e)]  BY <1>3 DEF Same
  <2>2. c - 1 >= b - 1 /\ (\A k \in 1..(b - 1) : t[k] = h[k + ((c - 1) - (b - 1))]) /\ (c - 1 = b - 1 \/ h[(c - 1) - (b - 1)] = Dot)
    BY <1>3 DEF Agree
  <2>3. (c - 1) - (b - 1) = f - e /\ f >= e /\ b + (f - e) = c /\ (c - 1 = b - 1 => f = e)
    BY <1>1, <1>2, <2>1, <2>2
  <2>4. \A k \in 1..e : t[k] = h[k + (f - e)]
    <3> TAKE k \in 1..e
    <3>1. k \in 1..(b - 1) \/ k = b \/ k \in (b + 1)..e  BY <1>2
    <3>2. CASE k \in 1..(b - 1)  BY <2>2, <2>3, <3>2
    <3>3. CASE k = b  BY <1>1, <1>2, <1>3, <2>3, <3>3
    <3>4. CASE k \in (b + 1)..e  BY <2>1, <3>4
    <3> QED BY <3>1, <3>2, <3>3, <3>4
  <2> QED BY <2>2, <2>3, <2>4 DEF Agree
<1>4. ASSUME Agree(t, h, e, f)
      PROVE  Same(t, h, e, f, b, c) /\ c # 0 /\ Agree(t, h, b - 1, c - 1)
  <2>1. f >= e /\ (\A k \in 1..e : t[k] = h[k + (f - e)]) /\ (f = e \/ h[f - e] = Dot)
    BY <1>4 DEF Agree
  <2> DEFINE d == b + (f - e)
  <2>2. d \in 1..f  BY <1>2, <2>1
  <2>3. h[d] = Dot  BY <1>2, <2>1
  <2>4. \A k \in (d + 1)..f : h[k] # Dot
    <3> TAKE k \in (d + 1)..f
    <3>1. k - (f - e) \in (b + 1)..e /\ k - (f - e) \in 1..e /\ (k - (f - e)) + (f - e) = k
      BY <1>2, <2>1
    <3> QED BY <1>2, <2>1, <3>1
  <2> HIDE DEF d
  <2>5. IsLastDot(h, f, d)  BY <2>2, <2>3, <2>4 DEF IsLastDot
  <2>6. c = d  BY <2>5, OnlyLastDot
  <2>7. c # 0 /\ c = b + (f - e) /\ e - b = f - c /\ (c - 1) - (b - 1) = f - e /\ c - 1 >= b - 1
    BY <1>2, <2>1, <2>2, <2>6 DEF d
  <2>8. \A k \in (b + 1)..e : k \in 1..e  BY <1>2
  <2>9. \A k \in 1..(b - 1) : k \in 1..e  BY <1>2
  <2>10. Same(t, h, e, f, b, c)  BY <2>1, <2>7, <2>8 DEF Same
  <2>11. f = e => c - 1 = b - 1  BY <1>2, <2>7
  <2>12. Agree(t, h, b - 1, c - 1)  BY <2>1, <2>7, <2>9, <2>11 DEF Agree
  <2> QED BY <2>7, <2>10, <2>12
<1> QED BY <1>3, <1>4

\* The labels of one text begin those of another exactly when it ends that
\* other text on a dot.
LEMMA LabelsAgree ==
  ASSUME NEW Char, NEW t \in Seq(Char), NEW h \in Seq(Char),
         NEW U \in [0..Len(t) -> Seq(Seq(Char))], LabelsUpTo(t, U),
         NEW W \in [0..Len(h) -> Seq(Seq(Char))], LabelsUpTo(h, W)
  PROVE  \A e \in 0..Len(t) : \A f \in 0..Len(h) : IsPrefix(U[e], W[f]) <=> Agree(t, h, e, f)
<1> DEFINE V == Seq(Char)
           Fails(e) == \E f \in 0..Len(h) : ~(IsPrefix(U[e], W[f]) <=> Agree(t, h, e, f))
           Bad == {e \in 0..Len(t) : Fails(e)}
<1> SUFFICES ASSUME Bad # {} PROVE FALSE  OBVIOUS
<1>1. PICK e \in Bad : \A y \in Bad : e <= y
  <2>1. Bad \subseteq Nat  OBVIOUS
  <2> HIDE DEF Bad
  <2> QED BY <2>1, LeastNatural
<1>2. e \in 0..Len(t) /\ Fails(e)  BY <1>1
<1>3. PICK f \in 0..Len(h) : ~(IsPrefix(U[e], W[f]) <=> Agree(t, h, e, f))  BY <1>2
<1> DEFINE b == LastDot(t, e)
           c == LastDot(h, f)
           x == Slice(t, b + 1, e + 1)
           y == Slice(h, c + 1, f + 1)
           u == IF b = 0 THEN << >> ELSE U[b - 1]
           w == IF c = 0 THEN << >> ELSE W[c - 1]
<1>4. IsLastDot(t, e, b) /\ IsLastDot(h, f, c)  BY <1>2, LastDotIs
<1>5. U[e] = <<x>> \o u /\ W[f] = <<y>> \o w  BY <1>2 DEF LabelsUpTo
<1> HIDE DEF b, c
<1>6. b \in 0..e /\ c \in 0..f /\ e \in Nat /\ f \in Nat  BY <1>2, <1>4 DEF IsLastDot
<1>7. x = y <=> Same(t, h, e, f, b, c)  BY <1>2, <1>6, SameLabel
<1>8. x \in V /\ y \in V
  <2>1. b + 1 \in 1..(Len(t) + 1) /\ e + 1 \in (b + 1)..(Len(t) + 1) /\ c + 1 \in 1..(Len(h) + 1) /\ f + 1 \in (c + 1)..(Len(h) + 1)
    BY <1>2, <1>6
  <2>2. Holds(Char, x, t, b + 1, e + 1) /\ Holds(Char, y, h, c + 1, f + 1)  BY <2>1, SliceIs
  <2> QED BY <2>2 DEF Holds
<1>9. (b # 0 => b - 1 \in 0..Len(t) /\ b - 1 < e) /\ (c # 0 => c - 1 \in 0..Len(h))  BY <1>2, <1>6
<1>10. u \in Seq(V) /\ w \in Seq(V)  BY <1>9
<1>11. IsPrefix(U[e], W[f]) <=> x = y /\ IsPrefix(u, w)
  <2>1. x \in V /\ y \in V /\ u \in Seq(V) /\ w \in Seq(V)  BY <1>8, <1>10
  <2> HIDE DEF u, w, x, y, V
  <2>2. IsPrefix(<<x>> \o u, <<y>> \o w) <=> x = y /\ IsPrefix(u, w)  BY <2>1, PrefixOfCons
  <2> QED BY <1>5, <2>2
<1>12. CASE b = 0
  <2>1. u = << >>  BY <1>12
  <2>2. IsPrefix(<< >>, w)
    <3>1. Len(w) \in Nat /\ SubSeq(<< >>, 1, 0) = << >> /\ SubSeq(w, 1, 0) = << >>
      <4> HIDE DEF w, V
      <4> QED BY <1>10
    <3> HIDE DEF w
    <3> QED BY <3>1 DEF IsPrefix
  <2>3. Same(t, h, e, f, b, c) <=> Agree(t, h, e, f)  BY <1>4, <1>6, <1>12, AgreeOnOne
  <2> HIDE DEF u, w, x, y
  <2> QED BY <1>3, <1>7, <1>11, <2>1, <2>2, <2>3
<1>13. CASE b # 0
  <2>1. u = U[b - 1]  BY <1>13
  <2>2. Len(u) > 0
    <3>1. b - 1 \in 0..Len(t)  BY <1>9, <1>13
    <3> DEFINE d == LastDot(t, b - 1)
               z == Slice(t, d + 1, (b - 1) + 1)
               r == IF d = 0 THEN << >> ELSE U[d - 1]
    <3>2. U[b - 1] = <<z>> \o r  BY <3>1 DEF LabelsUpTo
    <3>3. d \in 0..(b - 1)  BY <3>1, LastDotIs DEF IsLastDot
    <3> HIDE DEF d
    <3>4. r \in Seq(V)
      <4>1. d # 0 => d - 1 \in 0..Len(t)  BY <3>1, <3>3
      <4> QED BY <4>1
    <3>5. Len(<<z>> \o r) = 1 + Len(r) /\ Len(r) \in Nat
      <4> HIDE DEF z, r, V
      <4>1. <<z>> \in Seq({z}) /\ Len(<<z>>) = 1  OBVIOUS
      <4> QED BY <3>4, <4>1
    <3> HIDE DEF z, r
    <3> QED BY <2>1, <3>2, <3>5
  <2>3. IsPrefix(u, << >>) <=> FALSE
    <3>1. Len(<< >>) = 0 /\ Len(u) \in Nat  BY <1>10
    <3> HIDE DEF u
    <3> QED BY <2>2, <3>1 DEF IsPrefix
  <2>4. IsPrefix(u, w) <=> c # 0 /\ Agree(t, h, b - 1, c - 1)
    <3>1. CASE c = 0
      <4>1. w = << >>  BY <3>1
      <4> QED BY <2>3, <3>1, <4>1
    <3>2. CASE c # 0
      <4>1. w = W[c - 1] /\ c - 1 \in 0..Len(h)  BY <1>9, <3>2
      <4>2. b - 1 \in 0..Len(t) /\ ~(e <= b - 1)  BY <1>6, <1>9, <1>13
      <4>3. ~Fails(b - 1)  BY <1>1, <4>2
      <4>4. IsPrefix(U[b - 1], W[c - 1]) <=> Agree(t, h, b - 1, c - 1)  BY <4>1, <4>3
      <4> HIDE DEF u, w
      <4> QED BY <2>1, <3>2, <4>1, <4>4
    <3> QED BY <3>1, <3>2
  <2>5. Same(t, h, e, f, b, c) /\ c # 0 /\ Agree(t, h, b - 1, c - 1) <=> Agree(t, h, e, f)
    BY <1>4, <1>6, <1>13, AgreeOnMore
  <2> HIDE DEF u, w, x, y
  <2> QED BY <1>3, <1>7, <1>11, <2>4, <2>5
<1> QED BY <1>12, <1>13

\* A target that names something, with or without the dot before it.
Bare(target) == IF target[1] = Dot THEN Tail(target) ELSE target

LEMMA MatchIsAgree ==
  ASSUME NEW Char, NEW host \in Seq(Char), NEW target \in Seq(Char), target # << >>, "end" \notin Char
  PROVE  /\ Bare(target) \in Seq(Char)
         /\ HostMatchesTarget(host, target)
              <=> Bare(target) # << >> /\ Agree(Bare(target), host, Len(Bare(target)), Len(host))
<1> DEFINE bare == Bare(target)
           before == Len(host) - Len(bare)
<1>1. Len(target) \in Nat /\ 1 \in DOMAIN target  OBVIOUS
<1>2. At(target, 1) = target[1]  BY <1>1 DEF At
<1>3. bare \in Seq(Char)  BY DEF Bare
<1>4. HostMatchesTarget(host, target)
        <=> /\ bare # << >> /\ before >= 0 /\ SubSeq(host, before + 1, Len(host)) = bare
            /\ before = 0 \/ host[before] = Dot
  BY <1>2, Zenon DEF HostMatchesTarget, Bare, Dot
<1> HIDE DEF bare
<1>5. Len(bare) \in Nat /\ Len(host) \in Nat /\ before \in Int  BY <1>3
<1>6. ASSUME before >= 0
      PROVE  SubSeq(host, before + 1, Len(host)) = bare <=> \A k \in 1..Len(bare) : bare[k] = host[k + before]
  <2> DEFINE x == SubSeq(host, before + 1, Len(host))
             M == Len(bare)
             N == Len(host)
  <2>1. before + 1 \in 1..(N + 1) /\ N + 1 \in (before + 1)..(N + 1) /\ (N + 1) - 1 = N
    BY <1>5, <1>6
  <2>2. x = Slice(host, before + 1, N + 1)  BY <2>1 DEF Slice
  <2>3. Holds(Char, Slice(host, before + 1, N + 1), host, before + 1, N + 1)  BY <2>1, SliceIs
  <2> HIDE DEF x
  <2>4. x \in Seq(Char) /\ Len(x) = (N + 1) - (before + 1) /\ \A k \in 1..((N + 1) - (before + 1)) : x[k] = host[(before + 1) + k - 1]
    BY <2>2, <2>3 DEF Holds
  <2>5. (N + 1) - (before + 1) = M /\ \A k \in 1..M : (before + 1) + k - 1 = k + before  BY <1>5
  <2>6. x = bare <=> Len(x) = Len(bare) /\ \A k \in 1..Len(x) : x[k] = bare[k]
    BY <1>3, <2>4, SeqEqual
  <2> HIDE DEF before, N
  <2>7. Len(x) = M /\ \A k \in 1..M : x[k] = host[k + before]  BY <2>4, <2>5
  <2> QED BY <2>6, <2>7 DEF x, N
<1>7. before >= 0 <=> Len(host) >= Len(bare)  BY <1>5
<1>8. before = 0 <=> Len(host) = Len(bare)  BY <1>5
<1>9. HostMatchesTarget(host, target) <=> bare # << >> /\ Agree(bare, host, Len(bare), Len(host))
  BY <1>4, <1>6, <1>7, <1>8 DEF Agree
<1> QED BY <1>3, <1>9 DEF bare

\* The header is sent to the hosts that a listed target names, and to the ones
\* below them, whatever the host and the targets (configuration.c:170-188).
\* The target of a single dot, which names nothing, matches nothing.
THEOREM TargetsMatch ==
  ASSUME NEW Char, "end" \notin Char, NEW host \in Seq(Char),
         NEW hosts, \A target \in hosts : target \in Seq(Char) /\ target # << >> /\ Bare(target) # << >>
  PROVE  TargetsMatchOnLabels(host, hosts)
<1>1. ASSUME NEW target \in hosts
      PROVE  host # << >> /\ HostMatchesTarget(host, target)
               <=> IsPrefix(Labels(Bare(target)), Labels(host)) /\ Len(host) >= Len(Bare(target))
  <2> DEFINE bare == Bare(target)
  <2>1. bare \in Seq(Char) /\ bare # << >> /\ (HostMatchesTarget(host, target) <=> Agree(bare, host, Len(bare), Len(host)))
    BY MatchIsAgree
  <2> HIDE DEF bare
  <2>2. PICK U : U \in [0..Len(bare) -> Seq(Seq(Char))] /\ LabelsUpTo(bare, U) /\ Labels(bare) = U[Len(bare)]
    BY <2>1, LabelsAre
  <2>3. PICK W : W \in [0..Len(host) -> Seq(Seq(Char))] /\ LabelsUpTo(host, W) /\ Labels(host) = W[Len(host)]
    BY LabelsAre
  <2>4. \A e \in 0..Len(bare) : \A f \in 0..Len(host) : IsPrefix(U[e], W[f]) <=> Agree(bare, host, e, f)
    BY <2>1, <2>2, <2>3, LabelsAgree
  <2>5. Len(bare) \in 0..Len(bare) /\ Len(host) \in 0..Len(host) /\ Len(bare) > 0 /\ Len(bare) \in Nat
    BY <2>1
  <2>6. IsPrefix(Labels(bare), Labels(host)) <=> Agree(bare, host, Len(bare), Len(host))
    BY <2>2, <2>3, <2>4, <2>5
  <2>7. Agree(bare, host, Len(bare), Len(host)) => Len(host) >= Len(bare) /\ host # << >>
    <3>1. host = << >> => Len(host) = 0  OBVIOUS
    <3> QED BY <2>5, <3>1 DEF Agree
  <2> QED BY <2>1, <2>6, <2>7 DEF bare
<1>2. ASSUME NEW targets \in SUBSET hosts
      PROVE  ShouldPropagateTrace([propagate |-> TRUE, listed |-> TRUE, targets |-> targets], host)
               <=> \E target \in targets : host # << >> /\ HostMatchesTarget(host, target)
  BY DEF ShouldPropagateTrace
<1> QED BY <1>1, <1>2 DEF TargetsMatchOnLabels, Bare, Dot

-----------------------------------------------------------------------------
(***************************************************************************)
(* Settings: the key of a DSN.                                             *)
(***************************************************************************)

\* What a loop appends, piece by piece, on its way.
Joins(f, S, piece, step) ==
  f = [i \in S |-> piece[i] \o (IF step[i] \in S THEN f[step[i]] ELSE << >>)]

LEMMA Joined ==
  ASSUME NEW S, NEW X, NEW rank, NEW step, Descends(step, rank, S), NEW piece \in [S -> Seq(X)]
  PROVE  /\ \E f : Joins(f, S, piece, step)
         /\ \A f : Joins(f, S, piece, step) => f \in [S -> Seq(X)]
<1> DEFINE V == Seq(X)
           def == [i \in S |-> [v \in V |-> piece[i] \o v]]
<1>1. \A u, v \in V : u \o v \in V  OBVIOUS
<1>2. << >> \in V  OBVIOUS
<1>3. piece \in [S -> V]  OBVIOUS
<1> HIDE DEF V
<1>4. def \in [S -> [V -> V]]  BY <1>1, <1>3
<1>5. PICK f : Recursive(f, S, V, << >>, step, def)
  <2> HIDE DEF def
  <2> QED BY <1>2, <1>4, RecursiveFunction
<1>6. Joins(f, S, piece, step)
  <2>1. f \in [S -> V]  BY <1>5 DEF Recursive
  <2>2. ASSUME NEW i \in S
        PROVE  f[i] = piece[i] \o (IF step[i] \in S THEN f[step[i]] ELSE << >>)
    <3> DEFINE v == IF step[i] \in S THEN f[step[i]] ELSE << >>
    <3>1. f[i] = def[i][v]  BY <1>5 DEF Recursive
    <3>2. v \in V  BY <1>2, <2>1
    <3> HIDE DEF v
    <3>3. def[i][v] = piece[i] \o v  BY <3>2
    <3> QED BY <3>1, <3>3 DEF v
  <2> QED BY <2>1, <2>2 DEF Joins
<1>7. ASSUME NEW g, Joins(g, S, piece, step)
      PROVE  g \in [S -> V]
  <2>1. \A i \in S : g[i] = piece[i] \o (IF step[i] \in S THEN g[step[i]] ELSE << >>)
    BY <1>7 DEF Joins
  <2>2. g = [i \in S |-> g[i]]  BY <1>7 DEF Joins
  <2> DEFINE Bad == {i \in S : g[i] \notin V}
  <2>3. Bad = {}
    <3> SUFFICES ASSUME Bad # {} PROVE FALSE  OBVIOUS
    <3>1. PICK i \in Bad : \A j \in S : rank[j] < rank[i] => j \notin Bad
      <4>1. rank \in [S -> Nat] /\ Bad \subseteq S  BY DEF Descends
      <4> HIDE DEF Bad
      <4> QED BY <4>1, LeastRank
    <3>2. i \in S /\ g[i] \notin V  BY <3>1
    <3> DEFINE v == IF step[i] \in S THEN g[step[i]] ELSE << >>
    <3>3. v \in V  BY <1>2, <3>1, <3>2 DEF Descends
    <3> HIDE DEF v
    <3>4. piece[i] \o v \in V  BY <1>1, <1>3, <3>2, <3>3
    <3> QED BY <2>1, <3>2, <3>4 DEF v
  <2> QED BY <2>2, <2>3
<1> QED BY <1>6, <1>7 DEF V

AtSign == "@"
Percent == "%"
Colon == ":"
Slash == "/"
ReservedBytes == {AtSign, Percent, Colon, Slash}
CodeChars == {Percent, "0", "2", "3", "4", "5", "a", "f"}

\* A reserved byte is written as three characters that stand for it alone.
IsCode(c, h, l) ==
  Code(c) = <<Percent, h, l>> /\ Decoded(h, l) = c /\ h \in CodeChars /\ l \in CodeChars /\ {h, l} \subseteq ToSet(HexValue)

LEMMA CodesAreHex == {"0", "2", "3", "4", "5", "a", "f"} \subseteq ToSet(HexValue)
<1>1. /\ DOMAIN HexValue = 1..16 /\ HexValue[1] = "0" /\ HexValue[3] = "2" /\ HexValue[4] = "3" /\ HexValue[5] = "4" /\ HexValue[6] = "5"
      /\ HexValue[11] = "a" /\ HexValue[16] = "f"
  BY DEF HexValue
<1>2. 1 \in 1..16 /\ 3 \in 1..16 /\ 4 \in 1..16 /\ 5 \in 1..16 /\ 6 \in 1..16 /\ 11 \in 1..16 /\ 16 \in 1..16
  OBVIOUS
<1> QED BY <1>1, <1>2 DEF ToSet

LEMMA CodeIs ==
  ASSUME NEW c
  PROVE  IF c \in ReservedBytes THEN \E h, l : IsCode(c, h, l) ELSE Code(c) = <<c>>
<1>1. /\ DOMAIN Reserved = {"at", "percent", "colon", "slash"} /\ Reserved["at"] = AtSign /\ Reserved["percent"] = Percent
      /\ Reserved["colon"] = Colon /\ Reserved["slash"] = Slash
  BY DEF Reserved, AtSign, Percent, Colon, Slash
<1>2. /\ DOMAIN CodeOf = {"at", "percent", "colon", "slash"} /\ CodeOf["at"] = <<"4", "0">> /\ CodeOf["percent"] = <<"2", "5">>
      /\ CodeOf["colon"] = <<"3", "a">> /\ CodeOf["slash"] = <<"2", "f">>
  BY DEF CodeOf
<1>3. AtSign # Percent /\ AtSign # Colon /\ AtSign # Slash /\ Percent # Colon /\ Percent # Slash /\ Colon # Slash
  BY DEF AtSign, Percent, Colon, Slash
<1>4. (\E name \in DOMAIN Reserved : Reserved[name] = c) <=> c \in ReservedBytes
  BY <1>1 DEF ReservedBytes
<1>5. Percent = "%"  BY DEF Percent
<1>6. CASE c \notin ReservedBytes  BY <1>4, <1>6 DEF Code
<1> DEFINE NameOf == CHOOSE name \in DOMAIN Reserved : Reserved[name] = c
<1>7. ASSUME c \in ReservedBytes
      PROVE  Code(c) = <<Percent>> \o CodeOf[NameOf]
  BY <1>4, <1>5, <1>7 DEF Code
<1>8. ASSUME NEW name \in DOMAIN Reserved, Reserved[name] = c
      PROVE  NameOf = name
  <2>1. NameOf \in DOMAIN Reserved /\ Reserved[NameOf] = c  BY <1>8
  <2> HIDE DEF NameOf
  <2> QED BY <1>1, <1>3, <1>8, <2>1
<1> HIDE DEF NameOf
<1>9. ASSUME NEW name \in DOMAIN CodeOf, NEW h, NEW l, CodeOf[name] = <<h, l>>
      PROVE  Decoded(h, l) = Reserved[name]
  <2> DEFINE N == CHOOSE n \in DOMAIN CodeOf : CodeOf[n] = <<h, l>>
  <2>1. N \in DOMAIN CodeOf /\ CodeOf[N] = CodeOf[name]  BY <1>9
  <2>2. Decoded(h, l) = Reserved[N]  BY DEF Decoded
  <2> HIDE DEF N
  <2>3. \A n, m \in DOMAIN CodeOf : CodeOf[n] = CodeOf[m] => n = m  BY <1>2
  <2> QED BY <2>1, <2>2, <2>3
<1>10. ASSUME NEW h, NEW l
       PROVE  <<Percent>> \o <<h, l>> = <<Percent, h, l>>
  <2> DEFINE X == {Percent, h, l}
             x == <<Percent>> \o <<h, l>>
             y == <<Percent, h, l>>
  <2>1. <<Percent>> \in Seq(X) /\ <<h, l>> \in Seq(X) /\ y \in Seq(X) /\ Len(y) = 3  OBVIOUS
  <2>2. x \in Seq(X) /\ Len(x) = 3 /\ x[1] = Percent /\ x[2] = h /\ x[3] = l  BY <2>1
  <2>3. y[1] = Percent /\ y[2] = h /\ y[3] = l  OBVIOUS
  <2> HIDE DEF x, y
  <2>4. \A k \in 1..3 : x[k] = y[k]
    <3>1. \A k \in 1..3 : k = 1 \/ k = 2 \/ k = 3  OBVIOUS
    <3> QED BY <2>2, <2>3, <3>1
  <2>5. x = y  BY <2>1, <2>2, <2>4, SeqEqual
  <2> QED BY <2>5 DEF x, y
<1>11. ASSUME NEW name \in DOMAIN CodeOf, NEW h, NEW l, CodeOf[name] = <<h, l>>, Reserved[name] = c,
              c \in ReservedBytes, h \in {"0", "2", "3", "4", "5", "a", "f"}, l \in {"0", "2", "3", "4", "5", "a", "f"}
       PROVE  IsCode(c, h, l)
  <2>1. NameOf = name  BY <1>1, <1>2, <1>8, <1>11
  <2>2. Code(c) = <<Percent, h, l>>  BY <1>7, <1>10, <1>11, <2>1
  <2>3. Decoded(h, l) = c  BY <1>9, <1>11
  <2> QED BY <1>11, <2>2, <2>3, CodesAreHex DEF IsCode, CodeChars
<1>12. ASSUME c \in ReservedBytes
       PROVE  \E h, l : IsCode(c, h, l)
  <2>1. CASE c = AtSign  BY <1>1, <1>2, <1>11, <1>12, <2>1
  <2>2. CASE c = Percent  BY <1>1, <1>2, <1>11, <1>12, <2>2
  <2>3. CASE c = Colon  BY <1>1, <1>2, <1>11, <1>12, <2>3
  <2>4. CASE c = Slash  BY <1>1, <1>2, <1>11, <1>12, <2>4
  <2> QED BY <1>12, <2>1, <2>2, <2>3, <2>4 DEF ReservedBytes
<1> QED BY <1>6, <1>12

\* What percent_decode reads from a position on.
EscapeAt(s, i) == s[i] = Percent /\ i + 2 <= Len(s) /\ {s[i + 1], s[i + 2]} \subseteq ToSet(HexValue)
Decodes(s, R) ==
  \A i \in 1..(Len(s) + 3) :
    R[i] = IF i > Len(s) THEN << >>
           ELSE IF EscapeAt(s, i) THEN <<Decoded(s[i + 1], s[i + 2])>> \o R[i + 3]
           ELSE <<s[i]>> \o R[i + 1]

LEMMA DecodeIs ==
  ASSUME NEW X, NEW s \in Seq(X)
  PROVE  \E R : Decodes(s, R) /\ PercentDecode(s) = R[1]
<1> DEFINE N == Len(s)
           S == 1..(N + 3)
           Y == X \cup {Decoded(h, l) : h \in X, l \in X}
           rank == [i \in S |-> N + 3 - i]
           step == [i \in S |-> IF i > N THEN 0 ELSE IF EscapeAt(s, i) THEN i + 3 ELSE i + 1]
           piece == [i \in S |-> IF i > N THEN << >>
                                 ELSE IF EscapeAt(s, i) THEN <<Decoded(s[i + 1], s[i + 2])>> ELSE <<s[i]>>]
           Is(f) == f = [i \in S |-> IF i > N THEN << >>
                                     ELSE IF EscapeAt(s, i) THEN <<Decoded(s[i + 1], s[i + 2])>> \o f[i + 3]
                                     ELSE <<s[i]>> \o f[i + 1]]
           R == CHOOSE f : Is(f)
<1>1. N \in Nat /\ \A i \in 1..N : s[i] \in X  OBVIOUS
<1>2. PercentDecode(s) = R[1]  BY Zenon DEF PercentDecode, EscapeAt, Percent
<1>3. \A i \in S : i <= N /\ EscapeAt(s, i) => s[i + 1] \in X /\ s[i + 2] \in X
  <2> TAKE i \in S
  <2> HAVE i <= N /\ EscapeAt(s, i)
  <2>1. i + 1 \in 1..N /\ i + 2 \in 1..N  BY <1>1 DEF EscapeAt
  <2> QED BY <1>1, <2>1
<1> HIDE DEF N
<1>4. piece \in [S -> Seq(Y)]
  <2>1. ASSUME NEW i \in S
        PROVE  piece[i] \in Seq(Y)
    <3>1. CASE i > N  BY <3>1
    <3>2. CASE ~(i > N) /\ EscapeAt(s, i)
      <4> DEFINE d == Decoded(s[i + 1], s[i + 2])
      <4>1. d \in Y  BY <1>1, <1>3, <3>2
      <4>2. piece[i] = <<d>>  BY <3>2
      <4> HIDE DEF d, Y, piece
      <4> QED BY <4>1, <4>2
    <3>3. CASE ~(i > N) /\ ~EscapeAt(s, i)
      <4>1. i \in 1..N  BY <1>1, <3>3
      <4>2. s[i] \in Y /\ piece[i] = <<s[i]>>  BY <1>1, <3>3, <4>1
      <4> HIDE DEF Y, piece
      <4> QED BY <4>2
    <3> QED BY <3>1, <3>2, <3>3
  <2>2. piece = [i \in S |-> piece[i]]  OBVIOUS
  <2> HIDE DEF piece, S, Y
  <2> QED BY <2>1, <2>2
<1>5. \A i \in S : step[i] = (IF i > N THEN 0 ELSE IF EscapeAt(s, i) THEN i + 3 ELSE i + 1) /\ (i > N => step[i] \notin S) /\ (~(i > N) => step[i] \in S)
  BY <1>1
<1>6. Descends(step, rank, S)
  <2>1. rank \in [S -> Nat] /\ \A i \in S : rank[i] = N + 3 - i  BY <1>1
  <2>2. \A i \in S : step[i] \in S => step[i] > i  BY <1>1, <1>5
  <2> HIDE DEF rank, step
  <2> QED BY <1>1, <2>1, <2>2 DEF Descends
<1>7. ASSUME NEW f
      PROVE  Is(f) <=> Joins(f, S, piece, step)
  <2>1. ASSUME NEW i \in S
        PROVE  piece[i] \o (IF step[i] \in S THEN f[step[i]] ELSE << >>)
                 = IF i > N THEN << >>
                   ELSE IF EscapeAt(s, i) THEN <<Decoded(s[i + 1], s[i + 2])>> \o f[i + 3]
                   ELSE <<s[i]>> \o f[i + 1]
    <3>1. CASE i > N
      <4>1. piece[i] = << >> /\ step[i] \notin S  BY <1>5, <3>1
      <4>2. << >> \o << >> = << >>  OBVIOUS
      <4> HIDE DEF piece, step, S
      <4> QED BY <3>1, <4>1, <4>2
    <3>2. CASE ~(i > N) /\ EscapeAt(s, i)
      <4>1. piece[i] = <<Decoded(s[i + 1], s[i + 2])>> /\ step[i] \in S /\ step[i] = i + 3
        BY <1>5, <3>2
      <4> HIDE DEF piece, step, S
      <4> QED BY <3>2, <4>1
    <3>3. CASE ~(i > N) /\ ~EscapeAt(s, i)
      <4>1. piece[i] = <<s[i]>> /\ step[i] \in S /\ step[i] = i + 1  BY <1>5, <3>3
      <4> HIDE DEF piece, step, S
      <4> QED BY <3>3, <4>1
    <3> QED BY <3>1, <3>2, <3>3
  <2> HIDE DEF piece, step, S
  <2> QED BY <2>1, Zenon DEF Joins
<1>8. \E f : Joins(f, S, piece, step)
  <2> HIDE DEF piece, step, S, rank, Y
  <2> QED BY <1>4, <1>6, Joined
<1>9. Is(R)
  <2> HIDE DEF Is, piece, step, S
  <2>1. \E f : Is(f)  BY <1>7, <1>8
  <2> QED BY <2>1
<1>10. Decodes(s, R)
  <2> HIDE DEF R
  <2> QED BY <1>9 DEF Decodes, N
<1> QED BY <1>2, <1>10

\* The rest of a text is decoded as that rest alone.
LEMMA DecodeShift ==
  ASSUME NEW X, NEW c \in Seq(X), NEW s \in Seq(X), NEW R, NEW Q, Decodes(c \o s, R), Decodes(s, Q)
  PROVE  \A j \in 1..(Len(s) + 3) : R[Len(c) + j] = Q[j]
<1> DEFINE t == c \o s
           P == Len(c)
           N == Len(s)
           S == 1..(N + 3)
           rank == [j \in S |-> N + 3 - j]
           Bad == {j \in S : R[P + j] # Q[j]}
<1>1. P \in Nat /\ N \in Nat /\ Len(t) = P + N /\ \A k \in 1..N : t[P + k] = s[k]  OBVIOUS
<1> SUFFICES ASSUME Bad # {} PROVE FALSE  OBVIOUS
<1>2. PICK j \in Bad : \A k \in S : rank[k] < rank[j] => k \notin Bad
  <2>1. Bad \subseteq S /\ rank \in [S -> Nat]  BY <1>1
  <2> HIDE DEF Bad, rank, S
  <2> QED BY <2>1, LeastRank
<1>3. j \in S /\ R[P + j] # Q[j]  BY <1>2
<1> HIDE DEF t, P, N
<1>4. \A k \in S : k > j => R[P + k] = Q[k]  BY <1>1, <1>2, <1>3
<1>5. P + j \in 1..(Len(t) + 3)  BY <1>1, <1>3
<1>6. R[P + j] = IF P + j > Len(t) THEN << >>
                 ELSE IF EscapeAt(t, P + j) THEN <<Decoded(t[P + j + 1], t[P + j + 2])>> \o R[P + j + 3]
                 ELSE <<t[P + j]>> \o R[P + j + 1]
  BY <1>5 DEF Decodes, t
<1>7. Q[j] = IF j > N THEN << >>
             ELSE IF EscapeAt(s, j) THEN <<Decoded(s[j + 1], s[j + 2])>> \o Q[j + 3]
             ELSE <<s[j]>> \o Q[j + 1]
  BY <1>3 DEF Decodes, N
<1>8. P + j > Len(t) <=> j > N  BY <1>1, <1>3
<1>9. CASE j > N  BY <1>3, <1>6, <1>7, <1>8, <1>9
<1>10. CASE ~(j > N)
  <2>1. j \in 1..N /\ t[P + j] = s[j]  BY <1>1, <1>3, <1>10
  <2>2. (P + j) + 2 <= Len(t) <=> j + 2 <= N  BY <1>1, <1>3
  <2>3. j + 2 <= N => t[P + j + 1] = s[j + 1] /\ t[P + j + 2] = s[j + 2]
    <3> HAVE j + 2 <= N
    <3>1. j + 1 \in 1..N /\ j + 2 \in 1..N /\ P + (j + 1) = P + j + 1 /\ P + (j + 2) = P + j + 2
      BY <1>1, <2>1
    <3> QED BY <1>1, <3>1
  <2>4. EscapeAt(t, P + j) <=> EscapeAt(s, j)  BY <2>1, <2>2, <2>3 DEF EscapeAt, N
  <2>5. EscapeAt(s, j) => j + 2 <= N  BY DEF EscapeAt, N
  <2>6. R[P + j + 1] = Q[j + 1] /\ R[P + j + 3] = Q[j + 3]
    <3>1. j + 1 \in S /\ j + 1 > j /\ j + 3 \in S /\ j + 3 > j /\ P + (j + 1) = P + j + 1 /\ P + (j + 3) = P + j + 3
      BY <1>1, <2>1
    <3> HIDE DEF S
    <3> QED BY <1>4, <3>1
  <2> QED BY <1>3, <1>6, <1>7, <1>8, <1>10, <2>1, <2>3, <2>4, <2>5, <2>6
<1> QED BY <1>9, <1>10

LEMMA ConcatIs ==
  ASSUME NEW X, NEW z \in Seq(X), NEW u \in Seq(X)
  PROVE  /\ z \o u \in Seq(X) /\ Len(z \o u) = Len(z) + Len(u) /\ Len(z) \in Nat /\ Len(u) \in Nat
         /\ \A k \in 1..Len(z) : (z \o u)[k] = z[k]
         /\ \A k \in 1..Len(u) : (z \o u)[Len(z) + k] = u[k]
  OBVIOUS

\* What a key is written with: no byte that a DSN gives a meaning.
Written(Char) == (Char \ ReservedBytes) \cup CodeChars

LEMMA WrittenIs ==
  ASSUME NEW Char
  PROVE  AtSign \notin Written(Char) /\ \A c \in Char : Code(c) \in Seq(Written(Char))
<1>1. AtSign \notin CodeChars  BY DEF AtSign, CodeChars, Percent
<1>2. AtSign \notin Written(Char)  BY <1>1 DEF Written, ReservedBytes
<1>3. ASSUME NEW c \in Char
      PROVE  Code(c) \in Seq(Written(Char))
  <2>1. CASE c \in ReservedBytes
    <3>1. PICK h, l : IsCode(c, h, l)  BY <2>1, CodeIs
    <3>2. Code(c) = <<Percent, h, l>> /\ Percent \in Written(Char) /\ h \in Written(Char) /\ l \in Written(Char)
      BY <3>1 DEF IsCode, Written, CodeChars
    <3> QED BY <3>2
  <2>2. CASE c \notin ReservedBytes
    <3>1. Code(c) = <<c>> /\ c \in Written(Char)  BY <2>2, CodeIs DEF Written
    <3> QED BY <3>1
  <2> QED BY <2>1, <2>2
<1> QED BY <1>2, <1>3

\* What is decoded first is the byte that was encoded.
LEMMA DecodeCode ==
  ASSUME NEW Char, NEW c \in Char, NEW u \in Seq(Written(Char))
  PROVE  PercentDecode(Code(c) \o u) = <<c>> \o PercentDecode(u)
<1> DEFINE X == Written(Char)
           t == Code(c) \o u
<1>1. Code(c) \in Seq(X)  BY WrittenIs
<1>2. t \in Seq(X)  BY <1>1
<1>3. PICK R : Decodes(t, R) /\ PercentDecode(t) = R[1]
  <2> HIDE DEF t, X
  <2> QED BY <1>2, DecodeIs
<1>4. PICK Q : Decodes(u, Q) /\ PercentDecode(u) = Q[1]  BY DecodeIs
<1>5. \A j \in 1..(Len(u) + 3) : R[Len(Code(c)) + j] = Q[j]
  <2> HIDE DEF X
  <2>1. u \in Seq(X)  BY DEF X
  <2> QED BY <1>1, <1>3, <1>4, <2>1, DecodeShift
<1>6. Len(u) \in Nat /\ R[Len(Code(c)) + 1] = Q[1]
  <2>1. Len(u) \in Nat /\ 1 \in 1..(Len(u) + 3)  OBVIOUS
  <2> QED BY <1>5, <2>1
<1>7. Len(t) \in Nat /\ 1 \in 1..(Len(t) + 3)  BY <1>2
<1>8. R[1] = IF 1 > Len(t) THEN << >>
             ELSE IF EscapeAt(t, 1) THEN <<Decoded(t[1 + 1], t[1 + 2])>> \o R[1 + 3]
             ELSE <<t[1]>> \o R[1 + 1]
  <2> HIDE DEF t
  <2> QED BY <1>3, <1>7 DEF Decodes
<1>9. CASE c \in ReservedBytes
  <2>1. PICK h, l : IsCode(c, h, l)  BY <1>9, CodeIs
  <2>2. Code(c) = <<Percent, h, l>> /\ Decoded(h, l) = c /\ {h, l} \subseteq ToSet(HexValue)
    BY <2>1 DEF IsCode
  <2>3. Len(Code(c)) = 3 /\ Code(c)[1] = Percent /\ Code(c)[2] = h /\ Code(c)[3] = l  BY <2>2
  <2>4. Len(t) = 3 + Len(u) /\ t[1] = Percent /\ t[2] = h /\ t[3] = l
    <3> DEFINE z == Code(c)
    <3> HIDE DEF z
    <3>1. z \in Seq(X) /\ Len(z) = 3 /\ z[1] = Percent /\ z[2] = h /\ z[3] = l  BY <1>1, <2>3 DEF z
    <3>2. Len(z \o u) = 3 + Len(u) /\ (z \o u)[1] = z[1] /\ (z \o u)[2] = z[2] /\ (z \o u)[3] = z[3]
      <4>1. u \in Seq(X)  OBVIOUS
      <4>2. Len(z \o u) = Len(z) + Len(u) /\ \A k \in 1..Len(z) : (z \o u)[k] = z[k]
        BY <3>1, <4>1, ConcatIs
      <4>3. 1 \in 1..3 /\ 2 \in 1..3 /\ 3 \in 1..3 /\ 1 \in 1..1  OBVIOUS
      <4> QED BY <3>1, <4>2, <4>3
    <3> QED BY <3>1, <3>2 DEF z
  <2> HIDE DEF t
  <2>5. ~(1 > Len(t)) /\ EscapeAt(t, 1)  BY <1>6, <2>2, <2>4 DEF EscapeAt
  <2>6. R[1] = <<Decoded(t[2], t[3])>> \o R[4]  BY <1>8, <2>5
  <2> QED BY <1>3, <1>4, <1>6, <2>2, <2>3, <2>4, <2>6 DEF t
<1>10. CASE c \notin ReservedBytes
  <2>1. Code(c) = <<c>> /\ c # Percent  BY <1>10, CodeIs DEF ReservedBytes
  <2>2. Len(Code(c)) = 1 /\ Code(c)[1] = c  BY <2>1
  <2>3. Len(t) = 1 + Len(u) /\ t[1] = c
    <3> DEFINE z == Code(c)
    <3> HIDE DEF z
    <3>1. z \in Seq(X) /\ Len(z) = 1 /\ z[1] = c  BY <1>1, <2>2 DEF z
    <3>2. Len(z \o u) = 1 + Len(u) /\ (z \o u)[1] = z[1]
      <4>1. u \in Seq(X)  OBVIOUS
      <4>2. Len(z \o u) = Len(z) + Len(u) /\ \A k \in 1..Len(z) : (z \o u)[k] = z[k]
        BY <3>1, <4>1, ConcatIs
      <4>3. 1 \in 1..3 /\ 2 \in 1..3 /\ 3 \in 1..3 /\ 1 \in 1..1  OBVIOUS
      <4> QED BY <3>1, <4>2, <4>3
    <3> QED BY <3>1, <3>2 DEF z
  <2> HIDE DEF t
  <2>4. ~(1 > Len(t)) /\ ~EscapeAt(t, 1)  BY <1>6, <2>1, <2>3 DEF EscapeAt
  <2>5. R[1] = <<t[1]>> \o R[2]  BY <1>8, <2>4
  <2> QED BY <1>3, <1>4, <1>6, <2>2, <2>3, <2>5 DEF t
<1> QED BY <1>9, <1>10

LEMMA DecodeNothing == PercentDecode(<< >>) = << >>
<1>1. << >> \in Seq({}) /\ Len(<< >>) = 0 /\ 1 \in 1..3  OBVIOUS
<1>2. PICK R : Decodes(<< >>, R) /\ PercentDecode(<< >>) = R[1]  BY <1>1, DecodeIs
<1> DEFINE e == << >>
<1>3. Decodes(e, R) /\ Len(e) = 0 /\ 1 \in 1..(0 + 3) /\ 1 > 0  BY <1>1, <1>2
<1> HIDE DEF e
<1>4. R[1] = << >>  BY <1>3 DEF Decodes
<1> QED BY <1>2, <1>4

\* The code of a key, from each of its bytes on.
Encodes(key, E) ==
  \A i \in 1..(Len(key) + 1) : E[i] = IF i > Len(key) THEN << >> ELSE Code(key[i]) \o E[i + 1]

LEMMA EncodeIs ==
  ASSUME NEW Char, NEW key \in Seq(Char)
  PROVE  \E E : E \in [1..(Len(key) + 1) -> Seq(Written(Char))] /\ Encodes(key, E) /\ Encoded(key) = E[1]
<1> DEFINE N == Len(key)
           S == 1..(N + 1)
           Y == Written(Char)
           rank == [i \in S |-> N + 1 - i]
           step == [i \in S |-> i + 1]
           piece == [i \in S |-> IF i > N THEN << >> ELSE Code(key[i])]
           Is(f) == f = [i \in S |-> IF i > N THEN << >> ELSE Code(key[i]) \o f[i + 1]]
           E == CHOOSE f : Is(f)
<1>1. N \in Nat /\ \A i \in 1..N : key[i] \in Char  OBVIOUS
<1>2. Encoded(key) = E[1]  BY Zenon DEF Encoded
<1> HIDE DEF N
<1>4. piece \in [S -> Seq(Y)]
  <2>1. ASSUME NEW i \in S
        PROVE  piece[i] \in Seq(Y)
    <3>1. CASE i > N  BY <3>1
    <3>2. CASE ~(i > N)
      <4>1. i \in 1..N /\ piece[i] = Code(key[i])  BY <1>1, <3>2
      <4>2. key[i] \in Char  BY <1>1, <4>1
      <4> HIDE DEF piece
      <4> QED BY <4>1, <4>2, WrittenIs
    <3> QED BY <3>1, <3>2
  <2>2. piece = [i \in S |-> piece[i]]  OBVIOUS
  <2> HIDE DEF piece, S, Y
  <2> QED BY <2>1, <2>2
<1>5. \A i \in S : step[i] = i + 1 /\ (i > N => step[i] \notin S) /\ (~(i > N) => step[i] \in S)
  BY <1>1
<1>6. Descends(step, rank, S)
  <2>1. rank \in [S -> Nat] /\ \A i \in S : rank[i] = N + 1 - i  BY <1>1
  <2>2. \A i \in S : step[i] \in S => step[i] > i  BY <1>1, <1>5
  <2> HIDE DEF rank, step
  <2> QED BY <1>1, <2>1, <2>2 DEF Descends
<1>7. ASSUME NEW f
      PROVE  Is(f) <=> Joins(f, S, piece, step)
  <2>1. ASSUME NEW i \in S
        PROVE  piece[i] \o (IF step[i] \in S THEN f[step[i]] ELSE << >>)
                 = IF i > N THEN << >> ELSE Code(key[i]) \o f[i + 1]
    <3>1. CASE i > N
      <4>1. piece[i] = << >> /\ step[i] \notin S  BY <1>5, <3>1
      <4>2. << >> \o << >> = << >>  OBVIOUS
      <4> HIDE DEF piece, step, S
      <4> QED BY <3>1, <4>1, <4>2
    <3>2. CASE ~(i > N)
      <4>1. piece[i] = Code(key[i]) /\ step[i] \in S /\ step[i] = i + 1  BY <1>5, <3>2
      <4> HIDE DEF piece, step, S
      <4> QED BY <3>2, <4>1
    <3> QED BY <3>1, <3>2
  <2> HIDE DEF piece, step, S
  <2> QED BY <2>1, Zenon DEF Joins
<1>8. (\E f : Joins(f, S, piece, step)) /\ \A f : Joins(f, S, piece, step) => f \in [S -> Seq(Y)]
  <2> HIDE DEF piece, step, S, rank, Y
  <2> QED BY <1>4, <1>6, Joined
<1>9. Is(E)
  <2> HIDE DEF Is, piece, step, S
  <2>1. \E f : Is(f)  BY <1>7, <1>8
  <2> QED BY <2>1
<1>10. Joins(E, S, piece, step)  BY <1>7, <1>9
<1>11. E \in [S -> Seq(Y)]
  <2> HIDE DEF E, S, piece, step, Y
  <2> QED BY <1>8, <1>10
<1>12. Encodes(key, E)
  <2> HIDE DEF E
  <2> QED BY <1>9 DEF Encodes, N
<1> QED BY <1>2, <1>11, <1>12 DEF N

\* A key is decoded to what it was.
LEMMA DecodeEncoded ==
  ASSUME NEW Char, NEW key \in Seq(Char)
  PROVE  Encoded(key) \in Seq(Written(Char)) /\ PercentDecode(Encoded(key)) = key
<1> DEFINE N == Len(key)
           S == 1..(N + 1)
           rank == [i \in S |-> N + 1 - i]
           tail(i) == SubSeq(key, i, N)
<1>1. N \in Nat /\ \A i \in 1..N : key[i] \in Char  OBVIOUS
<1>2. PICK E : E \in [S -> Seq(Written(Char))] /\ Encodes(key, E) /\ Encoded(key) = E[1]
  BY EncodeIs
<1>3. 1 \in S  BY <1>1
<1>4. tail(1) = key /\ tail(N + 1) = << >>  OBVIOUS
<1>5. ASSUME NEW i \in 1..N
      PROVE  tail(i) = <<key[i]>> \o tail(i + 1)
  <2> DEFINE x == tail(i)
             r == tail(i + 1)
             y == <<key[i]>> \o r
  <2>1. x \in Seq(Char) /\ Len(x) = N - i + 1 /\ \A k \in 1..(N - i + 1) : x[k] = key[i + k - 1]
    OBVIOUS
  <2>2. r \in Seq(Char) /\ Len(r) = N - i /\ \A k \in 1..(N - i) : r[k] = key[i + k]
    <3>1. r \in Seq(Char) /\ Len(r) = N - i  OBVIOUS
    <3>2. \A k \in 1..(N - i) : r[k] = key[(i + 1) + k - 1]  OBVIOUS
    <3>3. \A k \in 1..(N - i) : (i + 1) + k - 1 = i + k  BY <1>1
    <3> HIDE DEF r
    <3> QED BY <3>1, <3>2, <3>3
  <2>3. key[i] \in Char /\ N - i \in Nat  BY <1>1
  <2> HIDE DEF x, r, N
  <2>4. y \in Seq(Char) /\ Len(y) = 1 + (N - i) /\ y[1] = key[i] /\ \A k \in 1..(N - i) : y[1 + k] = r[k]
    BY <2>2, <2>3
  <2> HIDE DEF y
  <2>5. \A k \in 1..(N - i + 1) : x[k] = y[k]
    <3> TAKE k \in 1..(N - i + 1)
    <3>1. CASE k = 1
      <4>1. i + 1 - 1 = i  BY <1>1
      <4> QED BY <2>1, <2>4, <3>1, <4>1
    <3>2. CASE k # 1
      <4> DEFINE m == k - 1
      <4>1. m \in 1..(N - i) /\ k = 1 + m /\ i + k - 1 = i + m  BY <1>1, <2>3, <3>2
      <4> HIDE DEF m
      <4> QED BY <2>1, <2>2, <2>4, <4>1
    <3> QED BY <3>1, <3>2
  <2>6. x = y
    <3>1. Len(x) = Len(y) /\ Len(x) = N - i + 1  BY <1>1, <2>1, <2>3, <2>4
    <3> QED BY <2>1, <2>4, <2>5, <3>1, SeqEqual
  <2> QED BY <2>6 DEF x, y, r
<1> DEFINE Bad == {i \in S : PercentDecode(E[i]) # tail(i)}
<1>6. Bad = {}
  <2> SUFFICES ASSUME Bad # {} PROVE FALSE  OBVIOUS
  <2>1. PICK i \in Bad : \A j \in S : rank[j] < rank[i] => j \notin Bad
    <3>1. Bad \subseteq S /\ rank \in [S -> Nat]  BY <1>1
    <3> HIDE DEF Bad, rank, S
    <3> QED BY <3>1, LeastRank
  <2>2. i \in S /\ PercentDecode(E[i]) # tail(i)  BY <2>1
  <2>3. E[i] = IF i > N THEN << >> ELSE Code(key[i]) \o E[i + 1]  BY <1>2, <2>2 DEF Encodes
  <2> HIDE DEF tail
  <2>4. CASE i > N
    <3>1. i = N + 1  BY <1>1, <2>2, <2>4
    <3> QED BY <1>4, <2>2, <2>3, <2>4, <3>1, DecodeNothing
  <2>5. CASE ~(i > N)
    <3>1. i \in 1..N /\ i + 1 \in S /\ rank[i + 1] < rank[i]  BY <1>1, <2>2, <2>5
    <3>2. PercentDecode(E[i + 1]) = tail(i + 1)  BY <2>1, <3>1
    <3>3. E[i + 1] \in Seq(Written(Char)) /\ key[i] \in Char  BY <1>1, <1>2, <3>1
    <3>4. PercentDecode(Code(key[i]) \o E[i + 1]) = <<key[i]>> \o PercentDecode(E[i + 1])
      BY <3>3, DecodeCode
    <3>5. tail(i) = <<key[i]>> \o tail(i + 1)  BY <1>5, <3>1
    <3> QED BY <2>2, <2>3, <2>5, <3>2, <3>4, <3>5
  <2> QED BY <2>4, <2>5
<1> QED BY <1>2, <1>3, <1>4, <1>6

JoinOf(X, z, u, t) ==
  /\ t \in Seq(X) /\ Len(t) = Len(z) + Len(u) /\ Len(z) \in Nat /\ Len(u) \in Nat
  /\ \A k \in 1..Len(z) : t[k] = z[k]
  /\ \A k \in 1..Len(u) : t[Len(z) + k] = u[k]

LEMMA JoinIs ==
  ASSUME NEW X, NEW z \in Seq(X), NEW u \in Seq(X)
  PROVE  JoinOf(X, z, u, z \o u)
  BY ConcatIs DEF JoinOf

\* A text is what comes before its last character, and that.
LEMMA FrontAndLast ==
  ASSUME NEW X, NEW s \in Seq(X), Len(s) >= 1
  PROVE  Front(s) \in Seq(X) /\ s = Front(s) \o <<s[Len(s)]>>
<1> DEFINE n == Len(s)
           x == Front(s)
           y == <<s[n]>>
           t == x \o y
<1>1. n \in Nat /\ n >= 1 /\ s[n] \in X  OBVIOUS
<1>2. x \in Seq(X) /\ Len(x) = n - 1 /\ \A k \in 1..(n - 1) : x[k] = s[k]
  <2>1. x = Slice(s, 1, n)  BY DEF Front, Slice
  <2>2. 1 \in 1..(n + 1) /\ n \in 1..(n + 1)  BY <1>1
  <2>3. Holds(X, Slice(s, 1, n), s, 1, n)  BY <2>2, SliceIs
  <2>4. \A k \in 1..(n - 1) : 1 + k - 1 = k  BY <1>1
  <2> HIDE DEF x, n
  <2> QED BY <2>1, <2>3, <2>4 DEF Holds
<1>3. y \in Seq(X) /\ Len(y) = 1 /\ y[1] = s[n]  BY <1>1
<1> HIDE DEF n, x, y
<1>4. t \in Seq(X) /\ Len(t) = n /\ (\A k \in 1..(n - 1) : t[k] = x[k]) /\ t[n] = y[1]
  <2>1. JoinOf(X, x, y, t)  BY <1>2, <1>3, JoinIs
  <2>2. 1 \in 1..1 /\ (n - 1) + 1 = n  BY <1>1
  <2> HIDE DEF t
  <2> QED BY <1>1, <1>2, <1>3, <2>1, <2>2 DEF JoinOf
<1> HIDE DEF t
<1>5. \A k \in 1..n : s[k] = t[k]
  <2> TAKE k \in 1..n
  <2>1. k \in 1..(n - 1) \/ k = n  BY <1>1
  <2> QED BY <1>2, <1>3, <1>4, <2>1
<1>6. s = t  BY <1>4, <1>5, SeqEqual DEF n
<1> QED BY <1>2, <1>6 DEF n, x, y, t

Address == <<"s", Colon, Slash, Slash>>
IsDsn(dsn, U, w, rest) ==
  /\ dsn \in Seq(U) /\ Len(dsn) = Len(w) + Len(rest) + 5 /\ Len(w) \in Nat /\ Len(rest) \in Nat
  /\ dsn[1] = "s" /\ dsn[2] = Colon /\ dsn[3] = Slash /\ dsn[4] = Slash
  /\ (\A k \in 1..Len(w) : dsn[4 + k] = w[k]) /\ dsn[5 + Len(w)] = AtSign
  /\ \A k \in 1..Len(rest) : dsn[5 + Len(w) + k] = rest[k]

LEMMA DsnIs ==
  ASSUME NEW U, Address \in Seq(U), AtSign \in U, NEW w \in Seq(U), NEW rest \in Seq(U)
  PROVE  IsDsn(Address \o w \o <<AtSign>> \o rest, U, w, rest)
<1> DEFINE a == Address
           b == a \o w
           m == <<AtSign>>
           c == b \o m
           d == c \o rest
<1>1. a \in Seq(U) /\ Len(a) = 4 /\ a[1] = "s" /\ a[2] = Colon /\ a[3] = Slash /\ a[4] = Slash
  BY DEF Address
<1>2. m \in Seq(U) /\ Len(m) = 1 /\ m[1] = AtSign  OBVIOUS
<1> HIDE DEF a, m
<1>3. /\ b \in Seq(U) /\ Len(b) = 4 + Len(w) /\ Len(w) \in Nat /\ (\A k \in 1..4 : b[k] = a[k]) /\ \A k \in 1..Len(w) : b[4 + k] = w[k]
  <2>1. JoinOf(U, a, w, b)  BY <1>1, JoinIs
  <2> HIDE DEF b
  <2> QED BY <1>1, <2>1 DEF JoinOf
<1> HIDE DEF b
<1>4. /\ c \in Seq(U) /\ Len(c) = 4 + Len(w) + 1 /\ (\A k \in 1..(4 + Len(w)) : c[k] = b[k]) /\ \A k \in 1..1 : c[4 + Len(w) + k] = m[k]
  <2>1. JoinOf(U, b, m, c)  BY <1>2, <1>3, JoinIs
  <2> HIDE DEF c
  <2> QED BY <1>2, <1>3, <2>1 DEF JoinOf
<1> HIDE DEF c
<1>5. /\ d \in Seq(U) /\ Len(d) = 4 + Len(w) + 1 + Len(rest) /\ Len(rest) \in Nat /\ (\A k \in 1..(4 + Len(w) + 1) : d[k] = c[k])
      /\ \A k \in 1..Len(rest) : d[4 + Len(w) + 1 + k] = rest[k]
  <2>1. JoinOf(U, c, rest, d)  BY <1>4, JoinIs
  <2> HIDE DEF d
  <2> QED BY <1>4, <2>1 DEF JoinOf
<1> HIDE DEF d
<1>6. \A k \in 1..4 : d[k] = a[k]
  <2> TAKE k \in 1..4
  <2>1. k \in 1..(4 + Len(w)) /\ k \in 1..(4 + Len(w) + 1)  BY <1>3
  <2> QED BY <1>3, <1>4, <1>5, <2>1
<1>7. \A k \in 1..Len(w) : d[4 + k] = w[k]
  <2> TAKE k \in 1..Len(w)
  <2>1. 4 + k \in 1..(4 + Len(w)) /\ 4 + k \in 1..(4 + Len(w) + 1)  BY <1>3
  <2> QED BY <1>3, <1>4, <1>5, <2>1
<1>8. d[5 + Len(w)] = AtSign
  <2>1. 1 \in 1..1 /\ 4 + Len(w) + 1 = 5 + Len(w) /\ 5 + Len(w) \in 1..(4 + Len(w) + 1)  BY <1>3
  <2> QED BY <1>2, <1>4, <1>5, <2>1
<1>9. \A k \in 1..Len(rest) : d[5 + Len(w) + k] = rest[k]
  <2>1. 4 + Len(w) + 1 = 5 + Len(w)  BY <1>3
  <2> QED BY <1>5, <2>1
<1>10. Len(d) = Len(w) + Len(rest) + 5  BY <1>3, <1>5
<1>11. 1 \in 1..4 /\ 2 \in 1..4 /\ 3 \in 1..4 /\ 4 \in 1..4  OBVIOUS
<1>12. IsDsn(d, U, w, rest)  BY <1>1, <1>3, <1>5, <1>6, <1>7, <1>8, <1>9, <1>10, <1>11 DEF IsDsn
<1> QED BY <1>12 DEF a, b, c, d, m

\* A stretch is a text when it has its length and its characters.
LEMMA SliceEquals ==
  ASSUME NEW U, NEW s \in Seq(U), NEW b \in 1..(Len(s) + 1), NEW e \in b..(Len(s) + 1), NEW t \in Seq(U),
         Len(t) = e - b, \A k \in 1..Len(t) : s[b + k - 1] = t[k]
  PROVE  Slice(s, b, e) = t
<1> DEFINE x == Slice(s, b, e)
<1>1. Holds(U, x, s, b, e)  BY SliceIs
<1> HIDE DEF x
<1>2. x \in Seq(U) /\ Len(x) = Len(t) /\ \A k \in 1..Len(t) : x[k] = t[k]  BY <1>1 DEF Holds
<1>3. x = t  BY <1>2, SeqEqual
<1> QED BY <1>3 DEF x

\* The user is what stands before the first "@", the host what stands after.
LEMMA DsnSplits ==
  ASSUME NEW U, NEW w \in Seq(U), NEW rest \in Seq(U), NEW dsn, IsDsn(dsn, U, w, rest), Address \in Seq(U),
         \A k \in 1..Len(w) : w[k] # AtSign, rest # << >>
  PROVE  ApiKey(dsn) = PercentDecode(w) /\ IngestionUrl(dsn) = Address \o rest
<1> DEFINE L == Len(w)
           M == Len(rest)
           N == Len(dsn)
           parts == [schemeEnd |-> 2, userStart |-> 5, hostStart |-> 6 + L]
           separators == {i \in DOMAIN dsn : dsn[i] = Colon /\ At(dsn, i + 1) = Slash /\ At(dsn, i + 2) = Slash}
           ats == {i \in (2 + 3)..N : dsn[i] = AtSign}
<1>1. /\ dsn \in Seq(U) /\ N = L + M + 5 /\ L \in Nat /\ M \in Nat
      /\ dsn[1] = "s" /\ dsn[2] = Colon /\ dsn[3] = Slash /\ dsn[4] = Slash
      /\ (\A k \in 1..L : dsn[4 + k] = w[k]) /\ dsn[5 + L] = AtSign
      /\ \A k \in 1..M : dsn[5 + L + k] = rest[k]
  BY DEF IsDsn
<1>2. M >= 1  BY <1>1
<1>3. DOMAIN dsn = 1..N /\ N \in Nat /\ N >= 6  BY <1>1, <1>2
<1> HIDE DEF N
<1>4. At(dsn, 3) = Slash /\ At(dsn, 4) = Slash  BY <1>1, <1>3 DEF At
<1>5. 2 \in separators  BY <1>1, <1>3, <1>4
<1>6. 1 \notin separators
  <2>1. "s" # Colon  BY DEF Colon
  <2> QED BY <1>1, <2>1
<1>7. Min(separators) = 2
  <2>1. separators \subseteq Nat /\ separators # {}  BY <1>3, <1>5
  <2>2. \A i \in separators : i \in Nat /\ i >= 1  BY <1>3
  <2> HIDE DEF separators
  <2>3. Min(separators) \in separators /\ \A y \in separators : Min(separators) <= y  BY <2>1, MinIs
  <2> QED BY <1>5, <1>6, <2>2, <2>3
<1>8. Min(ats) = 5 + L /\ ats # {}
  <2>1. 5 + L \in ats /\ ats \subseteq Nat  BY <1>1, <1>3
  <2>2. \A i \in ats : 5 + L <= i
    <3> TAKE i \in ats
    <3> SUFFICES ASSUME i < 5 + L PROVE FALSE  BY <1>1, <2>1
    <3>1. i \in 5..N /\ dsn[i] = AtSign  OBVIOUS
    <3>2. i - 4 \in 1..L /\ 4 + (i - 4) = i  BY <1>1, <1>3, <3>1
    <3> QED BY <1>1, <3>1, <3>2
  <2> HIDE DEF ats
  <2>3. Min(ats) \in ats /\ Min(ats) <= 5 + L  BY <2>1, MinIs
  <2>4. Min(ats) \in Nat /\ 5 + L <= Min(ats)  BY <2>1, <2>2, <2>3
  <2>5. Min(ats) = 5 + L
    <3> DEFINE m == Min(ats)
    <3>1. m \in Nat /\ 5 + L <= m /\ m <= 5 + L  BY <2>3, <2>4
    <3> HIDE DEF m, L
    <3>2. m = 5 + L  BY <1>1, <3>1
    <3> QED BY <3>2 DEF m
  <2> QED BY <2>1, <2>5
<1>9. SplitDsn(dsn) = IF separators = {} \/ Min(separators) = 1
                           \/ (IF {i \in (Min(separators) + 3)..N : dsn[i] = AtSign} = {} THEN Min(separators) + 3
                               ELSE Min({i \in (Min(separators) + 3)..N : dsn[i] = AtSign}) + 1) > N
                        THEN NoDsn
                        ELSE [schemeEnd |-> Min(separators), userStart |-> Min(separators) + 3,
                              hostStart |-> IF {i \in (Min(separators) + 3)..N : dsn[i] = AtSign} = {} THEN Min(separators) + 3
                                            ELSE Min({i \in (Min(separators) + 3)..N : dsn[i] = AtSign}) + 1]
  BY Zenon DEF SplitDsn, AtSign, Colon, Slash, N
<1>10. SplitDsn(dsn) = parts
  <2>1. separators # {} /\ 2 # 1 /\ 2 + 3 = 5 /\ (5 + L) + 1 = 6 + L /\ ~(6 + L > N)
    <3>1. separators # {}  BY <1>5
    <3>2. N = L + M + 5  BY <1>1 DEF N
    <3> HIDE DEF separators, L, M
    <3> QED BY <1>1, <1>2, <3>1, <3>2
  <2> HIDE DEF separators
  <2>2. SplitDsn(dsn) = IF (IF ats = {} THEN 2 + 3 ELSE Min(ats) + 1) > N THEN NoDsn
                        ELSE [schemeEnd |-> 2, userStart |-> 2 + 3, hostStart |-> IF ats = {} THEN 2 + 3 ELSE Min(ats) + 1]
    BY <1>7, <1>9, <2>1
  <2> HIDE DEF ats
  <2> QED BY <1>8, <2>1, <2>2
<1>11. parts # NoDsn  BY DEF NoDsn
<1>12. parts.schemeEnd = 2 /\ parts.userStart = 5 /\ parts.hostStart = 6 + L  OBVIOUS
<1> HIDE DEF parts, ats, separators
<1>13. Slice(dsn, 5, 5 + L) = w
  <2>1. 5 \in 1..(N + 1) /\ 5 + L \in 5..(N + 1) /\ L = (5 + L) - 5  BY <1>1, <1>2, <1>3 DEF N
  <2>2. \A k \in 1..L : dsn[5 + k - 1] = w[k]
    <3>1. \A k \in 1..L : 5 + k - 1 = 4 + k  BY <1>1
    <3> QED BY <1>1, <3>1
  <2> QED BY <1>1, <2>1, <2>2, SliceEquals DEF N
<1>14. SubSeq(dsn, 1, 4) = Address
  <2>1. 1 \in 1..(N + 1) /\ 5 \in 1..(N + 1) /\ 5 - 1 = 4  BY <1>3
  <2>2. Len(Address) = 4 /\ Address[1] = "s" /\ Address[2] = Colon /\ Address[3] = Slash /\ Address[4] = Slash
    BY DEF Address
  <2>3. \A k \in 1..4 : dsn[1 + k - 1] = Address[k]
    <3>1. \A k \in 1..4 : 1 + k - 1 = k /\ (k = 1 \/ k = 2 \/ k = 3 \/ k = 4)  OBVIOUS
    <3> QED BY <1>1, <2>2, <3>1
  <2>5. Len(Address) = 5 - 1  BY <2>2
  <2>6. \A k \in 1..Len(Address) : dsn[1 + k - 1] = Address[k]  BY <2>2, <2>3
  <2>4. Slice(dsn, 1, 5) = Address  BY <1>1, <2>1, <2>5, <2>6, SliceEquals DEF N
  <2> QED BY <2>1, <2>4 DEF Slice
<1>15. SubSeq(dsn, 6 + L, N) = rest
  <2>1. 6 + L \in 1..(N + 1) /\ N + 1 \in (6 + L)..(N + 1) /\ M = (N + 1) - (6 + L) /\ (N + 1) - 1 = N
    BY <1>1, <1>2, <1>3 DEF N
  <2>2. \A k \in 1..M : dsn[(6 + L) + k - 1] = rest[k]
    <3>1. \A k \in 1..M : (6 + L) + k - 1 = 5 + L + k  BY <1>1
    <3> QED BY <1>1, <3>1
  <2>3. Slice(dsn, 6 + L, N + 1) = rest  BY <1>1, <2>1, <2>2, SliceEquals DEF N
  <2> QED BY <2>1, <2>3 DEF Slice
<1>16. ApiKey(dsn) = PercentDecode(Slice(dsn, parts.userStart, parts.hostStart - 1))
  BY <1>10, <1>11 DEF ApiKey
<1>17. IngestionUrl(dsn) = SubSeq(dsn, 1, parts.schemeEnd + 2) \o SubSeq(dsn, parts.hostStart, Len(dsn))
  BY <1>10, <1>11 DEF IngestionUrl
<1>18. (6 + L) - 1 = 5 + L /\ 2 + 2 = 4  BY <1>1
<1> QED BY <1>12, <1>13, <1>14, <1>15, <1>16, <1>17, <1>18 DEF N

\* A key is read back from its DSN, whatever bytes it has, and stays out of
\* every address; an empty one enables nothing (configuration.c:195-375).
THEOREM DsnKeys ==
  ASSUME NEW Char, NEW key \in Seq(Char), key # << >>
  PROVE  DsnReadsBack(key)
<1> DEFINE W == Written(Char)
           w == Encoded(key)
<1>1. w \in Seq(W) /\ PercentDecode(w) = key /\ AtSign \notin W  BY DecodeEncoded, WrittenIs
<1> SUFFICES ASSUME NEW path \in {<<"/events">>, <<"/", "@", "/events">>}
    PROVE  LET rest == <<"h">> \o path
               dsn == Address \o w \o <<AtSign>> \o rest
               config == [dsn |-> dsn, environment |-> "production", enabledEnvironments |-> {"production", "staging"}]
           IN /\ ApiKey(dsn) = key
              /\ IngestionUrl(dsn) = Address \o rest
              /\ Endpoint(dsn, "/spans") = Address \o <<"h">> \o Front(path) \o <<"/spans">>
              /\ IsEnabled(config) /\ ~IsEnabled([config EXCEPT !.dsn = Address \o <<AtSign>> \o rest])
  BY Zenon DEF DsnReadsBack, Address, AtSign, Colon, Slash
<1> DEFINE U == W \cup {"s", Colon, Slash, AtSign, "h", "/events", "/spans", "/", "@"}
           rest == <<"h">> \o path
           dsn == Address \o w \o <<AtSign>> \o rest
           keyless == Address \o <<AtSign>> \o rest
           config == [dsn |-> dsn, environment |-> "production", enabledEnvironments |-> {"production", "staging"}]
<1>2. path \in Seq(U) /\ Len(path) >= 1 /\ path[Len(path)] = "/events" /\ Len(path) \in Nat
  <2>1. CASE path = <<"/events">>  BY <2>1
  <2>2. CASE path = <<"/", "@", "/events">>  BY <2>2
  <2> QED BY <2>1, <2>2
<1>3. Address \in Seq(U) /\ <<"h">> \in Seq(U) /\ <<AtSign>> \in Seq(U) /\ AtSign \in U
  BY DEF Address
<1>4. w \in Seq(U)
  <2>1. W \subseteq U  OBVIOUS
  <2> HIDE DEF w, W, U
  <2> QED BY <1>1, <2>1
<1>5. \A k \in 1..Len(w) : w[k] # AtSign
  <2> HIDE DEF w, W, U
  <2> QED BY <1>1
<1> HIDE DEF U, W, w
<1>6. rest \in Seq(U) /\ rest # << >>
  <2>1. rest \in Seq(U) /\ Len(rest) = Len(<<"h">>) + Len(path) /\ Len(<<"h">>) = 1
    BY <1>2, <1>3, ConcatIs
  <2>2. Len(rest) > 0  BY <1>2, <2>1
  <2> HIDE DEF rest
  <2> QED BY <2>1, <2>2
<1> HIDE DEF rest
<1>7. ApiKey(dsn) = key /\ IngestionUrl(dsn) = Address \o rest
  <2>1. IsDsn(dsn, U, w, rest)  BY <1>3, <1>4, <1>6, DsnIs
  <2> HIDE DEF dsn
  <2>2. ApiKey(dsn) = PercentDecode(w) /\ IngestionUrl(dsn) = Address \o rest
    BY <1>3, <1>4, <1>5, <1>6, <2>1, DsnSplits
  <2> QED BY <1>1, <2>2
<1>8. ApiKey(keyless) = << >>
  <2> DEFINE none == << >>
             d == Address \o none \o <<AtSign>> \o rest
  <2>1. none \in Seq(U) /\ Len(none) = 0 /\ Address \o none = Address /\ PercentDecode(none) = << >>
    BY <1>3, DecodeNothing
  <2>2. d = keyless /\ \A k \in 1..Len(none) : none[k] # AtSign  BY <2>1
  <2> HIDE DEF none, d
  <2>3. IsDsn(d, U, none, rest)  BY <1>3, <1>6, <2>1, DsnIs DEF d
  <2>4. ApiKey(d) = PercentDecode(none)  BY <1>3, <1>6, <2>1, <2>2, <2>3, DsnSplits
  <2> QED BY <2>1, <2>2, <2>4
<1> HIDE DEF dsn, keyless
<1>9. IsEnabled(config) /\ ~IsEnabled([config EXCEPT !.dsn = keyless])
  BY <1>7, <1>8 DEF IsEnabled, EnvironmentIsEnabled
<1>10. Endpoint(dsn, "/spans") = Address \o <<"h">> \o Front(path) \o <<"/spans">>
  <2> DEFINE p == Front(path)
             q == Address \o <<"h">> \o p
             url == Address \o rest
  <2>1. p \in Seq(U) /\ path = p \o <<"/events">>  BY <1>2, FrontAndLast
  <2> HIDE DEF p
  <2>2. \A a, b, c \in Seq(U) : (a \o b) \o c = a \o (b \o c)  OBVIOUS
  <2>3. \A a, b \in Seq(U) : a \o b \in Seq(U)  OBVIOUS
  <2>4. "/events" \in U /\ "/spans" \in U /\ <<"/events">> \in Seq(U)  BY DEF U
  <2>5. q \in Seq(U)  BY <1>3, <2>1, <2>3
  <2>6. url = q \o <<"/events">>
    <3>1. rest = (<<"h">> \o p) \o <<"/events">>  BY <1>3, <2>1, <2>2, <2>4 DEF rest
    <3>2. url = (Address \o (<<"h">> \o p)) \o <<"/events">>  BY <1>3, <2>1, <2>2, <2>3, <2>4, <3>1
    <3> QED BY <1>3, <2>1, <2>2, <3>2
  <2> HIDE DEF q, url
  <2>7. url = Append(q, "/events") /\ q \o <<"/spans">> = Append(q, "/spans")  BY <2>4, <2>5, <2>6
  <2>8. url # << >> /\ Last(url) = "/events" /\ Front(url) = q  BY <2>4, <2>5, <2>7 DEF Last, Front
  <2>9. Endpoint(dsn, "/spans") = Append(q, "/spans")  BY <1>7, <2>8 DEF Endpoint, url
  <2> QED BY <2>7, <2>9 DEF q, p
<1> QED BY <1>7, <1>9, <1>10 DEF dsn, keyless, rest

-----------------------------------------------------------------------------
(***************************************************************************)
(* Settings: the three readers together, on the texts of the run.          *)
(***************************************************************************)
KeyTexts == Seq(KeyChars) \ {<< >>}

LEMMA SettingsStart ==
  /\ \A text \in Starts["keys"] : text \in Seq(KeyChars) /\ text # << >>
  /\ Starts["hosts"] = {<< >>} /\ Starts["lists"] = {<< >>}
  /\ Pieces["keys"] = One(KeyChars) /\ Pieces["hosts"] = One(HostChars) /\ Pieces["lists"] = One(ListChars)
<1>1. Starts["keys"] = {<<"a">>, <<"@">>} /\ Starts["hosts"] = {<< >>} /\ Starts["lists"] = {<< >>}
  BY Zenon DEF Starts
<1>2. Pieces["keys"] = One(KeyChars) /\ Pieces["hosts"] = One(HostChars) /\ Pieces["lists"] = One(ListChars)
  BY Zenon DEF Pieces
<1>3. "a" \in KeyChars /\ "@" \in KeyChars  BY Zenon DEF KeyChars
<1>4. <<"a">> \in Seq(KeyChars) /\ <<"a">> # << >> /\ <<"@">> \in Seq(KeyChars) /\ <<"@">> # << >>
  BY <1>3
<1> QED BY <1>1, <1>2, <1>4

\* A text stays one when a piece of one character is added to it.
LEMMA TextGrows ==
  ASSUME NEW Char, NEW text \in Seq(Char), NEW piece \in One(Char)
  PROVE  text \o piece \in Seq(Char) /\ text \o piece # << >>
<1>1. PICK c \in Char : piece = <<c>>  BY DEF One
<1>2. text \o <<c>> \in Seq(Char) /\ Len(text \o <<c>>) = Len(text) + 1 /\ Len(text) \in Nat
  OBVIOUS
<1>3. Len(text \o <<c>>) > 0  BY <1>2
<1> DEFINE t == text \o <<c>>
<1>4. t \in Seq(Char) /\ t # << >>
  <2>1. t \in Seq(Char) /\ Len(t) > 0  BY <1>2, <1>3
  <2> HIDE DEF t
  <2> QED BY <2>1
<1> QED BY <1>1, <1>4

LEMMA TargetsNameHosts ==
  \A target \in Targets : target \in Seq(HostChars) /\ target # << >> /\ Bare(target) # << >>
<1>1. "a" \in HostChars /\ "b" \in HostChars /\ Dot \in HostChars /\ "a" # Dot /\ "b" # Dot
  BY Zenon DEF HostChars, Dot
<1>2. Targets = {<<"a">>, <<"a", Dot, "b">>, <<Dot, "b">>, <<"b", Dot, "a", Dot, "b">>}
  BY Zenon DEF Targets, Dot
<1>3. <<"a">> \in Seq(HostChars) /\ <<"a">> # << >> /\ Bare(<<"a">>) = <<"a">>  BY <1>1 DEF Bare
<1>4. <<"a", Dot, "b">> \in Seq(HostChars) /\ <<"a", Dot, "b">> # << >> /\ Bare(<<"a", Dot, "b">>) = <<"a", Dot, "b">>
  BY <1>1 DEF Bare
<1>5. <<"b", Dot, "a", Dot, "b">> \in Seq(HostChars) /\ <<"b", Dot, "a", Dot, "b">> # << >>
      /\ Bare(<<"b", Dot, "a", Dot, "b">>) = <<"b", Dot, "a", Dot, "b">>
  BY <1>1 DEF Bare
<1>6. <<Dot, "b">> \in Seq(HostChars) /\ <<Dot, "b">> # << >> /\ Bare(<<Dot, "b">>) # << >>
  <2> DEFINE t == <<Dot, "b">>
  <2>1. t \in Seq(HostChars) /\ Len(t) = 2 /\ t[1] = Dot /\ t # << >>  BY <1>1
  <2> HIDE DEF t
  <2>2. Len(Tail(t)) = 1 /\ Tail(t) \in Seq(HostChars)  BY <2>1
  <2> DEFINE v == Tail(t)
  <2>3. v # << >>
    <3>1. Len(v) = 1 /\ v \in Seq(HostChars)  BY <2>2
    <3> HIDE DEF v
    <3> QED BY <3>1
  <2>4. Bare(t) # << >>  BY <2>1, <2>3 DEF Bare
  <2> QED BY <2>1, <2>4 DEF t
<1> QED BY <1>2, <1>3, <1>4, <1>5, <1>6

\* The DSN, the targets and the list of fields are read as they are meant: the
\* run's invariant, for texts that grow without a bound
\* (configuration.c:31-61,168-375).
THEOREM ScannedSettingsReadBack == ScanSpec => []SettingsReadBack
<1> DEFINE Keys == Reads("keys", KeyTexts)
           Hosts == Reads("hosts", Seq(HostChars))
           Lists == Reads("lists", Seq(ListChars))
<1>1. (ScanInit => Keys) /\ (Keys /\ [ScanNext]_scanVars => Keys')
  <2>1. Starts["keys"] \subseteq KeyTexts  BY SettingsStart DEF KeyTexts
  <2>2. \A text \in KeyTexts, piece \in Pieces["keys"] : text \o piece \in KeyTexts
    BY SettingsStart, TextGrows DEF KeyTexts
  <2> QED BY <2>1, <2>2, InputsAreTexts DEF Reads
<1>2. (ScanInit => Hosts) /\ (Hosts /\ [ScanNext]_scanVars => Hosts')
  <2>1. Starts["hosts"] \subseteq Seq(HostChars)  BY SettingsStart
  <2>2. \A text \in Seq(HostChars), piece \in Pieces["hosts"] : text \o piece \in Seq(HostChars)
    BY SettingsStart, TextGrows
  <2> QED BY <2>1, <2>2, InputsAreTexts DEF Reads
<1>3. (ScanInit => Lists) /\ (Lists /\ [ScanNext]_scanVars => Lists')
  <2>1. Starts["lists"] \subseteq Seq(ListChars)  BY SettingsStart
  <2>2. \A text \in Seq(ListChars), piece \in Pieces["lists"] : text \o piece \in Seq(ListChars)
    BY SettingsStart, TextGrows
  <2> QED BY <2>1, <2>2, InputsAreTexts DEF Reads
<1>4. Keys => (subject = "keys" => DsnReadsBack(input))  BY DsnKeys DEF Reads, KeyTexts
<1>5. "end" \notin ListChars /\ "end" \notin HostChars  BY Zenon DEF ListChars, HostChars
<1>6. Hosts => (subject = "hosts" => TargetsMatchOnLabels(input, Targets))
  BY <1>5, TargetsMatch, TargetsNameHosts DEF Reads
<1>7. Lists => (subject = "lists" => FieldsStandInTheList(input))  BY <1>5, ListedFields DEF Reads
<1>8. Keys /\ Hosts /\ Lists => SettingsReadBack  BY <1>4, <1>6, <1>7 DEF SettingsReadBack
<1> QED BY <1>1, <1>2, <1>3, <1>8, PTL DEF ScanSpec

-----------------------------------------------------------------------------
(***************************************************************************)
(* Names.  What a name hides leaves alone its scheme, what follows the     *)
(* last "@" of its authority, its first segment and the places of its      *)
(* separators, and a segment that is hidden starts with no mark of a       *)
(* parameter: the name is read alike without it.                           *)
(***************************************************************************)
\* u is where s, from k on, first has a character of a class.
IsUntil(s, k, class, u) ==
  /\ u \in k..(Len(s) + 1)
  /\ \A j \in k..(u - 1) : j \in 1..Len(s) /\ s[j] \notin class
  /\ u <= Len(s) => s[u] \in class

LEMMA UntilIs ==
  ASSUME NEW Char, "end" \notin Char, NEW s \in Seq(Char), NEW k \in 1..(Len(s) + 1), NEW class
  PROVE  IsUntil(s, k, class, Until(s, k, class))
<1> DEFINE N == Len(s)
           K == {j \in k..(N + 1) : At(s, j) \in class \cup {"end"}}
           u == Min(K)
<1>1. N \in Nat /\ DOMAIN s = 1..N /\ At(s, N + 1) = "end" /\ \A j \in 1..N : At(s, j) = s[j] /\ s[j] # "end"
  BY DEF At
<1>2. N + 1 \in K /\ K \subseteq Nat  BY <1>1
<1>3. u \in K /\ \A j \in K : u <= j
  <2> HIDE DEF K
  <2> QED BY <1>2, MinIs
<1>4. Until(s, k, class) = u  BY DEF Until
<1> HIDE DEF u
<1>5. u \in k..(N + 1) /\ At(s, u) \in class \cup {"end"}  BY <1>3
<1>6. ASSUME NEW j \in k..(u - 1) PROVE j \in 1..N /\ s[j] \notin class
  <2>1. j \in k..(N + 1) /\ j \in 1..N /\ ~(u <= j)  BY <1>1, <1>5
  <2>2. At(s, j) \notin class  BY <1>3, <2>1
  <2> QED BY <1>1, <2>1, <2>2
<1>7. u <= N => s[u] \in class  BY <1>1, <1>5
<1> QED BY <1>4, <1>5, <1>6, <1>7 DEF IsUntil

LEMMA UntilOnly ==
  ASSUME NEW Char, "end" \notin Char, NEW s \in Seq(Char), NEW k \in 1..(Len(s) + 1), NEW class,
         NEW u, IsUntil(s, k, class, u)
  PROVE  Until(s, k, class) = u
<1> DEFINE v == Until(s, k, class)
<1>1. IsUntil(s, k, class, v)  BY UntilIs
<1> HIDE DEF v
<1>2. v \in k..(Len(s) + 1) /\ u \in k..(Len(s) + 1) /\ Len(s) \in Nat /\ k \in Nat
  BY <1>1 DEF IsUntil
<1>3. ~(v < u)
  <2> SUFFICES ASSUME v < u PROVE FALSE  OBVIOUS
  <2>1. v \in k..(u - 1) /\ v <= Len(s)  BY <1>2
  <2> QED BY <1>1, <2>1 DEF IsUntil
<1>4. ~(u < v)
  <2> SUFFICES ASSUME u < v PROVE FALSE  OBVIOUS
  <2>1. u \in k..(v - 1) /\ u <= Len(s)  BY <1>2
  <2> QED BY <1>1, <2>1 DEF IsUntil
<1>5. v = u  BY <1>2, <1>3, <1>4
<1> QED BY <1>5 DEF v

\* Two paths with their slashes in the same places.
SameSlashes(Char, B, C) ==
  /\ B \in Seq(Char) /\ C \in Seq(Char) /\ Len(C) = Len(B)
  /\ \A i \in 1..Len(B) : C[i] = "/" <=> B[i] = "/"

LEMMA SegmentsEnd ==
  ASSUME NEW Char, "end" \notin Char, NEW B, NEW C, SameSlashes(Char, B, C), NEW i \in 1..(Len(B) + 1)
  PROVE  /\ SegmentEnd(C, i) = SegmentEnd(B, i) /\ RunEnd(C, i, {"/"}) = RunEnd(B, i, {"/"})
         /\ SegmentEnd(B, i) \in i..(Len(B) + 1) /\ RunEnd(B, i, {"/"}) \in i..(Len(B) + 1)
<1> DEFINE N == Len(B)
           e == SegmentEnd(B, i)
           r == RunEnd(B, i, {"/"})
<1>1. /\ B \in Seq(Char) /\ C \in Seq(Char) /\ Len(C) = N /\ N \in Nat
      /\ \A j \in 1..N : C[j] = "/" <=> B[j] = "/"
  BY DEF SameSlashes
<1>2. IsUntil(B, i, {"/"}, e)  BY <1>1, UntilIs DEF SegmentEnd
<1>3. r \in i..(N + 1) /\ (\A j \in i..(r - 1) : j \in 1..N /\ B[j] \in {"/"}) /\ At(B, r) \notin {"/"}
  BY <1>1, RunEndIs
<1> HIDE DEF e, r
<1>4. IsUntil(C, i, {"/"}, e)  BY <1>1, <1>2 DEF IsUntil
<1>5. SegmentEnd(C, i) = e  BY <1>1, <1>4, UntilOnly DEF SegmentEnd
<1>6. At(C, r) \notin {"/"}  BY <1>1, <1>3 DEF At
<1>7. \A j \in i..(r - 1) : C[j] \in {"/"}  BY <1>1, <1>3
<1>8. RunEnd(C, i, {"/"}) = r  BY <1>1, <1>3, <1>6, <1>7, RunEndOnly
<1>9. e \in i..(N + 1)  BY <1>2 DEF IsUntil
<1> QED BY <1>3, <1>5, <1>8, <1>9 DEF e, r

LEMMA SlicesAgree ==
  ASSUME NEW Char, NEW B \in Seq(Char), NEW C \in Seq(Char), NEW i \in 1..(Len(B) + 1), NEW e \in i..(Len(B) + 1),
         e <= Len(C) + 1, \A j \in i..(e - 1) : C[j] = B[j]
  PROVE  Slice(C, i, e) = Slice(B, i, e)
<1> DEFINE t == Slice(B, i, e)
           v == Slice(C, i, e)
<1>1. Len(B) \in Nat /\ Len(C) \in Nat /\ i \in 1..(Len(C) + 1) /\ e \in i..(Len(C) + 1)  OBVIOUS
<1>2. t \in Seq(Char) /\ Len(t) = e - i /\ \A k \in 1..(e - i) : t[k] = B[i + k - 1]
  BY SliceIs DEF Holds
<1>3. v \in Seq(Char) /\ Len(v) = e - i /\ \A k \in 1..(e - i) : v[k] = C[i + k - 1]
  BY <1>1, SliceIs DEF Holds
<1> HIDE DEF t, v
<1>4. ASSUME NEW k \in 1..(e - i) PROVE v[k] = t[k]
  <2>1. i + k - 1 \in i..(e - 1)  OBVIOUS
  <2> QED BY <1>2, <1>3, <2>1
<1>5. v = t  BY <1>2, <1>3, <1>4, SeqEqual
<1> QED BY <1>5 DEF t, v

\* A path is cut alike whatever follows its first segment.
LEMMA PathsAgree ==
  ASSUME NEW Char, "end" \notin Char, NEW B, NEW C, SameSlashes(Char, B, C), ~IsTemplate(B), ~IsTemplate(C),
         \A i \in 1..(SegmentEnd(B, RunEnd(B, 1, {"/"})) - 1) : C[i] = B[i]
  PROVE  PathOf(C) = PathOf(B)
<1> DEFINE N == Len(B)
           first == RunEnd(B, 1, {"/"})
           e == SegmentEnd(B, first)
           rest == RunEnd(B, e, {"/"})
<1>1. B \in Seq(Char) /\ C \in Seq(Char) /\ Len(C) = N /\ N \in Nat  BY DEF SameSlashes
<1>2. RunEnd(C, 1, {"/"}) = first /\ first \in 1..(N + 1)  BY <1>1, SegmentsEnd
<1>3. SegmentEnd(C, first) = e /\ e \in first..(N + 1)
  <2> HIDE DEF first
  <2> QED BY <1>1, <1>2, SegmentsEnd
<1>4. RunEnd(C, e, {"/"}) = rest
  <2>1. e \in 1..(N + 1)  BY <1>1, <1>2, <1>3
  <2> HIDE DEF e
  <2> QED BY <1>1, <2>1, SegmentsEnd
<1>5. Slice(C, first, e) = Slice(B, first, e)
  <2>1. \A j \in first..(e - 1) : C[j] = B[j]  BY <1>1, <1>2, <1>3
  <2> HIDE DEF first, e
  <2> QED BY <1>1, <1>2, <1>3, <2>1, SlicesAgree
<1>6. Segment(C, first) = Segment(B, first)  BY <1>3, <1>5 DEF Segment
<1>7. first <= N => (C[1] = "/" <=> B[1] = "/")  BY <1>1, <1>2 DEF SameSlashes
<1> HIDE DEF first, e, rest
<1> DEFINE Path(x, lead, segment, after) ==
             IF x > N THEN <<"/">>
             ELSE (IF lead THEN <<"/">> ELSE << >>)
                    \o (IF IsIdSegment(segment) THEN <<":", "id">> ELSE segment)
                    \o (IF after <= N THEN <<"/", ":", "path">> ELSE << >>)
<1>8. PathOf(B) = Path(first, B[1] = "/", Segment(B, first), rest)  BY DEF PathOf, first, e, rest
<1>9. PathOf(C) = Path(first, C[1] = "/", Segment(B, first), rest)
  BY <1>1, <1>2, <1>3, <1>4, <1>6 DEF PathOf
<1> QED BY <1>1, <1>2, <1>7, <1>8, <1>9

ParameterMarks == {":", "*", "{"}

\* No segment becomes a route parameter that was none, when each one is left
\* as it is or starts with another character.
LEMMA NoTemplate ==
  ASSUME NEW Char, "end" \notin Char, NEW B, NEW C, SameSlashes(Char, B, C), ~IsTemplate(B),
         \A i \in 1..(Len(B) + 1) : i = 1 \/ B[i - 1] = "/" =>
           (\A j \in i..(SegmentEnd(B, i) - 1) : C[j] = B[j]) \/ (i <= Len(B) => C[i] \notin ParameterMarks)
  PROVE  ~IsTemplate(C)
<1>1. B \in Seq(Char) /\ C \in Seq(Char) /\ Len(C) = Len(B) /\ Len(B) \in Nat  BY DEF SameSlashes
<1>2. ASSUME NEW i \in 1..(Len(C) + 1), i = 1 \/ C[i - 1] = "/", IsRouteParameter(Segment(C, i)) PROVE FALSE
  <2> DEFINE e == SegmentEnd(B, i)
             t == Slice(C, i, e)
  <2>1. SegmentEnd(C, i) = e /\ e \in i..(Len(B) + 1)  BY <1>1, SegmentsEnd
  <2>2. i = 1 \/ B[i - 1] = "/"  BY <1>1, <1>2 DEF SameSlashes
  <2>3. Segment(C, i) = t  BY <2>1 DEF Segment
  <2>4. ~IsRouteParameter(Slice(B, i, e))  BY <1>1, <2>2 DEF IsTemplate, Segment
  <2>5. CASE \A j \in i..(e - 1) : C[j] = B[j]
    <3> HIDE DEF e
    <3>1. t = Slice(B, i, e)  BY <1>1, <2>1, <2>5, SlicesAgree
    <3> QED BY <1>2, <2>3, <2>4, <3>1
  <2>6. CASE i <= Len(B) => C[i] \notin ParameterMarks
    <3> HIDE DEF e
    <3>1. Holds(Char, t, C, i, e)  BY <1>1, <2>1, SliceIs
    <3> HIDE DEF t
    <3>2. Len(t) = e - i /\ \A k \in 1..(e - i) : t[k] = C[i + k - 1]  BY <3>1 DEF Holds
    <3>3. Len(t) >= 1 /\ t[1] \in ParameterMarks
      <4>1. IsRouteParameter(t)  BY <1>2, <2>3
      <4>2. (Len(t) >= 2 \/ Len(t) >= 1 \/ Len(t) >= 3) /\ t[1] \in ParameterMarks
        BY <4>1, Zenon DEF IsRouteParameter, ParameterMarks
      <4> QED BY <1>1, <2>1, <3>2, <4>2
    <3>4. i <= Len(B) /\ t[1] = C[i]  BY <1>1, <2>1, <3>2, <3>3
    <3> QED BY <2>6, <3>3, <3>4
  <2> QED BY <1>1, <2>2, <2>5, <2>6
<1> QED BY <1>2 DEF IsTemplate

\* The characters that the readers of a name tell apart.
LEMMA NameCharacters ==
  /\ TargetCut = QueryCut \cup {Blank} /\ Separators = AuthorityCut \cup {Blank} /\ AuthorityCut = QueryCut \cup {"/"}
  /\ Separators = TargetCut \cup {"/"}
  /\ "/" \notin TargetCut /\ "b" \notin Separators /\ "b" \notin ParameterMarks /\ Separators \cap ParameterMarks = {}
  /\ SchemeChars \cap Separators = {} /\ ":" \notin Separators /\ ":" \notin SchemeChars /\ "/" \notin NameAlpha
  /\ NameAlpha \subseteq SchemeChars /\ "@" \notin Separators /\ "@" \notin ParameterMarks
  /\ "end" \notin SchemeChars /\ "end" \notin Separators
  BY Zenon DEF TargetCut, QueryCut, Blank, Separators, AuthorityCut, ParameterMarks, SchemeChars, NameAlpha, NameDigit

\* The target of a call, up to the first blank.
TargetOf(text) == Slice(text, 1, Until(text, 1, {Blank}))

\* A cut of the target is one of the text.
CutsAlike(Char, text, target, k, class, u) ==
  /\ target \in Seq(Char) /\ k \in 1..(Len(target) + 1) /\ k \in 1..(Len(text) + 1)
  /\ Until(target, k, class) = u /\ u \in k..(Len(target) + 1) /\ u \in k..(Len(text) + 1)
  /\ Slice(target, k, u) = Slice(text, k, u)

LEMMA CutTarget ==
  ASSUME NEW Char, "end" \notin Char, NEW text \in Seq(Char), NEW k \in 1..Until(text, 1, {Blank}), NEW class
  PROVE  CutsAlike(Char, text, TargetOf(text), k, class, Until(text, k, class \cup {Blank}))
<1> DEFINE target == TargetOf(text)
           e == Until(text, 1, {Blank})
           u == Until(text, k, class \cup {Blank})
<1>1. IsUntil(text, 1, {Blank}, e) /\ Len(text) \in Nat  BY UntilIs
<1>2. e \in 1..(Len(text) + 1)  BY <1>1 DEF IsUntil
<1>3. Holds(Char, target, text, 1, e)
  <2> HIDE DEF e
  <2> QED BY <1>1, <1>2, SliceIs DEF TargetOf, e
<1>4. k \in 1..(Len(text) + 1) /\ k \in Nat /\ k <= e  BY <1>1, <1>2
<1>5. IsUntil(text, k, class \cup {Blank}, u)  BY <1>4, UntilIs
<1> HIDE DEF target, e, u
<1>6. target \in Seq(Char) /\ Len(target) = e - 1 /\ \A j \in 1..(e - 1) : target[j] = text[j]
  BY <1>2, <1>3 DEF Holds
<1>7. u \in k..e
  <2>1. u \in k..(Len(text) + 1)  BY <1>5 DEF IsUntil
  <2>2. ~(e < u)
    <3> SUFFICES ASSUME e < u PROVE FALSE  OBVIOUS
    <3>1. e \in k..(u - 1) /\ e <= Len(text)  BY <1>1, <1>2, <1>4, <2>1
    <3>2. text[e] \in {Blank}  BY <1>1, <3>1 DEF IsUntil
    <3>3. text[e] \notin class \cup {Blank}  BY <1>5, <3>1 DEF IsUntil
    <3> QED BY <3>2, <3>3
  <2> QED BY <1>2, <1>4, <2>1, <2>2
<1>8. IsUntil(target, k, class, u)
  <2>1. u \in k..(Len(target) + 1)  BY <1>2, <1>6, <1>7
  <2>2. ASSUME NEW j \in k..(u - 1) PROVE j \in 1..Len(target) /\ target[j] \notin class
    <3>1. j \in 1..(e - 1)  BY <1>2, <1>4, <1>7
    <3>2. text[j] \notin class  BY <1>5 DEF IsUntil
    <3> QED BY <1>6, <3>1, <3>2
  <2>3. ASSUME u <= Len(target) PROVE target[u] \in class
    <3>1. u \in 1..(e - 1) /\ u <= Len(text)  BY <1>2, <1>4, <1>6, <1>7, <2>3
    <3>2. text[u] \in class \cup {Blank}  BY <1>5, <3>1 DEF IsUntil
    <3>3. text[u] \notin {Blank}  BY <1>1, <3>1 DEF IsUntil
    <3> QED BY <1>6, <3>1, <3>2, <3>3
  <2> QED BY <2>1, <2>2, <2>3 DEF IsUntil
<1>9. k \in 1..(Len(target) + 1) /\ u \in k..(Len(target) + 1) /\ u \in k..(Len(text) + 1)
  BY <1>2, <1>4, <1>6, <1>7
<1>10. Until(target, k, class) = u  BY <1>6, <1>8, <1>9, UntilOnly
<1>11. Slice(target, k, u) = Slice(text, k, u)
  <2>1. \A j \in k..(u - 1) : target[j] = text[j]  BY <1>2, <1>4, <1>6, <1>7
  <2>2. u <= Len(target) + 1  BY <1>2, <1>6, <1>7
  <2> QED BY <1>4, <1>6, <1>9, <2>1, <2>2, SlicesAgree
<1> QED BY <1>4, <1>6, <1>9, <1>10, <1>11 DEF target, u, CutsAlike

LEMMA MaskedIs ==
  ASSUME NEW Char, "b" \in Char, NEW text \in Seq(Char), NEW H
  PROVE  /\ Masked(text, H) \in Seq(Char) /\ Len(Masked(text, H)) = Len(text) /\ Len(text) \in Nat
         /\ \A i \in 1..Len(text) : Masked(text, H)[i] = IF i \in H THEN "b" ELSE text[i]
<1>1. Len(text) \in Nat /\ DOMAIN text = 1..Len(text) /\ \A i \in 1..Len(text) : text[i] \in Char
  OBVIOUS
<1> DEFINE F == [i \in 1..Len(text) |-> IF i \in H THEN "b" ELSE text[i]]
<1>2. Masked(text, H) = F  BY <1>1 DEF Masked
<1>3. F \in [1..Len(text) -> Char]  BY <1>1
<1>4. F \in Seq(Char) /\ Len(F) = Len(text)
  <2> HIDE DEF F
  <2> QED BY <1>1, <1>3
<1>5. \A i \in 1..Len(text) : F[i] = IF i \in H THEN "b" ELSE text[i]  OBVIOUS
<1> HIDE DEF F
<1> QED BY <1>1, <1>2, <1>4, <1>5

\* What is hidden leaves the separators before q alone, and q.
KeepsBare(text, H, q) ==
  /\ q \notin H
  /\ \A j \in 1..(q - 1) : j \in H => text[j] \notin Separators

LEMMA BareKept ==
  ASSUME NEW Char, "end" \notin Char, "b" \in Char, NEW text \in Seq(Char), NEW cut, cut \subseteq Separators, NEW H,
         KeepsBare(text, H, Until(text, 1, cut))
  PROVE  LET q == Until(text, 1, cut)
             B == BareOf(text, cut)
             C == BareOf(Masked(text, H), cut)
         IN /\ q \in 1..(Len(text) + 1) /\ Until(Masked(text, H), 1, cut) = q
            /\ SameSlashes(Char, B, C) /\ Len(B) = q - 1
            /\ \A j \in 1..(q - 1) : B[j] = text[j] /\ C[j] = Masked(text, H)[j]
<1> DEFINE q == Until(text, 1, cut)
           M == Masked(text, H)
           B == BareOf(text, cut)
           C == BareOf(M, cut)
<1>1. IsUntil(text, 1, cut, q) /\ Len(text) \in Nat  BY UntilIs
<1>2. q \in 1..(Len(text) + 1)  BY <1>1 DEF IsUntil
<1>3. M \in Seq(Char) /\ Len(M) = Len(text) /\ \A i \in 1..Len(text) : M[i] = IF i \in H THEN "b" ELSE text[i]
  BY MaskedIs
<1>4. "b" \notin Separators /\ "/" \in Separators /\ "b" # "/"  BY NameCharacters
<1>5. KeepsBare(text, H, q)  OBVIOUS
<1>6. Holds(Char, B, text, 1, q)
  <2> HIDE DEF q
  <2> QED BY <1>2, SliceIs DEF BareOf, q
<1> HIDE DEF q, M
<1>7. IsUntil(M, 1, cut, q)  BY <1>1, <1>2, <1>3, <1>4, <1>5 DEF IsUntil, KeepsBare
<1>8. Until(M, 1, cut) = q  BY <1>2, <1>3, <1>7, UntilOnly
<1>9. Holds(Char, C, M, 1, q)  BY <1>2, <1>3, <1>8, SliceIs DEF BareOf
<1> HIDE DEF B, C
<1>10. B \in Seq(Char) /\ C \in Seq(Char) /\ Len(B) = q - 1 /\ Len(C) = q - 1 /\ \A j \in 1..(q - 1) : B[j] = text[j] /\ C[j] = M[j]
  BY <1>2, <1>6, <1>9 DEF Holds
<1>11. ASSUME NEW j \in 1..Len(B) PROVE C[j] = "/" <=> B[j] = "/"
  <2>1. j \in 1..(q - 1) /\ j \in 1..Len(text)  BY <1>2, <1>10
  <2>2. j \in H => text[j] \notin Separators  BY <1>5, <2>1 DEF KeepsBare
  <2> QED BY <1>3, <1>4, <1>10, <2>1, <2>2
<1>12. SameSlashes(Char, B, C)  BY <1>2, <1>10, <1>11 DEF SameSlashes
<1> QED BY <1>2, <1>8, <1>10, <1>12 DEF q, B, C, M

\* What is hidden leaves the first segment alone, and of each other segment
\* either all or nothing that starts a parameter.
KeepsSegments(text, H, B) ==
  /\ \A i \in 1..(SegmentEnd(B, RunEnd(B, 1, {"/"})) - 1) : i \notin H
  /\ \A i \in 1..(Len(B) + 1) : i = 1 \/ B[i - 1] = "/" =>
       (\A j \in i..(SegmentEnd(B, i) - 1) : j \notin H) \/ (i <= Len(B) => Masked(text, H)[i] \notin ParameterMarks)

LEMMA PathKept ==
  ASSUME NEW Char, "end" \notin Char, "b" \in Char, NEW text \in Seq(Char), NEW cut, cut \subseteq Separators, NEW H,
         KeepsBare(text, H, Until(text, 1, cut)),
         IF IsTemplate(BareOf(text, cut)) THEN \A j \in 1..(Until(text, 1, cut) - 1) : j \notin H
         ELSE KeepsSegments(text, H, BareOf(text, cut))
  PROVE  PathOf(BareOf(Masked(text, H), cut)) = PathOf(BareOf(text, cut))
<1> DEFINE q == Until(text, 1, cut)
           M == Masked(text, H)
           B == BareOf(text, cut)
           C == BareOf(M, cut)
<1>1. /\ q \in 1..(Len(text) + 1) /\ SameSlashes(Char, B, C) /\ Len(B) = q - 1
      /\ \A j \in 1..(q - 1) : B[j] = text[j] /\ C[j] = M[j]
  BY BareKept
<1>2. \A i \in 1..Len(text) : M[i] = IF i \in H THEN "b" ELSE text[i]  BY MaskedIs
<1>3. IF IsTemplate(B) THEN \A j \in 1..(q - 1) : j \notin H ELSE KeepsSegments(text, H, B)  OBVIOUS
<1>4. Len(text) \in Nat  OBVIOUS
<1> HIDE DEF q, M, B, C
<1>5. \A j \in 1..(q - 1) : j \notin H => C[j] = B[j]  BY <1>1, <1>2, <1>4
<1>6. B \in Seq(Char) /\ C \in Seq(Char) /\ Len(C) = Len(B) /\ Len(B) = q - 1 /\ Len(B) \in Nat
  BY <1>1 DEF SameSlashes
<1>7. CASE IsTemplate(B)
  <2>1. \A j \in 1..Len(B) : C[j] = B[j]  BY <1>3, <1>5, <1>6, <1>7
  <2>2. C = B  BY <1>6, <2>1, SeqEqual
  <2> QED BY <2>2 DEF B, C, M
<1>8. CASE ~IsTemplate(B)
  <2>1. KeepsSegments(text, H, B)  BY <1>3, <1>8
  <2>2. ASSUME NEW i \in 1..(Len(B) + 1), i = 1 \/ B[i - 1] = "/"
        PROVE  (\A j \in i..(SegmentEnd(B, i) - 1) : C[j] = B[j]) \/ (i <= Len(B) => C[i] \notin ParameterMarks)
    <3>1. (\A j \in i..(SegmentEnd(B, i) - 1) : j \notin H) \/ (i <= Len(B) => M[i] \notin ParameterMarks)
      BY <2>1, <2>2 DEF KeepsSegments, M
    <3>2. SegmentEnd(B, i) \in i..(Len(B) + 1)  BY <1>1, SegmentsEnd
    <3> QED BY <1>1, <1>5, <1>6, <3>1, <3>2
  <2>3. ~IsTemplate(C)  BY <1>1, <1>8, <2>2, NoTemplate
  <2>4. ASSUME NEW i \in 1..(SegmentEnd(B, RunEnd(B, 1, {"/"})) - 1) PROVE C[i] = B[i]
    <3>1. i \notin H  BY <2>1 DEF KeepsSegments
    <3> DEFINE first == RunEnd(B, 1, {"/"})
    <3>2. first \in 1..(Len(B) + 1)  BY <1>1, <1>6, SegmentsEnd
    <3> HIDE DEF first
    <3>3. SegmentEnd(B, first) \in first..(Len(B) + 1)  BY <1>1, <3>2, SegmentsEnd
    <3>4. i \in 1..(q - 1)  BY <1>6, <3>2, <3>3 DEF first
    <3> QED BY <1>5, <3>1, <3>4
  <2>5. PathOf(C) = PathOf(B)  BY <1>1, <1>8, <2>3, <2>4, PathsAgree
  <2> QED BY <2>5 DEF B, C, M
<1> QED BY <1>7, <1>8

\* s starts with a scheme of n characters.
IsScheme(s, n) ==
  /\ n \in 4..Len(s) /\ s[1] \in NameAlpha
  /\ \A j \in 1..(n - 3) : s[j] \in SchemeChars
  /\ s[n - 2] = ":" /\ s[n - 1] = "/" /\ s[n] = "/"

LEMMA SchemeIs ==
  ASSUME NEW Char, "end" \notin Char, NEW s \in Seq(Char)
  PROVE  SchemeLength(s) = 0 \/ IsScheme(s, SchemeLength(s))
<1> DEFINE i == RunEnd(s, 1, SchemeChars)
           N == Len(s)
           found == At(s, 1) \in NameAlpha /\ At(s, i) = ":" /\ At(s, i + 1) = "/" /\ At(s, i + 2) = "/"
<1>1. SchemeLength(s) = IF found THEN i + 2 ELSE 0  BY DEF SchemeLength, SchemeChars
<1>2. N \in Nat /\ DOMAIN s = 1..N /\ \A j : At(s, j) # "end" => j \in 1..N /\ At(s, j) = s[j]
  BY DEF At
<1>3. i \in 1..(N + 1) /\ (\A j \in 1..(i - 1) : j \in 1..N /\ s[j] \in SchemeChars) /\ At(s, i) \notin SchemeChars
  <2>1. "end" \notin SchemeChars /\ 1 \in 1..(N + 1)  BY <1>2, NameCharacters
  <2> QED BY <2>1, RunEndIs
<1>4. ASSUME found PROVE IsScheme(s, i + 2)
  <2> HIDE DEF i
  <2>1. "end" \notin NameAlpha /\ NameAlpha \subseteq SchemeChars  BY NameCharacters
  <2>2. /\ 1 \in 1..N /\ s[1] \in NameAlpha /\ i \in 1..N /\ s[i] = ":" /\ i + 1 \in 1..N /\ s[i + 1] = "/"
        /\ i + 2 \in 1..N /\ s[i + 2] = "/"
    BY <1>2, <1>4, <2>1
  <2>3. i # 1  BY <1>2, <1>3, <1>4, <2>1, NameCharacters
  <2>4. i + 2 \in 4..N /\ (i + 2) - 2 = i /\ (i + 2) - 1 = i + 1 /\ (i + 2) - 3 = i - 1
    BY <1>2, <1>3, <2>2, <2>3
  <2> QED BY <1>3, <2>2, <2>4 DEF IsScheme
<1> HIDE DEF i, found
<1> QED BY <1>1, <1>4

LEMMA SchemeOnly ==
  ASSUME NEW Char, "end" \notin Char, NEW s \in Seq(Char), NEW n, IsScheme(s, n)
  PROVE  SchemeLength(s) = n /\ n \in Nat /\ n > 0
<1> DEFINE i == RunEnd(s, 1, SchemeChars)
           N == Len(s)
<1>1. N \in Nat /\ n \in 4..N /\ DOMAIN s = 1..N  BY DEF IsScheme
<1>2. At(s, 1) = s[1] /\ At(s, n - 2) = s[n - 2] /\ At(s, n - 1) = s[n - 1] /\ At(s, n) = s[n]
  BY <1>1 DEF At
<1>3. i = n - 2
  <2>1. "end" \notin SchemeChars /\ 1 \in 1..(N + 1) /\ n - 2 \in 1..(N + 1) /\ (n - 2) - 1 = n - 3
    BY <1>1, NameCharacters
  <2>2. At(s, n - 2) \notin SchemeChars  BY <1>2, NameCharacters DEF IsScheme
  <2>3. \A j \in 1..((n - 2) - 1) : s[j] \in SchemeChars  BY <2>1 DEF IsScheme
  <2> QED BY <2>1, <2>2, <2>3, RunEndOnly
<1>4. i + 1 = n - 1 /\ i + 2 = n  BY <1>1, <1>3
<1>5. SchemeLength(s) = i + 2
  <2> HIDE DEF i
  <2>1. At(s, 1) \in NameAlpha /\ At(s, i) = ":" /\ At(s, i + 1) = "/" /\ At(s, i + 2) = "/"
    BY <1>2, <1>3, <1>4 DEF IsScheme
  <2> QED BY <2>1 DEF SchemeLength, SchemeChars, i
<1> QED BY <1>1, <1>4, <1>5

LEMMA PrefixScheme ==
  ASSUME NEW s, NEW t, NEW n, IsScheme(s, n), Len(t) \in Nat, n <= Len(t), \A j \in 1..n : t[j] = s[j]
  PROVE  IsScheme(t, n)
<1>1. n \in Nat /\ n >= 4  BY DEF IsScheme
<1>2. 1 \in 1..n /\ n - 2 \in 1..n /\ n - 1 \in 1..n /\ n \in 1..n /\ n \in 4..Len(t) /\ \A j \in 1..(n - 3) : j \in 1..n
  BY <1>1
<1> QED BY <1>2 DEF IsScheme

\* The scheme of two texts that agree up to where a query or a blank follows.
LEMMA SchemeGoesOver ==
  ASSUME NEW Char, "end" \notin Char, NEW s \in Seq(Char), NEW t \in Seq(Char), NEW k \in Nat, k <= Len(s), k <= Len(t),
         \A j \in 1..k : t[j] = s[j], k < Len(s) => s[k + 1] \in TargetCut, SchemeLength(s) # 0
  PROVE  SchemeLength(t) = SchemeLength(s)
<1> DEFINE n == SchemeLength(s)
<1>1. IsScheme(s, n)  BY SchemeIs
<1> HIDE DEF n
<1>2. n \in 4..Len(s) /\ Len(s) \in Nat /\ Len(t) \in Nat  BY <1>1 DEF IsScheme
<1>3. ASSUME NEW j \in 1..n PROVE s[j] \notin TargetCut
  <2>1. j \in 1..(n - 3) \/ j = n - 2 \/ j = n - 1 \/ j = n  BY <1>2
  <2>2. s[j] \in SchemeChars \/ s[j] = ":" \/ s[j] = "/"  BY <1>1, <2>1 DEF IsScheme
  <2> QED BY <2>2, NameCharacters
<1>4. n <= k
  <2> SUFFICES ASSUME k < n PROVE FALSE  BY <1>2
  <2>1. k + 1 \in 1..n /\ k < Len(s)  BY <1>2
  <2> QED BY <1>3, <2>1
<1>5. IsScheme(t, n)  BY <1>1, <1>2, <1>4, PrefixScheme
<1>6. SchemeLength(t) = n  BY <1>5, SchemeOnly
<1> QED BY <1>6 DEF n

LEMMA SchemesAgree ==
  ASSUME NEW Char, "end" \notin Char, NEW s \in Seq(Char), NEW t \in Seq(Char), NEW k \in Nat, k <= Len(s), k <= Len(t),
         \A j \in 1..k : t[j] = s[j], k < Len(s) => s[k + 1] \in TargetCut, k < Len(t) => t[k + 1] \in TargetCut
  PROVE  SchemeLength(t) = SchemeLength(s)
<1>1. SchemeLength(s) # 0 => SchemeLength(t) = SchemeLength(s)  BY SchemeGoesOver
<1>2. \A j \in 1..k : s[j] = t[j]  OBVIOUS
<1>3. SchemeLength(t) # 0 => SchemeLength(s) = SchemeLength(t)  BY <1>2, SchemeGoesOver
<1> QED BY <1>1, <1>3

\* A path: everything but separators is hidden after the first segment.
LEMMA PathHidden ==
  ASSUME NEW Char, "end" \notin Char, "b" \in Char, NEW text \in Seq(Char), NEW cut \in {QueryCut, TargetCut},
         At(text, 1) = "/"
  PROVE  /\ PathOf(BareOf(Masked(text, HiddenIn(text, cut)), cut)) = PathOf(BareOf(text, cut))
         /\ 1 \notin HiddenIn(text, cut)
<1> DEFINE N == Len(text)
           H == HiddenIn(text, cut)
           q == Until(text, 1, cut)
           B == BareOf(text, cut)
           r == RunEnd(text, 1, {"/"})
           M == Masked(text, H)
<1>1. cut \subseteq TargetCut /\ cut \subseteq Separators /\ "/" \notin cut  BY NameCharacters
<1>2. N \in Nat /\ 1 \in 1..N /\ text[1] = "/"
  <2>1. N \in Nat /\ DOMAIN text = 1..N  OBVIOUS
  <2>2. 1 \in DOMAIN text  BY NameCharacters DEF At
  <2> QED BY <2>1, <2>2 DEF At
<1>3. IsUntil(text, 1, cut, q)  BY <1>2, UntilIs
<1>4. q \in 2..(N + 1)
  <2> HIDE DEF q
  <2> QED BY <1>1, <1>2, <1>3 DEF IsUntil
<1>5. B \in Seq(Char) /\ Len(B) = q - 1 /\ \A j \in 1..(q - 1) : B[j] = text[j]
  <2> HIDE DEF q
  <2>1. Holds(Char, B, text, 1, q)  BY <1>4, SliceIs DEF BareOf, q
  <2> HIDE DEF B
  <2> QED BY <1>4, <2>1 DEF Holds
<1>6. AuthorityFrom(text, cut) = 1
  <2> HIDE DEF B
  <2>1. B[1] = "/"  BY <1>2, <1>4, <1>5
  <2>2. ~IsScheme(B, SchemeLength(B))  BY <2>1, NameCharacters DEF IsScheme
  <2>3. SchemeLength(B) = 0  BY <1>5, <2>2, SchemeIs
  <2> QED BY <2>3 DEF AuthorityFrom, B
<1>7. HiddenInAddress(text, cut) = {}  BY <1>6 DEF HiddenInAddress
<1>8. r \in 1..(N + 1) /\ (\A j \in 1..(r - 1) : text[j] \in {"/"}) /\ At(text, r) \notin {"/"}
  BY <1>2, RunEndIs
<1>9. ASSUME NEW j \in 1..q
      PROVE  j \in H <=> /\ ~IsTemplate(B) /\ j >= r /\ j <= N
                         /\ \E k \in r..(j - 1) : text[k] = "/"
                         /\ text[j] \notin Separators
  <2>1. H = Beyond(text, 1, cut) \cup HiddenInPath(text, cut)  BY <1>7 DEF H, HiddenIn
  <2>2. j \notin Beyond(text, 1, cut)
    <3> HIDE DEF q
    <3> QED BY <1>3, <1>4 DEF IsUntil, Beyond
  <2>3. j \in H <=> j \in HiddenInPath(text, cut)  BY <2>1, <2>2
  <2>4. j \in HiddenInPath(text, cut) <=>
          /\ ~IsTemplate(B) /\ j \in r..N
          /\ \E k \in r..(j - 1) : text[k] \in {"/"}
          /\ text[j] \notin Separators
    BY DEF HiddenInPath, Beyond
  <2> QED BY <1>2, <1>4, <1>8, <2>3, <2>4
<1>10. M \in Seq(Char) /\ Len(M) = N /\ \A i \in 1..N : M[i] = IF i \in H THEN "b" ELSE text[i]
  BY MaskedIs
<1> HIDE DEF H, q, B, r, M
<1>11. KeepsBare(text, H, q)
  <2>1. q \in 1..q /\ \A j \in 1..(q - 1) : j \in 1..q  BY <1>4
  <2>2. q \notin H  BY <1>1, <1>3, <1>9, <2>1 DEF IsUntil
  <2> QED BY <1>9, <2>1, <2>2 DEF KeepsBare
<1>12. ASSUME IsTemplate(B) PROVE \A j \in 1..(q - 1) : j \notin H  BY <1>4, <1>9, <1>12
<1>13. r \in 1..q /\ RunEnd(B, 1, {"/"}) = r
  <2>1. ~(q < r)
    <3> SUFFICES ASSUME q < r PROVE FALSE  OBVIOUS
    <3>1. q \in 1..(r - 1) /\ q <= N  BY <1>2, <1>4, <1>8
    <3>2. text[q] \in {"/"} /\ text[q] \in cut  BY <1>3, <1>8, <3>1 DEF IsUntil
    <3> QED BY <1>1, <3>2
  <2>2. r \in 1..q  BY <1>4, <1>8, <2>1
  <2>3. At(B, r) \notin {"/"}
    <3>1. DOMAIN B = 1..(q - 1) /\ DOMAIN text = 1..N  BY <1>5
    <3>2. r \in 1..(q - 1) => At(B, r) = At(text, r)  BY <1>4, <1>5, <2>2, <3>1 DEF At
    <3>3. r \notin 1..(q - 1) => At(B, r) = "end"  BY <3>1 DEF At
    <3> QED BY <1>8, <3>2, <3>3, NameCharacters
  <2>4. \A j \in 1..(r - 1) : B[j] \in {"/"}  BY <1>4, <1>5, <1>8, <2>2
  <2>5. r \in 1..(Len(B) + 1) /\ 1 \in 1..(Len(B) + 1)  BY <1>4, <1>5, <2>2
  <2> QED BY <1>5, <2>2, <2>3, <2>4, <2>5, RunEndOnly
<1>14. ASSUME ~IsTemplate(B) PROVE KeepsSegments(text, H, B)
  <2> DEFINE e == SegmentEnd(B, r)
  <2>1. IsUntil(B, r, {"/"}, e)
    <3>1. r \in 1..(Len(B) + 1)  BY <1>4, <1>5, <1>13
    <3> QED BY <1>5, <3>1, UntilIs DEF SegmentEnd
  <2> HIDE DEF e
  <2>2. e \in r..q  BY <1>4, <1>5, <2>1 DEF IsUntil
  <2>3. ASSUME NEW i \in 1..(e - 1) PROVE i \notin H
    <3>1. i \in 1..q  BY <1>4, <1>13, <2>2
    <3>2. ASSUME NEW k \in r..(i - 1) PROVE text[k] # "/"
      <4>1. k \in r..(e - 1) /\ k \in 1..(q - 1)  BY <1>4, <1>13, <2>2
      <4> QED BY <1>5, <2>1, <4>1 DEF IsUntil
    <3> QED BY <1>9, <3>1, <3>2
  <2>4. ASSUME NEW i \in 1..(Len(B) + 1), i = 1 \/ B[i - 1] = "/"
        PROVE  (\A j \in i..(SegmentEnd(B, i) - 1) : j \notin H) \/ (i <= Len(B) => M[i] \notin ParameterMarks)
    <3>1. i \in 1..q  BY <1>4, <1>5
    <3>2. CASE i < r
      <4>1. i \in 1..(r - 1) /\ i \in 1..N  BY <1>2, <1>4, <1>8, <1>13, <3>1, <3>2
      <4>2. M[i] = "b" \/ M[i] = "/"  BY <1>8, <1>10, <4>1
      <4> QED BY <4>2, NameCharacters
    <3>3. CASE i = r  BY <1>13, <2>2, <2>3, <3>3 DEF e
    <3>4. CASE i > r
      <4> SUFFICES ASSUME i <= Len(B) PROVE M[i] \notin ParameterMarks  OBVIOUS
      <4>1. i \in 1..N /\ i - 1 \in r..(i - 1) /\ i - 1 \in 1..(q - 1) /\ i # 1
        BY <1>2, <1>4, <1>5, <1>13, <3>1, <3>4
      <4>2. text[i - 1] = "/"  BY <1>5, <2>4, <4>1
      <4>3. text[i] \notin Separators => i \in H  BY <1>9, <1>14, <3>1, <3>4, <4>1, <4>2, <1>8
      <4>4. M[i] = "b" \/ M[i] \in Separators  BY <1>10, <4>1, <4>3
      <4> QED BY <4>4, NameCharacters
    <3> QED BY <1>8, <1>5, <1>4, <3>2, <3>3, <3>4
  <2> QED BY <1>13, <2>3, <2>4 DEF KeepsSegments, e, M
<1>15. 1 \notin H  BY <1>4, <1>8, <1>9
<1>16. PathOf(BareOf(M, cut)) = PathOf(B)  BY <1>1, <1>11, <1>12, <1>14, PathKept DEF B, M, q
<1> QED BY <1>15, <1>16 DEF H, B, M

\* The last "@" of a text, 0 when it has none.
LastAt(w, m) ==
  m \in 0..Len(w) /\ (m > 0 => w[m] = "@") /\ \A i \in (m + 1)..Len(w) : w[i] # "@"

LEMMA AfterUserIs ==
  ASSUME NEW Char, NEW w \in Seq(Char)
  PROVE  \E m : LastAt(w, m) /\ AfterUser(w) = Slice(w, m + 1, Len(w) + 1)
<1> DEFINE K == {i \in DOMAIN w : w[i] = "@"}
           S == {0} \cup K
           m == Max(S)
           N == Len(w)
<1>1. N \in Nat /\ DOMAIN w = 1..N  OBVIOUS
<1>2. K \subseteq 1..N  BY <1>1
<1>3. \E x \in S : \A y \in S : x >= y
  <2>1. CASE K = {}  BY <2>1
  <2>2. CASE K # {}
    <3>1. Max(K) \in K /\ \A k \in K : k <= Max(K)
      <4> HIDE DEF K
      <4> QED BY <1>1, <1>2, <2>2, LastOf
    <3> DEFINE x == Max(K)
    <3>2. x \in K /\ \A k \in K : k <= x  BY <3>1
    <3> HIDE DEF x, K
    <3>3. x \in 1..N  BY <1>2, <3>2
    <3>4. \A y \in S : x >= y  BY <1>1, <1>2, <3>2, <3>3
    <3> QED BY <3>2, <3>4
  <2> QED BY <2>1, <2>2
<1>4. m \in S /\ \A y \in S : m >= y
  <2> HIDE DEF S
  <2> QED BY <1>3 DEF Max
<1>5. AfterUser(w) = SubSeq(w, m + 1, N)  BY DEF AfterUser
<1> HIDE DEF m
<1>6. m \in 0..N /\ (m > 0 => w[m] = "@")  BY <1>1, <1>4
<1>7. ASSUME NEW i \in (m + 1)..N, w[i] = "@" PROVE FALSE
  <2>1. i \in S /\ ~(m >= i)  BY <1>1, <1>6, <1>7
  <2> QED BY <1>4, <2>1
<1>8. AfterUser(w) = Slice(w, m + 1, N + 1)
  <2>1. (N + 1) - 1 = N  BY <1>1
  <2> HIDE DEF N
  <2>2. Slice(w, m + 1, N + 1) = SubSeq(w, m + 1, (N + 1) - 1)  BY Zenon DEF Slice
  <2> QED BY <1>5, <2>1, <2>2
<1> QED BY <1>6, <1>7, <1>8 DEF LastAt

LEMMA OnlyLastAt ==
  ASSUME NEW w, NEW m, NEW n, Len(w) \in Nat, LastAt(w, m), LastAt(w, n)
  PROVE  m = n
<1>1. m \in 0..Len(w) /\ n \in 0..Len(w)  BY DEF LastAt
<1>2. ~(m < n)
  <2> SUFFICES ASSUME m < n PROVE FALSE  OBVIOUS
  <2>1. n \in (m + 1)..Len(w) /\ n > 0  BY <1>1
  <2> QED BY <2>1 DEF LastAt
<1>3. ~(n < m)
  <2> SUFFICES ASSUME n < m PROVE FALSE  OBVIOUS
  <2>1. m \in (n + 1)..Len(w) /\ m > 0  BY <1>1
  <2> QED BY <2>1 DEF LastAt
<1> QED BY <1>1, <1>2, <1>3

\* What stands before the last "@" of an authority does not matter.
LEMMA UserHidden ==
  ASSUME NEW Char, "b" \in Char, NEW text \in Seq(Char), NEW H, NEW a \in 1..(Len(text) + 1), NEW e \in a..(Len(text) + 1),
         \A j \in a..(e - 1) : j \in H => \E k \in (j + 1)..(e - 1) : text[k] = "@"
  PROVE  AfterUser(Slice(Masked(text, H), a, e)) = AfterUser(Slice(text, a, e))
<1> DEFINE M == Masked(text, H)
           w == Slice(text, a, e)
           v == Slice(M, a, e)
           L == e - a
<1>1. M \in Seq(Char) /\ Len(M) = Len(text) /\ Len(text) \in Nat /\ \A i \in 1..Len(text) : M[i] = IF i \in H THEN "b" ELSE text[i]
  BY MaskedIs
<1>2. w \in Seq(Char) /\ Len(w) = e - a /\ \A k \in 1..(e - a) : w[k] = text[a + k - 1]
  BY SliceIs DEF Holds
<1>3. v \in Seq(Char) /\ Len(v) = e - a /\ \A k \in 1..(e - a) : v[k] = M[a + k - 1]
  <2> HIDE DEF M
  <2>1. a \in 1..(Len(M) + 1) /\ e \in a..(Len(M) + 1)  BY <1>1
  <2>2. Holds(Char, v, M, a, e)  BY <1>1, <2>1, SliceIs
  <2> QED BY <2>2 DEF Holds
<1>4. L \in Nat /\ a \in Nat /\ e \in Nat /\ e = a + L  BY <1>1
<1> HIDE DEF M, w, v
<1>5. PICK m : LastAt(w, m) /\ AfterUser(w) = Slice(w, m + 1, Len(w) + 1)  BY <1>2, AfterUserIs
<1>6. PICK n : LastAt(v, n) /\ AfterUser(v) = Slice(v, n + 1, Len(v) + 1)  BY <1>3, AfterUserIs
<1>7. m \in 0..L  BY <1>2, <1>5 DEF LastAt
<1>8. ASSUME NEW i \in 1..L, i >= m PROVE v[i] = w[i]
  <2> DEFINE j == a + i - 1
  <2>1. j \in a..(e - 1) /\ j \in 1..Len(text)  BY <1>1, <1>4
  <2>2. j \notin H
    <3> SUFFICES ASSUME j \in H PROVE FALSE  OBVIOUS
    <3>1. PICK k \in (j + 1)..(e - 1) : text[k] = "@"  BY <2>1
    <3> DEFINE l == k - a + 1
    <3>2. l \in 1..L /\ a + l - 1 = k /\ l \in (m + 1)..L  BY <1>4, <1>7, <1>8, <2>1
    <3>3. w[l] = "@"  BY <1>2, <1>4, <3>1, <3>2
    <3> QED BY <1>2, <1>5, <3>2, <3>3 DEF LastAt
  <2>3. M[j] = text[j]  BY <1>1, <2>1, <2>2
  <2> QED BY <1>2, <1>3, <2>3
<1>9. LastAt(v, m)  BY <1>2, <1>3, <1>4, <1>5, <1>7, <1>8 DEF LastAt
<1>10. n = m  BY <1>3, <1>4, <1>6, <1>9, OnlyLastAt
<1>11. Slice(v, m + 1, L + 1) = Slice(w, m + 1, L + 1)
  <2>1. m + 1 \in 1..(Len(w) + 1) /\ L + 1 \in (m + 1)..(Len(w) + 1) /\ L + 1 <= Len(v) + 1
    BY <1>2, <1>3, <1>4, <1>7
  <2>2. \A j \in (m + 1)..((L + 1) - 1) : v[j] = w[j]  BY <1>4, <1>7, <1>8
  <2> HIDE DEF L
  <2> QED BY <1>2, <1>3, <2>1, <2>2, SlicesAgree
<1>12. AfterUser(v) = AfterUser(w)  BY <1>2, <1>3, <1>5, <1>6, <1>10, <1>11
<1> QED BY <1>12 DEF v, w, M

\* An authority that ends in neither a digit nor an "@" names a host.
LEMMA HostStays ==
  ASSUME NEW Char, NEW w \in Seq(Char), Len(w) >= 1, w[Len(w)] \notin NameDigit \cup {"@"}, NEW n, n # 0
  PROVE  HostFrom(n, AfterUser(w)) # << >>
<1> DEFINE v == AfterUser(w)
           N == Len(w)
<1>1. PICK m : LastAt(w, m) /\ v = Slice(w, m + 1, N + 1)  BY AfterUserIs
<1>2. N \in Nat /\ m \in 0..N /\ m # N  BY <1>1 DEF LastAt
<1>3. Holds(Char, Slice(w, m + 1, N + 1), w, m + 1, N + 1)
  <2>1. m + 1 \in 1..(Len(w) + 1) /\ N + 1 \in (m + 1)..(Len(w) + 1)  BY <1>2
  <2> QED BY <2>1, SliceIs
<1> HIDE DEF v
<1>4. v \in Seq(Char) /\ Len(v) = N - m /\ \A k \in 1..(N - m) : v[k] = w[m + k]
  BY <1>1, <1>2, <1>3 DEF Holds
<1> DEFINE L == Len(v)
<1>5. L \in Nat /\ L >= 1 /\ v[L] \notin NameDigit
  <2>1. N - m \in 1..(N - m) /\ m + (N - m) = N /\ N - m >= 1  BY <1>2
  <2> QED BY <1>4, <2>1
<1>6. ASSUME NEW i \in 1..(L - 1), ToSet(SubSeq(v, i + 1, L)) \subseteq NameDigit PROVE FALSE
  <2> DEFINE t == SubSeq(v, i + 1, L)
  <2>1. t = Slice(v, i + 1, L + 1)  BY <1>5 DEF Slice
  <2>2. i + 1 \in 1..(Len(v) + 1) /\ L + 1 \in (i + 1)..(Len(v) + 1)  BY <1>5
  <2>3. Holds(Char, t, v, i + 1, L + 1)  BY <1>4, <2>1, <2>2, SliceIs
  <2> HIDE DEF t
  <2>4. t \in Seq(Char) /\ Len(t) = (L + 1) - (i + 1) /\ \A k \in 1..((L + 1) - (i + 1)) : t[k] = v[(i + 1) + k - 1]
    BY <2>3 DEF Holds
  <2>5. L - i \in 1..((L + 1) - (i + 1)) /\ (i + 1) + (L - i) - 1 = L /\ L - i \in DOMAIN t
    BY <1>5, <2>4
  <2>6. t[L - i] = v[L]  BY <2>4, <2>5
  <2>7. v[L] \in ToSet(t)  BY <2>5, <2>6 DEF ToSet
  <2> QED BY <1>5, <1>6, <2>7 DEF t
<1>7. {i \in 1..(Len(v) - 1) : v[i] = ":" /\ ToSet(SubSeq(v, i + 1, Len(v))) \subseteq NameDigit} = {}
  BY <1>6
<1>8. HostFrom(n, v) = v  BY <1>7, Zenon DEF HostFrom
<1>9. v # << >>  BY <1>4, <1>5
<1> QED BY <1>8, <1>9 DEF v

\* The scheme, the host and the path of a text's target, read off the text.
HostIn(text, n) == HostFrom(n, AfterUser(Slice(text, n + 1, Until(text, n + 1, Separators))))
Scheme(text) == SchemeLength(BareOf(text, TargetCut))

LEMMA BareIs ==
  ASSUME NEW Char, "end" \notin Char, NEW text \in Seq(Char)
  PROVE  LET q == Until(text, 1, TargetCut)
             B == BareOf(text, TargetCut)
         IN /\ IsUntil(text, 1, TargetCut, q) /\ q \in 1..(Len(text) + 1) /\ Len(text) \in Nat
            /\ B \in Seq(Char) /\ Len(B) = q - 1 /\ \A j \in 1..(q - 1) : B[j] = text[j]
<1> DEFINE q == Until(text, 1, TargetCut)
           B == BareOf(text, TargetCut)
<1>1. IsUntil(text, 1, TargetCut, q) /\ Len(text) \in Nat  BY UntilIs
<1> HIDE DEF q
<1>2. q \in 1..(Len(text) + 1)  BY <1>1 DEF IsUntil
<1>3. Holds(Char, B, text, 1, q)  BY <1>1, <1>2, SliceIs DEF BareOf, q
<1> HIDE DEF B
<1>4. B \in Seq(Char) /\ Len(B) = q - 1 /\ \A j \in 1..(q - 1) : B[j] = text[j]
  BY <1>2, <1>3 DEF Holds
<1> QED BY <1>1, <1>2, <1>4 DEF q, B

LEMMA TargetIs ==
  ASSUME NEW Char, "end" \notin Char, NEW text \in Seq(Char)
  PROVE  /\ TargetOf(text) \in Seq(Char)
         /\ StrictPath(TargetOf(text)) = PathOf(BareOf(text, TargetCut))
         /\ Scheme(text) = 0 \/ IsScheme(BareOf(text, TargetCut), Scheme(text))
         /\ HostOf(TargetOf(text)) = HostIn(text, Scheme(text))
<1> DEFINE t == TargetOf(text)
           e == Until(text, 1, {Blank})
           q == Until(text, 1, TargetCut)
           B == BareOf(text, TargetCut)
           n == Scheme(text)
<1>1. IsUntil(text, 1, {Blank}, e) /\ Len(text) \in Nat  BY UntilIs
<1>2. 1 \in 1..e
  <2> HIDE DEF e
  <2> QED BY <1>1 DEF IsUntil
<1>3. QueryCut \cup {Blank} = TargetCut /\ AuthorityCut \cup {Blank} = Separators  BY NameCharacters
<1>4. /\ t \in Seq(Char) /\ Until(t, 1, QueryCut) = q /\ q \in 1..(Len(t) + 1) /\ q \in 1..(Len(text) + 1)
      /\ Slice(t, 1, q) = Slice(text, 1, q)
  <2> DEFINE u == Until(text, 1, QueryCut \cup {Blank})
  <2>1. CutsAlike(Char, text, t, 1, QueryCut, u)  BY <1>2, CutTarget
  <2>2. u = q  BY <1>3
  <2> HIDE DEF u, q, t
  <2> QED BY <2>1, <2>2 DEF CutsAlike
<1>5. /\ IsUntil(text, 1, TargetCut, q) /\ B \in Seq(Char) /\ Len(B) = q - 1 /\ \A j \in 1..(q - 1) : B[j] = text[j]
  BY BareIs
<1>6. B = Slice(t, 1, q)  BY <1>4 DEF BareOf
<1>7. BareOf(t, QueryCut) = B  BY <1>4, <1>6 DEF BareOf
<1>8. StrictPath(t) = PathOf(B)  BY <1>7 DEF StrictPath
<1>9. n = 0 \/ IsScheme(B, n)  BY <1>5, SchemeIs DEF Scheme
<1>10. Holds(Char, t, text, 1, e)
  <2>1. e \in 1..(Len(text) + 1)
    <3> HIDE DEF e
    <3> QED BY <1>1 DEF IsUntil
  <2> HIDE DEF e
  <2> QED BY <1>1, <2>1, SliceIs DEF TargetOf, e
<1> HIDE DEF t, e, q, B, n
<1>11. Len(t) = e - 1 /\ \A j \in 1..(e - 1) : t[j] = text[j]  BY <1>2, <1>10 DEF Holds
<1>12. SchemeLength(t) = n
  <2>1. q - 1 \in Nat /\ q - 1 <= Len(B) /\ q - 1 <= Len(t) /\ \A j \in 1..(q - 1) : t[j] = B[j]
    BY <1>1, <1>2, <1>4, <1>5, <1>11
  <2>2. q - 1 < Len(t) => t[(q - 1) + 1] \in TargetCut
    <3> SUFFICES ASSUME q - 1 < Len(t) PROVE t[(q - 1) + 1] \in TargetCut  OBVIOUS
    <3>0. e \in 1..(Len(text) + 1)  BY <1>1 DEF IsUntil
    <3>1. (q - 1) + 1 = q /\ q \in 1..(e - 1) /\ q <= Len(text)  BY <1>1, <1>4, <1>11, <3>0
    <3>2. t[q] = text[q] /\ text[q] \in TargetCut  BY <1>5, <1>11, <3>1 DEF IsUntil
    <3> QED BY <3>1, <3>2
  <2>3. q - 1 < Len(B) => B[(q - 1) + 1] \in TargetCut  BY <1>4, <1>5
  <2>4. SchemeLength(t) = SchemeLength(B)  BY <1>4, <1>5, <2>1, <2>2, <2>3, SchemesAgree
  <2> QED BY <2>4 DEF n, Scheme, B
<1>13. n + 1 \in 1..e
  <2>0. e \in 1..(Len(text) + 1)  BY <1>1 DEF IsUntil
  <2>1. n = 0 \/ n \in 4..(q - 1)  BY <1>5, <1>9 DEF IsScheme
  <2>2. q <= e  BY <1>4, <1>11, <2>0
  <2> QED BY <1>1, <1>4, <2>0, <2>1, <2>2
<1>14. Authority(t, n) = Slice(text, n + 1, Until(text, n + 1, Separators))
  <2>1. /\ Until(t, n + 1, AuthorityCut) = Until(text, n + 1, Separators)
        /\ Slice(t, n + 1, Until(text, n + 1, Separators)) = Slice(text, n + 1, Until(text, n + 1, Separators))
    <3> DEFINE k == n + 1
               u == Until(text, k, AuthorityCut \cup {Blank})
    <3>1. k \in 1..Until(text, 1, {Blank})  BY <1>13 DEF e
    <3> HIDE DEF k
    <3>2. CutsAlike(Char, text, TargetOf(text), k, AuthorityCut, u)  BY <3>1, CutTarget
    <3>3. u = Until(text, k, Separators)  BY <1>3
    <3> HIDE DEF u
    <3> QED BY <3>2, <3>3 DEF k, t, CutsAlike
  <2> QED BY <2>1 DEF Authority
<1>15. HostOf(t) = HostIn(text, n)  BY <1>12, <1>14 DEF HostOf, HostIn
<1> QED BY <1>4, <1>7, <1>8, <1>9, <1>15 DEF t, B, n

LEMMA TargetStarts ==
  ASSUME NEW Char, "end" \notin Char, NEW text \in Seq(Char), Len(text) >= 1, text[1] # Blank
  PROVE  TargetOf(text) # << >> /\ TargetOf(text)[1] = text[1]
<1> DEFINE t == TargetOf(text)
           e == Until(text, 1, {Blank})
<1>1. IsUntil(text, 1, {Blank}, e) /\ Len(text) \in Nat  BY UntilIs
<1> HIDE DEF e
<1>2. e \in 2..(Len(text) + 1)  BY <1>1 DEF IsUntil
<1>3. Holds(Char, t, text, 1, e)  BY <1>1, <1>2, SliceIs DEF TargetOf, e
<1> HIDE DEF t
<1>4. t \in Seq(Char) /\ Len(t) = e - 1 /\ t[1] = text[1]  BY <1>2, <1>3 DEF Holds
<1>5. t # << >>  BY <1>2, <1>4
<1> QED BY <1>4, <1>5 DEF t

\* An address: its host stays, or it is read as a path like before.
LEMMA AddressHidden ==
  ASSUME NEW Char, "end" \notin Char, "b" \in Char, NEW text \in Seq(Char), Len(text) >= 1, text[1] # "/", text[1] # Blank
  PROVE  /\ NamedBy(TargetOf(Masked(text, HiddenIn(text, TargetCut)))) = NamedBy(TargetOf(text))
         /\ 1 \notin HiddenIn(text, TargetCut)
<1> DEFINE N == Len(text)
           H == HiddenIn(text, TargetCut)
           q == Until(text, 1, TargetCut)
           B == BareOf(text, TargetCut)
           M == Masked(text, H)
           C == BareOf(M, TargetCut)
           n == Scheme(text)
           a == n + 1
           e == Until(text, a, Separators)
           hasHost == HasHost(text, a, e)
<1>1. /\ IsUntil(text, 1, TargetCut, q) /\ q \in 1..(N + 1) /\ N \in Nat
      /\ B \in Seq(Char) /\ Len(B) = q - 1 /\ \A j \in 1..(q - 1) : B[j] = text[j]
  BY BareIs
<1>2. M \in Seq(Char) /\ Len(M) = N /\ \A i \in 1..N : M[i] = IF i \in H THEN "b" ELSE text[i]
  BY MaskedIs
<1>3. n = 0 \/ IsScheme(B, n)  BY TargetIs
<1>4. AuthorityFrom(text, TargetCut) = a /\ AuthorityTo(text, TargetCut) = e
  BY DEF AuthorityFrom, AuthorityTo, Scheme
<1>5. TargetCut \subseteq Separators /\ "b" \notin Separators /\ Separators = TargetCut \cup {"/"}
  BY NameCharacters
<1>6. ASSUME NEW j \in 1..q
      PROVE  j \in H <=> /\ a > 1 /\ (hasHost \/ ~IsTemplate(B))
                         /\ j \in UserIn(text, a, e) \cup (e + 1)..N
                         /\ hasHost \/ text[j] \notin Separators
  <2>1. At(text, 1) # "/"  BY <1>1 DEF At
  <2>2. HiddenInPath(text, TargetCut) = {}  BY <2>1 DEF HiddenInPath
  <2>3. j \notin Beyond(text, 1, TargetCut)
    <3> HIDE DEF q
    <3> QED BY <1>1 DEF IsUntil, Beyond
  <2>4. j \in H <=> j \in HiddenInAddress(text, TargetCut)  BY <2>2, <2>3 DEF H, HiddenIn
  <2> HIDE DEF a, e
  <2>5. j \in HiddenInAddress(text, TargetCut) <=>
          /\ a > 1 /\ (hasHost \/ ~IsTemplate(B))
          /\ j \in UserIn(text, a, e) \cup (e + 1)..N
          /\ hasHost \/ text[j] \notin Separators
    BY <1>4 DEF HiddenInAddress
  <2> HIDE DEF hasHost, H, B
  <2> QED BY <2>4, <2>5
<1> HIDE DEF H, q, B, M, C, n, e, hasHost
<1>7. n = 0 \/ n \in 4..(q - 1)  BY <1>1, <1>3 DEF IsScheme
<1>8. a \in 1..q /\ a \in 1..(N + 1) /\ n \in Nat  BY <1>1, <1>7
<1>9. IsUntil(text, a, Separators, e)
  <2> HIDE DEF a
  <2> QED BY <1>8, UntilIs DEF e
<1> HIDE DEF a
<1>10. e \in a..q
  <2>1. e \in a..(N + 1)  BY <1>9 DEF IsUntil
  <2>2. ~(q < e)
    <3> SUFFICES ASSUME q < e PROVE FALSE  OBVIOUS
    <3>1. q \in a..(e - 1) /\ q <= N  BY <1>1, <1>8, <2>1
    <3>2. text[q] \in TargetCut /\ text[q] \notin Separators  BY <1>1, <1>9, <3>1 DEF IsUntil
    <3> QED BY <1>5, <3>2
  <2> QED BY <1>1, <1>8, <2>1, <2>2
<1>11. ASSUME NEW j \in 1..q, j \in H
       PROVE  j >= a /\ j # e /\ a > 1 /\ (j < e => \E k \in (j + 1)..(e - 1) : text[k] = "@")
  <2>1. j \in UserIn(text, a, e) \cup (e + 1)..N /\ a > 1  BY <1>6, <1>11
  <2>2. CASE j \in (e + 1)..N  BY <1>1, <1>8, <1>10, <2>1, <2>2
  <2>3. CASE j \in UserIn(text, a, e)
    <3>1. j \in a..e /\ \E k \in (j + 1)..(e - 1) : text[k] = "@"  BY <2>3 DEF UserIn
    <3> QED BY <1>1, <1>8, <1>10, <2>1, <3>1
  <2> QED BY <2>1, <2>2, <2>3
<1>12. 1 \notin H
  <2>1. 1 \in 1..q  BY <1>1
  <2> QED BY <1>8, <1>11, <2>1
<1>13. \A j \in 1..n : j \notin H  BY <1>1, <1>7, <1>8, <1>11 DEF a
<1>14. M[1] = text[1]  BY <1>1, <1>2, <1>12
\* The same scheme, authority and host.
<1>15. Until(M, a, Separators) = e
  <2>1. IsUntil(M, a, Separators, e)
    <3>1. e \in a..(Len(M) + 1)  BY <1>1, <1>2, <1>8, <1>10
    <3>2. ASSUME NEW j \in a..(e - 1) PROVE j \in 1..Len(M) /\ M[j] \notin Separators
      <4>1. j \in 1..N /\ text[j] \notin Separators  BY <1>9 DEF IsUntil
      <4> QED BY <1>2, <1>5, <4>1
    <3>3. ASSUME e <= Len(M) PROVE M[e] \in Separators
      <4>1. e \in 1..N /\ e \in 1..q /\ text[e] \in Separators
        BY <1>1, <1>2, <1>8, <1>9, <1>10, <3>3 DEF IsUntil
      <4>2. e \notin H  BY <1>11, <4>1
      <4> QED BY <1>2, <4>1, <4>2
    <3> QED BY <3>1, <3>2, <3>3 DEF IsUntil
  <2> QED BY <1>2, <1>8, <2>1, UntilOnly
<1>16. AfterUser(Slice(M, a, e)) = AfterUser(Slice(text, a, e))
  <2>1. e \in a..(N + 1)  BY <1>1, <1>8, <1>10
  <2>2. \A j \in a..(e - 1) : j \in H => \E k \in (j + 1)..(e - 1) : text[k] = "@"
    BY <1>1, <1>8, <1>10, <1>11
  <2> QED BY <1>8, <2>1, <2>2, UserHidden DEF M
<1>17. HostIn(M, n) = HostIn(text, n)  BY <1>15, <1>16 DEF HostIn, e, a
\* Where nothing of the target's separators is hidden.
<1>18. ASSUME n = 0 \/ ~hasHost PROVE KeepsBare(text, H, q)
  <2>1. ASSUME NEW j \in 1..q, j \in H PROVE j <= N /\ text[j] \notin Separators
    <3>1. a > 1 /\ n # 0 /\ ~hasHost  BY <1>8, <1>11, <1>18, <2>1 DEF a
    <3>2. text[j] \notin Separators /\ j \in UserIn(text, a, e) \cup (e + 1)..N  BY <1>6, <2>1, <3>1
    <3>3. j < e \/ j \in (e + 1)..N  BY <1>11, <1>1, <1>8, <1>10, <2>1, <3>2 DEF UserIn
    <3> QED BY <1>1, <1>8, <1>10, <3>2, <3>3
  <2>2. q \notin H
    <3> SUFFICES ASSUME q \in H PROVE FALSE  OBVIOUS
    <3>1. q \in 1..q /\ q <= N /\ text[q] \notin Separators  BY <1>1, <2>1
    <3>2. text[q] \in TargetCut  BY <1>1, <3>1 DEF IsUntil
    <3> QED BY <1>5, <3>1, <3>2
  <2>3. \A j \in 1..(q - 1) : j \in H => text[j] \notin Separators  BY <1>1, <2>1
  <2> QED BY <2>2, <2>3 DEF KeepsBare
<1>19. ASSUME n = 0 \/ IsTemplate(B), ~hasHost \/ n = 0 PROVE \A j \in 1..q : j \notin H
  BY <1>6, <1>8, <1>11, <1>19 DEF a
<1>20. Scheme(M) = n
  <2>1. CASE n = 0
    <3>1. KeepsBare(text, H, q) /\ \A j \in 1..q : j \notin H  BY <1>18, <1>19, <2>1
    <3>2. SameSlashes(Char, B, C) /\ \A j \in 1..(q - 1) : B[j] = text[j] /\ C[j] = M[j]
      BY <1>5, <3>1, BareKept DEF B, C, M, q
    <3>3. C \in Seq(Char) /\ Len(C) = Len(B)  BY <3>2 DEF SameSlashes
    <3>4. \A j \in 1..Len(B) : C[j] = B[j]  BY <1>1, <1>2, <3>1, <3>2
    <3>5. C = B  BY <1>1, <3>3, <3>4, SeqEqual
    <3> QED BY <3>5 DEF C, B, n, Scheme
  <2>2. CASE n # 0
    <3> DEFINE p == Until(M, 1, TargetCut)
    <3>1. /\ IsUntil(M, 1, TargetCut, p) /\ p \in 1..(N + 1)
          /\ C \in Seq(Char) /\ Len(C) = p - 1 /\ \A j \in 1..(p - 1) : C[j] = M[j]
      BY <1>2, BareIs DEF C
    <3> HIDE DEF p
    <3>2. \A j \in 1..n : M[j] = B[j] /\ B[j] = text[j]  BY <1>1, <1>2, <1>7, <1>13, <2>2
    <3>3. n < p
      <4> SUFFICES ASSUME p <= n PROVE FALSE  BY <1>8, <3>1
      <4>1. p \in 1..n /\ p <= N /\ p \in 1..(q - 1)  BY <1>1, <1>7, <2>2, <3>1
      <4>2. M[p] \in TargetCut  BY <1>2, <3>1, <4>1 DEF IsUntil
      <4>3. text[p] \notin TargetCut  BY <1>1, <4>1 DEF IsUntil
      <4> QED BY <3>2, <4>1, <4>2, <4>3
    <3>4. IsScheme(C, n)
      <4>1. n <= Len(C) /\ Len(C) \in Nat  BY <1>8, <3>1, <3>3
      <4>2. \A j \in 1..n : C[j] = B[j]  BY <1>8, <3>1, <3>2, <3>3
      <4> QED BY <1>3, <2>2, <4>1, <4>2, PrefixScheme
    <3> QED BY <3>1, <3>4, SchemeOnly DEF Scheme, C
  <2> QED BY <2>1, <2>2
\* The name of either.
<1>21. /\ TargetOf(text)[1] = text[1] /\ HostOf(TargetOf(text)) = HostIn(text, n) /\ StrictPath(TargetOf(text)) = PathOf(B)
  BY TargetStarts, TargetIs DEF n, B
<1>22. /\ TargetOf(M)[1] = text[1] /\ HostOf(TargetOf(M)) = HostIn(text, n) /\ StrictPath(TargetOf(M)) = PathOf(C)
  <2>1. Len(M) >= 1 /\ M[1] # Blank  BY <1>2, <1>14
  <2>2. TargetOf(M)[1] = M[1]  BY <1>2, <2>1, TargetStarts
  <2>3. HostOf(TargetOf(M)) = HostIn(M, Scheme(M)) /\ StrictPath(TargetOf(M)) = PathOf(C)
    BY <1>2, TargetIs DEF C
  <2> QED BY <1>14, <1>17, <1>20, <2>2, <2>3
<1>23. ASSUME n # 0, hasHost PROVE HostIn(text, n) # << >>
  <2> DEFINE w == Slice(text, a, e)
  <2>1. a < e /\ text[e - 1] \notin NameDigit \cup {"@"}  BY <1>23 DEF hasHost, HasHost
  <2>2. e \in a..(N + 1)  BY <1>1, <1>8, <1>10
  <2>3. Holds(Char, w, text, a, e)  BY <1>8, <2>2, SliceIs
  <2> HIDE DEF w
  <2>4. w \in Seq(Char) /\ Len(w) = e - a /\ w[e - a] = text[e - 1]
    BY <1>1, <1>8, <2>1, <2>2, <2>3 DEF Holds
  <2>5. Len(w) >= 1 /\ w[Len(w)] \notin NameDigit \cup {"@"}  BY <1>8, <2>1, <2>2, <2>4
  <2>6. HostFrom(n, AfterUser(w)) # << >>  BY <1>23, <2>4, <2>5, HostStays
  <2> QED BY <2>6 DEF HostIn, w, a, e
<1>24. ASSUME n # 0, ~hasHost, ~IsTemplate(B) PROVE KeepsSegments(text, H, B)
  <2>1. IsScheme(B, n) /\ n \in 4..(q - 1)  BY <1>3, <1>7, <1>24
  <2>2. /\ B[1] \in NameAlpha /\ (\A j \in 1..(n - 2) : B[j] # "/") /\ B[n - 1] = "/" /\ B[n] = "/"
    <3>1. \A j \in 1..(n - 2) : j \in 1..(n - 3) \/ j = n - 2  BY <2>1
    <3> QED BY <2>1, <3>1, NameCharacters DEF IsScheme
  <2>3. RunEnd(B, 1, {"/"}) = 1
    <3>1. At(B, 1) \notin {"/"}  BY <1>1, <2>1, <2>2, NameCharacters DEF At
    <3>2. 1 \in 1..(Len(B) + 1) /\ \A j \in 1..(1 - 1) : B[j] \in {"/"}  BY <1>1
    <3>3. "end" \notin {"/"}  OBVIOUS
    <3> QED BY <1>1, <3>1, <3>2, <3>3, RunEndOnly
  <2>4. SegmentEnd(B, 1) = n - 1
    <3>1. IsUntil(B, 1, {"/"}, n - 1)  BY <1>1, <2>1, <2>2 DEF IsUntil
    <3>2. 1 \in 1..(Len(B) + 1)  BY <1>1
    <3> QED BY <1>1, <3>1, <3>2, UntilOnly DEF SegmentEnd
  <2>5. \A i \in 1..((n - 1) - 1) : i \notin H  BY <1>13, <2>1
  <2>6. ASSUME NEW i \in 1..(Len(B) + 1), i = 1 \/ B[i - 1] = "/"
        PROVE  (\A j \in i..(SegmentEnd(B, i) - 1) : j \notin H) \/ (i <= Len(B) => M[i] \notin ParameterMarks)
    <3>1. i \in 1..q  BY <1>1
    <3>2. CASE i = 1  BY <2>4, <2>5, <3>2
    <3>3. CASE i # 1 /\ i < a
      <4>1. i - 1 \in 1..(n - 1) /\ i \in 1..n  BY <1>8, <3>1, <3>3 DEF a
      <4>2. i - 1 = n - 1  BY <2>1, <2>2, <2>6, <3>3, <4>1
      <4>3. i = n /\ n \in 1..N /\ text[n] = "/"  BY <1>1, <2>1, <2>2, <4>1, <4>2
      <4>4. M[i] = "/"  BY <1>2, <1>13, <4>1, <4>3
      <4> QED BY <4>4, NameCharacters
    <3>4. CASE i = a
      <4>1. CASE a \in H
        <5>1. i <= Len(B) => M[i] = "b"  BY <1>1, <1>2, <1>8, <3>4, <4>1
        <5> QED BY <5>1, NameCharacters
      <4>2. CASE a \notin H /\ a = e
        <5>1. i <= Len(B) => i \in 1..N /\ e <= N  BY <1>1, <1>8, <3>4, <4>2
        <5>2. i <= Len(B) => M[i] \in Separators  BY <1>2, <1>9, <3>4, <4>2, <5>1 DEF IsUntil
        <5> QED BY <5>2, NameCharacters
      <4>3. CASE a \notin H /\ a # e
        <5>1. a \in a..(e - 1) /\ a \in 1..q /\ a > 1  BY <1>8, <1>10, <1>24, <4>3 DEF a
        <5>2. text[a] \notin Separators  BY <1>9, <5>1 DEF IsUntil
        <5>3. a \notin UserIn(text, a, e)  BY <1>6, <1>24, <4>3, <5>1, <5>2
        <5>4. ~\E k \in (a + 1)..(e - 1) : text[k] = "@"  BY <1>8, <1>10, <5>3 DEF UserIn
        <5>5. ASSUME NEW j \in a..(e - 1) PROVE j \notin H
          <6>1. j \in 1..q /\ j < e  BY <1>1, <1>8, <1>10
          <6>2. \A k \in (j + 1)..(e - 1) : k \in (a + 1)..(e - 1)  BY <1>8, <1>10
          <6> QED BY <1>11, <5>4, <6>1, <6>2
        <5>6. SegmentEnd(B, a) <= e
          <6> DEFINE s == SegmentEnd(B, a)
          <6>1. IsUntil(B, a, {"/"}, s)
            <7>1. a \in 1..(Len(B) + 1)  BY <1>1, <1>8
            <7> QED BY <1>1, <7>1, UntilIs DEF SegmentEnd
          <6> HIDE DEF s
          <6>2. s \in a..q  BY <1>1, <1>8, <6>1 DEF IsUntil
          <6>3. ~(e < s)
            <7> SUFFICES ASSUME e < s PROVE FALSE  OBVIOUS
            <7>1. e \in a..(s - 1) /\ e \in 1..(q - 1) /\ e <= N  BY <1>1, <1>8, <1>10, <6>2
            <7>2. text[e] \in Separators /\ text[e] \notin TargetCut
              BY <1>1, <1>9, <7>1 DEF IsUntil
            <7>3. text[e] = "/"  BY <1>5, <7>2
            <7>4. B[e] \notin {"/"}  BY <6>1, <7>1 DEF IsUntil
            <7> QED BY <1>1, <7>1, <7>3, <7>4
          <6>4. s <= e  BY <1>8, <1>10, <6>2, <6>3
          <6> QED BY <6>4 DEF s
        <5>7. SegmentEnd(B, a) \in Nat
          <6>1. a \in 1..(Len(B) + 1)  BY <1>1, <1>8
          <6>2. IsUntil(B, a, {"/"}, SegmentEnd(B, a))  BY <1>1, <6>1, UntilIs DEF SegmentEnd
          <6> QED BY <1>8, <6>2, <1>1 DEF IsUntil
        <5>8. \A j \in i..(SegmentEnd(B, i) - 1) : j \notin H
          BY <1>8, <1>10, <3>4, <5>5, <5>6, <5>7
        <5> QED BY <5>8
      <4> QED BY <4>1, <4>2, <4>3
    <3>5. CASE i > a
      <4> SUFFICES ASSUME i <= Len(B) PROVE M[i] \notin ParameterMarks  OBVIOUS
      <4>1. i \in 1..N /\ i # 1 /\ i - 1 \in 1..(q - 1) /\ i - 1 >= a /\ i <= N
        BY <1>1, <1>8, <3>1, <3>5
      <4>2. text[i - 1] = "/"  BY <1>1, <2>6, <4>1
      <4>3. e <= i - 1
        <5> SUFFICES ASSUME i - 1 < e PROVE FALSE  BY <1>8, <1>10, <4>1
        <5>1. i - 1 \in a..(e - 1)  BY <1>8, <1>10, <4>1
        <5>2. text[i - 1] \notin Separators  BY <1>9, <5>1 DEF IsUntil
        <5> QED BY <1>5, <4>2, <5>2
      <4>4. i \in (e + 1)..N  BY <1>1, <1>8, <1>10, <4>1, <4>3
      <4>5. text[i] \notin Separators => i \in H
        <5>1. a > 1  BY <1>8, <1>24 DEF a
        <5> QED BY <1>6, <1>24, <3>1, <4>4, <5>1
      <4>6. M[i] = "b" \/ M[i] \in Separators  BY <1>2, <4>1, <4>5
      <4> QED BY <4>6, NameCharacters
    <3> QED BY <1>8, <3>1, <3>2, <3>3, <3>4, <3>5
  <2> QED BY <2>3, <2>4, <2>5, <2>6 DEF KeepsSegments, M
<1>25. ASSUME n = 0 \/ ~hasHost PROVE PathOf(C) = PathOf(B)
  <2>1. KeepsBare(text, H, q)  BY <1>18, <1>25
  <2>2. IsTemplate(B) => \A j \in 1..(q - 1) : j \notin H  BY <1>1, <1>19, <1>25
  <2>3. ~IsTemplate(B) => KeepsSegments(text, H, B)
    <3>1. CASE n # 0  BY <1>24, <1>25, <3>1
    <3>2. CASE n = 0
      <4>1. \A j \in 1..q : j \notin H  BY <1>19, <3>2
      <4> DEFINE first == RunEnd(B, 1, {"/"})
      <4>2. \A i \in 1..(Len(B) + 1) : SegmentEnd(B, i) \in i..(Len(B) + 1)
        <5> TAKE i \in 1..(Len(B) + 1)
        <5>1. IsUntil(B, i, {"/"}, SegmentEnd(B, i))  BY <1>1, UntilIs DEF SegmentEnd
        <5> QED BY <5>1 DEF IsUntil
      <4>3. first \in 1..(Len(B) + 1)
        <5>1. "end" \notin {"/"} /\ 1 \in 1..(Len(B) + 1)  BY <1>1
        <5> QED BY <1>1, <5>1, RunEndIs
      <4> HIDE DEF first
      <4>4. \A i \in 1..(SegmentEnd(B, first) - 1) : i \notin H  BY <1>1, <4>1, <4>2, <4>3
      <4>5. \A i \in 1..(Len(B) + 1) : \A j \in i..(SegmentEnd(B, i) - 1) : j \notin H
        BY <1>1, <4>1, <4>2
      <4> QED BY <4>4, <4>5 DEF KeepsSegments, first
    <3> QED BY <3>1, <3>2
  <2> QED BY <1>5, <2>1, <2>2, <2>3, PathKept DEF B, C, M, q
<1>26. NamedBy(TargetOf(M)) = NamedBy(TargetOf(text))  BY <1>21, <1>22, <1>23, <1>25 DEF NamedBy
<1> QED BY <1>12, <1>26 DEF H, M

\* What follows the method of a name, and the name, in the terms above.
TextFrom(name) == SubSeq(name, RunEnd(name, 2, {Blank}), Len(name))

LEMMA SpanNameIs ==
  ASSUME NEW name
  PROVE  SpanName(name) =
           IF At(name, 1) = "/" THEN StrictPath(name)
           ELSE IF At(name, 1) # "GET" \/ At(name, 2) # Blank \/ TargetOf(TextFrom(name)) = << >> THEN name
           ELSE <<"GET", Blank>> \o NamedBy(TargetOf(TextFrom(name)))
  BY Zenon DEF SpanName, Blank, TargetOf, BareOf, TextFrom

LEMMA HidingIs ==
  ASSUME NEW name,
         At(name, 1) = "/" => SpanName(SubSeq(name, 1, 1 - 1) \o Masked(SubSeq(name, 1, Len(name)), HiddenIn(SubSeq(name, 1, Len(name)), QueryCut)))
                                = SpanName(name),
         At(name, 1) # "/" /\ At(name, 1) = "GET" /\ At(name, 2) = Blank =>
           SpanName(SubSeq(name, 1, RunEnd(name, 2, {Blank}) - 1) \o Masked(TextFrom(name), HiddenIn(TextFrom(name), TargetCut)))
             = SpanName(name)
  PROVE  NamesHideTheRest(name)
  BY Zenon DEF NamesHideTheRest, TextFrom, Blank

\* What stands from f on in a name.
LEMMA SuffixIs ==
  ASSUME NEW Char, NEW s \in Seq(Char), NEW f \in 1..(Len(s) + 1)
  PROVE  /\ SubSeq(s, f, Len(s)) \in Seq(Char) /\ Len(SubSeq(s, f, Len(s))) = Len(s) + 1 - f
         /\ \A j \in 1..(Len(s) + 1 - f) : SubSeq(s, f, Len(s))[j] = s[(f + j) - 1]
<1>1. Len(s) \in Nat /\ (Len(s) + 1) - 1 = Len(s) /\ Len(s) + 1 \in f..(Len(s) + 1)  OBVIOUS
<1>2. Holds(Char, Slice(s, f, Len(s) + 1), s, f, Len(s) + 1)  BY <1>1, SliceIs
<1> DEFINE t == SubSeq(s, f, Len(s))
<1>3. Slice(s, f, Len(s) + 1) = t  BY <1>1 DEF Slice
<1> HIDE DEF t
<1>4. Holds(Char, t, s, f, Len(s) + 1)  BY <1>2, <1>3
<1>5. t \in Seq(Char) /\ Len(t) = Len(s) + 1 - f /\ \A j \in 1..(Len(s) + 1 - f) : t[j] = s[(f + j) - 1]
  BY <1>1, <1>4 DEF Holds
<1> QED BY <1>5 DEF t

\* A name that is a path.
LEMMA PathNameHides ==
  ASSUME NEW Char, "end" \notin Char, "b" \in Char, NEW name \in Seq(Char), At(name, 1) = "/"
  PROVE  SpanName(SubSeq(name, 1, 1 - 1) \o Masked(SubSeq(name, 1, Len(name)), HiddenIn(SubSeq(name, 1, Len(name)), QueryCut))) = SpanName(name)
<1> DEFINE H == HiddenIn(name, QueryCut)
           M == Masked(name, H)
           lead == SubSeq(name, 1, 1 - 1)
<1>1. Len(name) \in Nat /\ 1 \in 1..(Len(name) + 1)  OBVIOUS
<1>2. SubSeq(name, 1, Len(name)) = name
  <2> DEFINE t == SubSeq(name, 1, Len(name))
  <2>1. t \in Seq(Char) /\ Len(t) = Len(name) + 1 - 1 /\ \A j \in 1..(Len(name) + 1 - 1) : t[j] = name[(1 + j) - 1]
    BY <1>1, SuffixIs
  <2> HIDE DEF t
  <2>2. Len(t) = Len(name) /\ \A j \in 1..Len(name) : t[j] = name[j]  BY <1>1, <2>1
  <2>3. t = name  BY <2>1, <2>2, SeqEqual
  <2> QED BY <2>3 DEF t
<1>3. M \in Seq(Char) /\ Len(M) = Len(name) /\ \A i \in 1..Len(name) : M[i] = IF i \in H THEN "b" ELSE name[i]
  BY MaskedIs
<1>4. PathOf(BareOf(M, QueryCut)) = PathOf(BareOf(name, QueryCut)) /\ 1 \notin H  BY PathHidden
<1> HIDE DEF M, H
<1>5. lead \o M = M
  <2>1. lead = << >>  BY <1>1
  <2> HIDE DEF lead
  <2> QED BY <1>3, <2>1
<1>6. Len(name) >= 1 /\ name[1] = "/"  BY <1>1 DEF At
<1>7. At(M, 1) = "/"  BY <1>1, <1>3, <1>4, <1>6 DEF At
<1>9. StrictPath(M) = StrictPath(name)  BY <1>4 DEF StrictPath
<1>10. SpanName(M) = StrictPath(M) /\ SpanName(name) = StrictPath(name)  BY <1>7, SpanNameIs
<1>11. SpanName(M) = SpanName(name)  BY <1>9, <1>10
<1> QED BY <1>2, <1>5, <1>11 DEF M, H, lead

\* What is hidden of a text leaves the name by its target.
LEMMA TextHides ==
  ASSUME NEW Char, "end" \notin Char, "b" \in Char, NEW text \in Seq(Char), Len(text) >= 1, text[1] # Blank
  PROVE  LET M == Masked(text, HiddenIn(text, TargetCut))
         IN NamedBy(TargetOf(M)) = NamedBy(TargetOf(text)) /\ M[1] # Blank /\ TargetOf(text) # << >> /\ TargetOf(M) # << >>
<1> DEFINE H == HiddenIn(text, TargetCut)
           M == Masked(text, H)
<1>1. /\ M \in Seq(Char) /\ Len(M) = Len(text) /\ Len(text) \in Nat
      /\ \A i \in 1..Len(text) : M[i] = IF i \in H THEN "b" ELSE text[i]
  BY MaskedIs
<1>2. ASSUME text[1] = "/" PROVE PathOf(BareOf(M, TargetCut)) = PathOf(BareOf(text, TargetCut)) /\ 1 \notin H
  <2>1. At(text, 1) = "/"  BY <1>1, <1>2 DEF At
  <2> QED BY <2>1, PathHidden
<1>3. ASSUME text[1] # "/" PROVE NamedBy(TargetOf(M)) = NamedBy(TargetOf(text)) /\ 1 \notin H
  BY <1>3, AddressHidden
<1> HIDE DEF M, H
<1>4. M[1] = text[1] /\ Len(M) >= 1  BY <1>1, <1>2, <1>3
<1>5. TargetOf(text) # << >> /\ TargetOf(text)[1] = text[1] /\ TargetOf(M) # << >> /\ TargetOf(M)[1] = M[1]
  BY <1>1, <1>4, TargetStarts
<1>6. ASSUME text[1] = "/" PROVE NamedBy(TargetOf(M)) = NamedBy(TargetOf(text))
  <2>1. NamedBy(TargetOf(M)) = StrictPath(TargetOf(M)) /\ NamedBy(TargetOf(text)) = StrictPath(TargetOf(text))
    BY <1>4, <1>5, <1>6 DEF NamedBy
  <2>2. StrictPath(TargetOf(M)) = PathOf(BareOf(M, TargetCut)) /\ StrictPath(TargetOf(text)) = PathOf(BareOf(text, TargetCut))
    BY <1>1, TargetIs
  <2> QED BY <1>2, <1>6, <2>1, <2>2
<1> QED BY <1>3, <1>4, <1>5, <1>6 DEF M, H

\* A name that starts with a method.
LEMMA MethodNameHides ==
  ASSUME NEW Char, "end" \notin Char, "b" \in Char, NEW name \in Seq(Char), At(name, 1) = "GET", At(name, 2) = Blank
  PROVE  SpanName(SubSeq(name, 1, RunEnd(name, 2, {Blank}) - 1) \o Masked(TextFrom(name), HiddenIn(TextFrom(name), TargetCut)))
           = SpanName(name)
<1> DEFINE N == Len(name)
           f == RunEnd(name, 2, {Blank})
           text == TextFrom(name)
           H == HiddenIn(text, TargetCut)
           M == Masked(text, H)
           lead == SubSeq(name, 1, f - 1)
           new == lead \o M
<1>1. "end" \notin {Blank} /\ "end" # Blank  BY NameCharacters
<1>2. N \in Nat /\ N >= 2 /\ name[1] = "GET" /\ name[2] = Blank  BY <1>1 DEF At
<1>3. f \in 2..(N + 1) /\ (\A j \in 2..(f - 1) : j \in 1..N /\ name[j] \in {Blank}) /\ At(name, f) \notin {Blank}
  <2>1. 2 \in 1..(Len(name) + 1)  BY <1>2
  <2> QED BY <1>1, <2>1, RunEndIs
<1>4. /\ text \in Seq(Char) /\ Len(text) = N + 1 - f
      /\ \A j \in 1..(N + 1 - f) : text[j] = name[(f + j) - 1]
  <2>1. text = SubSeq(name, f, N)  BY DEF TextFrom
  <2>2. f \in 1..(Len(name) + 1)  BY <1>2, <1>3
  <2> HIDE DEF f
  <2>3. /\ SubSeq(name, f, N) \in Seq(Char) /\ Len(SubSeq(name, f, N)) = N + 1 - f
        /\ \A j \in 1..(N + 1 - f) : SubSeq(name, f, N)[j] = name[(f + j) - 1]
    BY <2>2, SuffixIs
  <2> HIDE DEF text
  <2> QED BY <2>1, <2>3
<1>5. M \in Seq(Char) /\ Len(M) = Len(text) /\ \A i \in 1..Len(text) : M[i] = IF i \in H THEN "b" ELSE text[i]
  <2>1. text \in Seq(Char)  BY <1>4
  <2> HIDE DEF text, H
  <2> QED BY <2>1, MaskedIs
<1>6. ASSUME Len(text) >= 1, text[1] # Blank
      PROVE  NamedBy(TargetOf(M)) = NamedBy(TargetOf(text)) /\ M[1] # Blank /\ TargetOf(text) # << >> /\ TargetOf(M) # << >>
  <2> HIDE DEF text
  <2> QED BY <1>4, <1>6, TextHides
<1> HIDE DEF f, text, H, M
<1>7. lead \in Seq(Char) /\ Len(lead) = f - 1 /\ \A j \in 1..(f - 1) : lead[j] = name[j]
  <2>1. Holds(Char, Slice(name, 1, f), name, 1, f)  BY <1>2, <1>3, SliceIs
  <2>2. Slice(name, 1, f) = lead  BY DEF Slice
  <2> HIDE DEF lead
  <2> QED
    <3>1. Holds(Char, lead, name, 1, f)  BY <2>1, <2>2
    <3>2. f - 1 \in Nat /\ f \in Nat /\ \A j \in 1..(f - 1) : (1 + j) - 1 = j  BY <1>2, <1>3
    <3> QED BY <3>1, <3>2 DEF Holds
<1> HIDE DEF lead
<1>8. /\ new \in Seq(Char) /\ Len(new) = N
      /\ (\A j \in 1..(f - 1) : new[j] = name[j]) /\ \A j \in 1..Len(text) : new[(f + j) - 1] = M[j]
  <2>1. /\ new \in Seq(Char) /\ Len(new) = Len(lead) + Len(M)
        /\ (\A k \in 1..Len(lead) : new[k] = lead[k]) /\ \A k \in 1..Len(M) : new[Len(lead) + k] = M[k]
    <3>1. lead \in Seq(Char) /\ M \in Seq(Char)  BY <1>5, <1>7
    <3> QED BY <3>1, ConcatIs
  <2> HIDE DEF new
  <2>2. \A j \in 1..Len(text) : Len(lead) + j = (f + j) - 1  BY <1>2, <1>3, <1>4, <1>7
  <2>3. Len(new) = N  BY <1>2, <1>3, <1>4, <1>5, <1>7, <2>1
  <2>4. \A j \in 1..Len(text) : new[(f + j) - 1] = M[j]  BY <1>5, <2>1, <2>2
  <2>5. \A j \in 1..(f - 1) : new[j] = name[j]  BY <1>7, <2>1
  <2> QED BY <2>1, <2>3, <2>4, <2>5
<1> HIDE DEF new
<1>9. CASE f = N + 1
  <2>1. new = name  BY <1>2, <1>8, <1>9, SeqEqual
  <2> QED BY <2>1 DEF new, lead, M, H, text, f
<1>10. CASE f # N + 1
  <2>1. Len(text) >= 1 /\ f \in 3..N /\ text[1] = name[f] /\ name[f] # Blank
    <3>1. f \in 2..N  BY <1>2, <1>3, <1>10
    <3>2. At(name, f) = name[f]  BY <1>2, <3>1 DEF At
    <3>3. name[f] # Blank  BY <1>3, <3>2
    <3>4. f # 2  BY <1>2, <3>3
    <3>5. 1 \in 1..(N + 1 - f) /\ (f + 1) - 1 = f  BY <1>2, <3>1
    <3> QED BY <1>2, <1>4, <3>1, <3>3, <3>4, <3>5
  <2>2. NamedBy(TargetOf(M)) = NamedBy(TargetOf(text)) /\ M[1] # Blank /\ TargetOf(text) # << >> /\ TargetOf(M) # << >>
    BY <1>6, <2>1
  <2>3. new[f] # Blank /\ new[1] = "GET" /\ new[2] = Blank
    <3>1. 1 \in 1..Len(text) /\ (f + 1) - 1 = f /\ 1 \in 1..(f - 1) /\ 2 \in 1..(f - 1)
      BY <1>2, <1>4, <2>1
    <3>2. new[f] = M[1]  BY <1>8, <3>1
    <3> QED BY <1>2, <1>8, <2>2, <3>1, <3>2
  <2>4. At(new, 1) = "GET" /\ At(new, 2) = Blank /\ At(new, f) = new[f]
    BY <1>2, <1>8, <2>1, <2>3 DEF At
  <2>5. RunEnd(new, 2, {Blank}) = f
    <3>1. 2 \in 1..(Len(new) + 1) /\ f \in 2..(Len(new) + 1)  BY <1>2, <1>8, <2>1
    <3>2. \A j \in 2..(f - 1) : new[j] \in {Blank}  BY <1>2, <1>3, <1>8
    <3>3. At(new, f) \notin {Blank}  BY <2>3, <2>4
    <3> QED BY <1>1, <1>8, <3>1, <3>2, <3>3, RunEndOnly
  <2>6. TextFrom(new) = M
    <3> DEFINE t == TextFrom(new)
    <3>1. /\ t \in Seq(Char) /\ Len(t) = N + 1 - f /\ \A j \in 1..(N + 1 - f) : t[j] = new[(f + j) - 1]
      <4>1. f \in 1..(Len(new) + 1)  BY <1>2, <1>8, <2>1
      <4> QED
        <5>1. t = SubSeq(new, f, Len(new))  BY <2>5 DEF TextFrom
        <5>2. /\ SubSeq(new, f, Len(new)) \in Seq(Char) /\ Len(SubSeq(new, f, Len(new))) = Len(new) + 1 - f
              /\ \A j \in 1..(Len(new) + 1 - f) : SubSeq(new, f, Len(new))[j] = new[(f + j) - 1]
          BY <1>8, <4>1, SuffixIs
        <5> HIDE DEF t
        <5> QED BY <1>8, <5>1, <5>2
    <3> HIDE DEF t
    <3>2. Len(t) = Len(M) /\ \A j \in 1..Len(t) : t[j] = M[j]  BY <1>4, <1>5, <1>8, <3>1
    <3>3. t = M  BY <1>5, <3>1, <3>2, SeqEqual
    <3> QED BY <3>3 DEF t
  <2>7. "GET" # "/"  OBVIOUS
  <2>8. SpanName(new) = <<"GET", Blank>> \o NamedBy(TargetOf(M))
    BY <2>2, <2>4, <2>6, <2>7, SpanNameIs
  <2>9. SpanName(name) = <<"GET", Blank>> \o NamedBy(TargetOf(text))
    BY <2>2, <2>7, SpanNameIs DEF text
  <2>10. SpanName(new) = SpanName(name)  BY <2>2, <2>8, <2>9
  <2> QED BY <2>10 DEF new, lead, M, H, text, f
<1> QED BY <1>9, <1>10

\* A strict name is the same whatever stands in the parts it hides, for every
\* name over any characters (strict_privacy.c:344-379,393-467).
THEOREM NamesHide ==
  ASSUME NEW Char, "end" \notin Char, NEW name \in Seq(Char)
  PROVE  NamesHideTheRest(name)
<1> DEFINE Wide == Char \cup {"b"}
<1>1. "end" \notin Wide /\ "b" \in Wide  OBVIOUS
<1>2. name \in Seq(Wide)
  <2>1. Len(name) \in Nat /\ name \in [1..Len(name) -> Wide]  OBVIOUS
  <2> HIDE DEF Wide
  <2> QED BY <2>1
<1> HIDE DEF Wide
<1>3. At(name, 1) = "/" =>
        SpanName(SubSeq(name, 1, 1 - 1) \o Masked(SubSeq(name, 1, Len(name)), HiddenIn(SubSeq(name, 1, Len(name)), QueryCut)))
          = SpanName(name)
  BY <1>1, <1>2, PathNameHides
<1>4. At(name, 1) = "GET" /\ At(name, 2) = Blank =>
        SpanName(SubSeq(name, 1, RunEnd(name, 2, {Blank}) - 1) \o Masked(TextFrom(name), HiddenIn(TextFrom(name), TargetCut)))
          = SpanName(name)
  BY <1>1, <1>2, MethodNameHides
<1> QED BY <1>3, <1>4, HidingIs

\* The characters of the run's names.
NameText == NameChars \cup {"GET"}

LEMMA NameTexts ==
  "end" \notin NameText /\ Starts["names"] \subseteq Seq(NameText) /\ Pieces["names"] \subseteq Seq(NameText)
<1>1. /\ "end" \notin NameText /\ NameChars \subseteq NameText
      /\ "/" \in NameText /\ "GET" \in NameText /\ Blank \in NameText /\ "a" \in NameText /\ ":" \in NameText
      /\ "@" \in NameText
  BY Zenon DEF NameText, NameChars, Blank
<1>2. Starts["names"] = NameStarts /\ Pieces["names"] = One(NameChars)  BY DEF Starts, Pieces
<1>3. NameStarts =
        {<<"/">>, <<"GET", Blank>>, <<"GET", Blank, "a", ":", "/", "/">>, <<"GET", Blank, "a", ":", "/", "/", "a", "@">>}
  BY Zenon DEF NameStarts, Blank
<1>4. NameStarts \subseteq Seq(NameText)  BY <1>1, <1>3
<1>5. One(NameChars) \subseteq Seq(NameText)  BY <1>1 DEF One
<1> QED BY <1>1, <1>2, <1>4, <1>5

\* Names of spans and transactions keep no part of a path or an address that
\* may identify somebody: the run's invariant, for names that grow without a
\* bound (strict_privacy.c:344-379,393-467).
THEOREM ScannedNamesAreCut == ScanSpec => []NamesAreCut
<1> DEFINE Inv == Reads("names", Seq(NameText))
<1>1. \A text, piece \in Seq(NameText) : text \o piece \in Seq(NameText)  OBVIOUS
<1>2. (ScanInit => Inv) /\ (Inv /\ [ScanNext]_scanVars => Inv')  BY <1>1, NameTexts, InputsAreTexts DEF Reads
<1>3. Inv => NamesAreCut  BY NameTexts, NamesHide DEF Reads, NamesAreCut
<1> QED BY <1>2, <1>3, PTL DEF ScanSpec
=============================================================================
