------------------------- MODULE Breadcrumbs_proofs -------------------------
(***************************************************************************)
(* Proofs about Breadcrumbs, for any size of the ring, any settings and    *)
(* any number of entries.                                                  *)
(*                                                                         *)
(* The ring's promises speak of the moments between two calls; a signal    *)
(* strikes at any store.  IndInv says what every store leaves behind: how  *)
(* much of the trail the ring still holds, in which slots, and that the    *)
(* only slot being written lies past the ones that count covers.           *)
(***************************************************************************)
EXTENDS Breadcrumbs, TLAPS

\* The slot of the i-th entry, oldest first.
Place(i) == (start + i - 1) % capacity

Adding == step \in {"trim", "trimmed", "copying", "copied"}

\* How many entries from the oldest on are the trail's: between the two
\* stores of a trim, count is one ahead.
Held == IF step = "trimmed" THEN count - 1 ELSE count

\* A ring is made by the first add, and an add allows one entry at least.
Sized ==
  /\ capacity = 0 => step = "idle" /\ start = 0
  /\ capacity > 0 => start < capacity
  /\ Adding => limit >= 1 /\ adding >= 1

\* The ring holds the latest entries of the trail, as many as the add under
\* way has left.
HoldsLatest ==
  step # "clearing" =>
    /\ Held \in 0..Len(trail)
    /\ \A i \in 1..Held : slots[Place(i)] = trail[Len(trail) - Held + i]
    /\ step = "idle" => Held = Len(trail)
    /\ Adding => Held = Len(trail) \/ Held >= limit - 1
    /\ step = "trimmed" => count >= 1

\* The slot being written is the one past the newest entry.
WritesPastNewest ==
  /\ step \in {"copying", "copied"} => count < limit
  /\ step = "copied" => slots[NextSlot] = adding
  /\ \A j \in Slots : slots[j] = Torn => step = "copying" /\ j = NextSlot
  /\ Torn \notin Range(report)

IndInv ==
  /\ TypeOK
  /\ Sized
  /\ HoldsLatest
  /\ WritesPastNewest

-----------------------------------------------------------------------------
\* A remainder, when at most one wrap around the ring is to be taken off.
LEMMA ModFacts ==
  ASSUME NEW c \in Nat \ {0}, NEW x \in Nat, x < c + c
  PROVE  x % c = IF x < c THEN x ELSE x - c
  BY SMTT(30)

\* The places of a ring of c slots whose oldest entry is in slot s: each is a
\* slot, no two of them are one, and dropping the oldest moves all by one.
LEMMA PlaceFacts ==
  ASSUME NEW c \in Nat \ {0}, NEW s \in 0..(c - 1)
  PROVE  /\ \A i \in 1..c : (s + i - 1) % c \in 0..(c - 1)
         /\ \A i, j \in 1..c : i # j => (s + i - 1) % c # (s + j - 1) % c
         /\ (s + 1) % c \in 0..(c - 1)
         /\ \A i \in 1..(c - 1) : (((s + 1) % c) + i - 1) % c = (s + (i + 1) - 1) % c
  <1>1. \A i \in 1..c : (s + i - 1) % c = IF s + i - 1 < c THEN s + i - 1 ELSE s + i - 1 - c
    <2> SUFFICES ASSUME NEW i \in 1..c
                 PROVE  (s + i - 1) % c = IF s + i - 1 < c THEN s + i - 1 ELSE s + i - 1 - c
      OBVIOUS
    <2> DEFINE x == s + i - 1
    <2>1. x \in Nat /\ x < c + c
      OBVIOUS
    <2> HIDE DEF x
    <2>2. x % c = IF x < c THEN x ELSE x - c
      BY <2>1, ModFacts
    <2> QED
      BY <2>2 DEF x
  <1>2. (s + 1) % c = IF s + 1 < c THEN s + 1 ELSE s + 1 - c
    <2> DEFINE x == s + 1
    <2>1. x \in Nat /\ x < c + c
      OBVIOUS
    <2> HIDE DEF x
    <2>2. x % c = IF x < c THEN x ELSE x - c
      BY <2>1, ModFacts
    <2> QED
      BY <2>2 DEF x
  <1>3. \A i \in 1..c : (s + i - 1) % c \in 0..(c - 1)
    BY <1>1
  <1>4. \A i, j \in 1..c : i # j => (s + i - 1) % c # (s + j - 1) % c
    BY <1>1
  <1>5. (s + 1) % c \in 0..(c - 1)
    BY <1>2
  <1>6. ASSUME NEW i \in 1..(c - 1)
        PROVE  (((s + 1) % c) + i - 1) % c = (s + (i + 1) - 1) % c
    <2> DEFINE z == (s + 1) % c
    <2>1. z \in 0..(c - 1) /\ z = IF s + 1 < c THEN s + 1 ELSE s + 1 - c
      BY <1>2, <1>5
    <2> HIDE DEF z
    <2> DEFINE x == z + i - 1
    <2>2. x \in Nat /\ x < c + c
      BY <2>1
    <2> HIDE DEF x
    <2>3. x % c = IF x < c THEN x ELSE x - c
      BY <2>2, ModFacts
    <2>4. i + 1 \in 1..c
      OBVIOUS
    <2>5. (s + (i + 1) - 1) % c = IF s + (i + 1) - 1 < c THEN s + (i + 1) - 1 ELSE s + (i + 1) - 1 - c
      BY <1>1, <2>4
    <2>6. x % c = (s + (i + 1) - 1) % c
      BY <2>1, <2>3, <2>5 DEF x
    <2> QED
      BY <2>6 DEF x, z
  <1> QED
    BY <1>3, <1>4, <1>5, <1>6

\* The places of this ring.
LEMMA RingPlaces ==
  ASSUME TypeOK, Sized, capacity > 0
  PROVE  /\ capacity \in Nat \ {0} /\ start \in 0..(capacity - 1) /\ count \in 0..capacity
         /\ \A i \in 1..capacity : Place(i) \in Slots
         /\ \A i, j \in 1..capacity : i # j => Place(i) # Place(j)
         /\ NextSlot = Place(count + 1)
         /\ (start + 1) % capacity \in 0..(capacity - 1)
         /\ \A i \in 1..(capacity - 1) :
              (((start + 1) % capacity) + i - 1) % capacity = Place(i + 1)
  <1>1. capacity \in Nat \ {0} /\ start \in 0..(capacity - 1) /\ count \in 0..capacity
    BY BreadcrumbsAssumption DEF TypeOK, Sized, Slots
  <1>2. 0..(capacity - 1) \subseteq Slots
    BY BreadcrumbsAssumption DEF TypeOK, Slots
  <1>3. \A i \in 1..capacity : (start + i - 1) % capacity \in 0..(capacity - 1)
    BY <1>1, PlaceFacts
  <1>4. \A i, j \in 1..capacity : i # j => (start + i - 1) % capacity # (start + j - 1) % capacity
    BY <1>1, PlaceFacts
  <1>5. start + (count + 1) - 1 = start + count
    BY <1>1
  <1>6. /\ (start + 1) % capacity \in 0..(capacity - 1)
        /\ \A i \in 1..(capacity - 1) :
             (((start + 1) % capacity) + i - 1) % capacity = (start + (i + 1) - 1) % capacity
    BY <1>1, PlaceFacts
  <1> QED
    BY <1>1, <1>2, <1>3, <1>4, <1>5, <1>6 DEF Place, NextSlot

\* What the configuration allows is a size.
LEMMA AllowedFacts ==
  ASSUME TypeOK, Allowed > 0
  PROVE  Allowed \in 1..RingLimit
  BY BreadcrumbsAssumption DEF TypeOK, Allowed, Least

\* What Append does, entry by entry.
LEMMA AppendFacts ==
  ASSUME NEW S, NEW s \in Seq(S), NEW x \in S
  PROVE  /\ Append(s, x) \in Seq(S)
         /\ Len(Append(s, x)) = Len(s) + 1
         /\ \A i \in 1..Len(s) : Append(s, x)[i] = s[i]
         /\ Append(s, x)[Len(s) + 1] = x
  OBVIOUS

\* The last n entries of a sequence, by their positions.
LEMMA LastFacts ==
  ASSUME NEW S, NEW s \in Seq(S), NEW n \in Nat
  PROVE  /\ Last(n, s) \in Seq(S)
         /\ Len(Last(n, s)) = IF Len(s) <= n THEN Len(s) ELSE n
         /\ \A i \in 1..Len(Last(n, s)) : Last(n, s)[i] = s[Len(s) - Len(Last(n, s)) + i]
  <1>1. Len(s) \in Nat
    OBVIOUS
  <1>2. CASE Len(s) <= n
    BY <1>1, <1>2 DEF Last
  <1>3. CASE ~(Len(s) <= n)
    <2> DEFINE m == Len(s) - n + 1
    <2>1. m \in 1..(Len(s) + 1) /\ Last(n, s) = SubSeq(s, m, Len(s))
      BY <1>1, <1>3 DEF Last
    <2>2. /\ SubSeq(s, m, Len(s)) \in Seq(S)
          /\ Len(SubSeq(s, m, Len(s))) = Len(s) - m + 1
          /\ \A i \in 1..(Len(s) - m + 1) : SubSeq(s, m, Len(s))[i] = s[m + i - 1]
      BY <1>1, <2>1
    <2>3. Len(s) - m + 1 = n /\ \A i \in 1..n : m + i - 1 = Len(s) - n + i
      BY <1>1
    <2> HIDE DEF m
    <2> QED
      BY <1>1, <1>3, <2>1, <2>2, <2>3
  <1> QED
    BY <1>2, <1>3

-----------------------------------------------------------------------------
LEMMA InitInd == Init => IndInv
  BY BreadcrumbsAssumption
     DEF Init, IndInv, TypeOK, Sized, HoldsLatest, WritesPastNewest, Slots, Entries,
         Blank, Torn, Adding, Held, Range

\* A step that leaves the ring, the trail and the position in add alone.
LEMMA RingUntouched ==
  ASSUME IndInv, UNCHANGED <<ring, step, adding, limit, trail>>
  PROVE  /\ Sized' /\ HoldsLatest'
         /\ Torn \notin Range(report)' => WritesPastNewest'
         /\ Dump' = Dump
  BY DEF IndInv, Sized, HoldsLatest, WritesPastNewest, Adding, Held, Place, NextSlot,
         ring, Dump

LEMMA ConfigureInd == ASSUME IndInv, Configure PROVE IndInv'
  <1>1. TypeOK'
    BY DEF IndInv, TypeOK, Configure, ring
  <1>2. Torn \notin Range(report)'
    BY DEF IndInv, WritesPastNewest, Configure
  <1> QED
    BY <1>1, <1>2, RingUntouched DEF IndInv, Configure

LEMMA AddBeginInd == ASSUME IndInv, AddBegin PROVE IndInv'
  <1>1. Allowed \in 1..RingLimit
    BY AllowedFacts DEF IndInv, AddBegin
  <1>2. TypeOK'
    BY <1>1, BreadcrumbsAssumption DEF IndInv, TypeOK, AddBegin, Least
  <1>3. Sized'
    BY <1>1, BreadcrumbsAssumption DEF IndInv, TypeOK, Sized, AddBegin, Least, Adding, Slots
  <1>4. HoldsLatest'
    <2>1. count = Len(trail) /\ count \in Nat
      BY DEF IndInv, TypeOK, HoldsLatest, Held, AddBegin
    <2>2. ASSUME NEW i \in 1..count
          PROVE  slots[Place(i)] = trail[i] /\ Place(i)' = Place(i)
      BY <2>1, <2>2 DEF IndInv, TypeOK, HoldsLatest, Held, Place, AddBegin
    <2> QED
      BY <2>1, <2>2 DEF HoldsLatest, Held, Adding, AddBegin
  <1>5. WritesPastNewest'
    BY DEF IndInv, WritesPastNewest, AddBegin
  <1> QED
    BY <1>2, <1>3, <1>4, <1>5 DEF IndInv

LEMMA TrimStartInd == ASSUME IndInv, TrimStart PROVE IndInv'
  <1>1. /\ capacity > 0 /\ capacity' = capacity /\ count' = count /\ slots' = slots
        /\ trail' = trail /\ step = "trim" /\ step' = "trimmed" /\ limit' = limit
        /\ adding' = adding /\ start' = (start + 1) % capacity
    BY DEF IndInv, TypeOK, Sized, TrimStart
  <1>2. /\ start' \in 0..(capacity - 1)
        /\ \A i \in 1..(capacity - 1) : (start' + i - 1) % capacity = Place(i + 1)
        /\ capacity \in Nat \ {0} /\ count \in 0..capacity
    BY <1>1, RingPlaces DEF IndInv
  <1>3. limit \in Nat /\ limit >= 1 /\ count >= limit /\ Len(trail) \in Nat /\ adding >= 1
    BY DEF IndInv, TypeOK, Sized, Adding, TrimStart
  <1>4. TypeOK'
    BY <1>1, <1>2, BreadcrumbsAssumption DEF IndInv, TypeOK, TrimStart, Slots
  <1>5. Sized'
    BY <1>1, <1>2, <1>3 DEF Sized, Adding
  <1>6. HoldsLatest'
    <2>1. Held = count /\ Held' = count - 1
      BY <1>1 DEF Held
    <2>2. count \in 0..Len(trail) /\ \A i \in 1..count : slots[Place(i)] = trail[Len(trail) - count + i]
      BY <1>1, <2>1 DEF IndInv, HoldsLatest
    <2>3. ASSUME NEW i \in 1..(count - 1)
          PROVE  slots[Place(i)'] = trail[Len(trail) - (count - 1) + i]
      <3>1. i \in 1..(capacity - 1) /\ i + 1 \in 1..count
        BY <1>2
      <3>2. Place(i)' = Place(i + 1)
        BY <1>1, <1>2, <3>1 DEF Place
      <3>3. Len(trail) - count + (i + 1) = Len(trail) - (count - 1) + i
        BY <1>2, <1>3
      <3> QED
        BY <2>2, <3>1, <3>2, <3>3
    <2>4. Held' \in 0..Len(trail) /\ Held' >= limit - 1 /\ count >= 1
      BY <1>2, <1>3, <2>1, <2>2
    <2> QED
      BY <1>1, <2>1, <2>3, <2>4 DEF HoldsLatest, Adding
  <1>7. WritesPastNewest'
    BY <1>1 DEF IndInv, WritesPastNewest, TrimStart
  <1> QED
    BY <1>4, <1>5, <1>6, <1>7 DEF IndInv

LEMMA TrimCountInd == ASSUME IndInv, TrimCount PROVE IndInv'
  <1>1. /\ count >= 1 /\ count \in Nat /\ count' = count - 1 /\ step = "trimmed" /\ step' = "trim"
        /\ capacity' = capacity /\ start' = start /\ slots' = slots /\ trail' = trail
        /\ limit' = limit /\ adding' = adding
    BY DEF IndInv, TypeOK, HoldsLatest, TrimCount
  <1>2. TypeOK'
    BY <1>1 DEF IndInv, TypeOK, TrimCount
  <1>3. Sized'
    BY <1>1 DEF IndInv, Sized, Adding
  <1>4. HoldsLatest'
    BY <1>1 DEF IndInv, HoldsLatest, Held, Adding, Place
  <1>5. WritesPastNewest'
    BY <1>1 DEF IndInv, WritesPastNewest, TrimCount
  <1> QED
    BY <1>2, <1>3, <1>4, <1>5 DEF IndInv

\* Storing into the slot past the newest entry leaves every entry alone.
LEMMA StorePastNewest ==
  ASSUME IndInv, step \in {"trim", "copying"}, count < limit, NEW v,
         slots' = [slots EXCEPT ![NextSlot] = v],
         UNCHANGED <<start, count, capacity, limit, adding, trail>>
  PROVE  /\ NextSlot' = NextSlot /\ NextSlot \in Slots /\ slots'[NextSlot] = v
         /\ \A j \in Slots : j # NextSlot => slots'[j] = slots[j]
         /\ \A i \in 1..count : slots'[Place(i)'] = slots[Place(i)]
  <1>1. capacity > 0 /\ count \in Nat /\ capacity \in Nat /\ count + 1 \in 1..capacity
    BY DEF IndInv, TypeOK, Sized
  <1>2. slots \in [Slots -> Entries \cup {Blank, Torn}]
    BY DEF IndInv, TypeOK
  <1>3. /\ NextSlot = Place(count + 1)
        /\ \A i \in 1..capacity : Place(i) \in Slots
        /\ \A i, j \in 1..capacity : i # j => Place(i) # Place(j)
    BY <1>1, RingPlaces DEF IndInv
  <1>4. NextSlot' = NextSlot /\ \A i \in 1..count : Place(i)' = Place(i)
    BY DEF NextSlot, Place
  <1>5. NextSlot \in Slots
    BY <1>1, <1>3
  <1>6. slots'[NextSlot] = v /\ \A j \in Slots : j # NextSlot => slots'[j] = slots[j]
    BY <1>2, <1>5
  <1>7. ASSUME NEW i \in 1..count PROVE Place(i) \in Slots /\ Place(i) # NextSlot
    <2>1. i \in 1..capacity /\ i # count + 1
      BY <1>1
    <2> QED
      BY <1>1, <1>3, <2>1
  <1> QED
    BY <1>4, <1>5, <1>6, <1>7

LEMMA CopyBeginInd == ASSUME IndInv, CopyBegin PROVE IndInv'
  <1>1. /\ step = "trim" /\ step' = "copying" /\ count < limit
        /\ slots' = [slots EXCEPT ![NextSlot] = Torn]
        /\ UNCHANGED <<start, count, capacity, limit, adding, trail, report>>
    BY DEF CopyBegin
  <1>2. /\ NextSlot' = NextSlot /\ NextSlot \in Slots
        /\ \A j \in Slots : j # NextSlot => slots'[j] = slots[j]
        /\ \A i \in 1..count : slots'[Place(i)'] = slots[Place(i)]
    BY <1>1, StorePastNewest
  <1>3. TypeOK'
    BY <1>1, <1>2 DEF IndInv, TypeOK, CopyBegin
  <1>4. Sized'
    BY <1>1 DEF IndInv, Sized, Adding
  <1>5. HoldsLatest'
    BY <1>1, <1>2 DEF IndInv, HoldsLatest, Held, Adding
  <1>6. WritesPastNewest'
    BY <1>1, <1>2 DEF IndInv, WritesPastNewest
  <1> QED
    BY <1>3, <1>4, <1>5, <1>6 DEF IndInv

LEMMA CopyEndInd == ASSUME IndInv, CopyEnd PROVE IndInv'
  <1>1. /\ step = "copying" /\ step' = "copied" /\ count < limit
        /\ slots' = [slots EXCEPT ![NextSlot] = adding]
        /\ UNCHANGED <<start, count, capacity, limit, adding, trail, report>>
    BY DEF IndInv, WritesPastNewest, CopyEnd
  <1>2. /\ NextSlot' = NextSlot /\ NextSlot \in Slots /\ slots'[NextSlot] = adding
        /\ \A j \in Slots : j # NextSlot => slots'[j] = slots[j]
        /\ \A i \in 1..count : slots'[Place(i)'] = slots[Place(i)]
    BY <1>1, StorePastNewest
  <1>3. adding \in Entries /\ adding # Torn
    BY <1>1, BreadcrumbsAssumption DEF IndInv, TypeOK, Sized, Adding, Entries, Torn
  <1>4. TypeOK'
    BY <1>1, <1>2, <1>3 DEF IndInv, TypeOK, CopyEnd
  <1>5. Sized'
    BY <1>1 DEF IndInv, Sized, Adding
  <1>6. HoldsLatest'
    BY <1>1, <1>2 DEF IndInv, HoldsLatest, Held, Adding
  <1>7. WritesPastNewest'
    BY <1>1, <1>2, <1>3 DEF IndInv, WritesPastNewest
  <1> QED
    BY <1>4, <1>5, <1>6, <1>7 DEF IndInv

\* The entry just published is the trail's newest, and what the limit cuts
\* off the trail is what the trims took out of the ring.
LEMMA PublishInd == ASSUME IndInv, Publish PROVE IndInv'
  <1> DEFINE A == Append(trail, adding)
             L == Len(trail)
  <1>1. /\ step = "copied" /\ step' = "idle" /\ count' = count + 1
        /\ trail' = Last(limit, A)
        /\ UNCHANGED <<start, capacity, slots, limit, adding, report>>
    BY DEF Publish
  <1>2. /\ L \in Nat /\ limit \in Nat /\ count \in Nat /\ capacity \in Nat /\ limit <= capacity
        /\ count < limit /\ capacity > 0
    BY <1>1 DEF IndInv, TypeOK, Sized, WritesPastNewest
  <1>3. adding \in Entries /\ trail \in Seq(Entries)
    BY <1>1, BreadcrumbsAssumption DEF IndInv, TypeOK, Sized, Adding, Entries
  <1>4. /\ count \in 0..L /\ (count = L \/ count >= limit - 1)
        /\ \A i \in 1..count : slots[Place(i)] = trail[L - count + i]
    BY <1>1 DEF IndInv, HoldsLatest, Held, Adding
  <1>5. /\ A \in Seq(Entries) /\ Len(A) = L + 1
        /\ \A i \in 1..L : A[i] = trail[i]
        /\ A[L + 1] = adding
    BY <1>3, AppendFacts
  <1> HIDE DEF A
  <1>6. /\ trail' \in Seq(Entries)
        /\ Len(trail') = IF Len(A) <= limit THEN Len(A) ELSE limit
        /\ \A i \in 1..Len(trail') : trail'[i] = A[Len(A) - Len(trail') + i]
    BY <1>1, <1>2, <1>5, LastFacts
  <1>7. Len(trail') = count + 1
    BY <1>2, <1>4, <1>5, <1>6
  <1>8. NextSlot = Place(count + 1) /\ \A i \in 1..(count + 1) : Place(i)' = Place(i)
    BY <1>1, <1>2, RingPlaces DEF IndInv, Place
  <1>9. ASSUME NEW i \in 1..(count + 1)
        PROVE  slots'[Place(i)'] = trail'[i]
    <2>1. Len(A) - Len(trail') + i = L - count + i /\ L - count + i \in 1..(L + 1)
      BY <1>2, <1>4, <1>5, <1>7
    <2>2. trail'[i] = A[L - count + i]
      BY <1>6, <1>7, <2>1
    <2>3. CASE i = count + 1
      <3>1. L - count + i = L + 1
        BY <1>2, <2>3
      <3>2. slots[NextSlot] = adding
        BY <1>1 DEF IndInv, WritesPastNewest
      <3> QED
        BY <1>1, <1>5, <1>8, <2>2, <2>3, <3>1, <3>2
    <2>4. CASE i # count + 1
      <3>1. i \in 1..count /\ L - count + i \in 1..L
        BY <1>2, <1>4, <2>4
      <3> QED
        BY <1>1, <1>4, <1>5, <1>8, <2>2, <3>1
    <2> QED
      BY <2>3, <2>4
  <1>10. TypeOK'
    BY <1>1, <1>2, <1>6 DEF IndInv, TypeOK, Publish
  <1>11. Sized'
    BY <1>1 DEF IndInv, Sized, Adding
  <1>12. HoldsLatest'
    <2>1. Held' = count + 1 /\ Len(trail)' = count + 1
      BY <1>1, <1>7 DEF Held
    <2>2. \A i \in 1..(count + 1) : Len(trail)' - Held' + i = i
      BY <1>2, <2>1
    <2> QED
      BY <1>1, <1>2, <1>9, <2>1, <2>2 DEF HoldsLatest, Adding
  <1>13. WritesPastNewest'
    BY <1>1 DEF IndInv, WritesPastNewest
  <1> QED
    BY <1>10, <1>11, <1>12, <1>13 DEF IndInv

LEMMA ClearStartInd == ASSUME IndInv, ClearStart PROVE IndInv'
  <1>1. TypeOK'
    BY BreadcrumbsAssumption DEF IndInv, TypeOK, ClearStart, Slots
  <1> QED
    BY <1>1 DEF IndInv, TypeOK, Sized, HoldsLatest, WritesPastNewest, ClearStart, Adding

LEMMA ClearCountInd == ASSUME IndInv, ClearCount PROVE IndInv'
  <1>1. TypeOK'
    BY DEF IndInv, TypeOK, ClearCount
  <1>2. Sized'
    BY DEF IndInv, Sized, ClearCount, Adding
  <1>3. HoldsLatest'
    BY DEF HoldsLatest, Held, ClearCount, Adding
  <1>4. WritesPastNewest'
    BY DEF IndInv, WritesPastNewest, ClearCount
  <1> QED
    BY <1>1, <1>2, <1>3, <1>4 DEF IndInv

\* What count covers is never half written.
LEMMA DumpIsWhole ==
  ASSUME IndInv
  PROVE  /\ Dump \in Seq(Entries \cup {Blank, Torn})
         /\ DOMAIN Dump = 1..count
         /\ Torn \notin Range(Dump)
  <1>1. count \in Nat /\ capacity \in Nat /\ count <= capacity
        /\ slots \in [Slots -> Entries \cup {Blank, Torn}]
    BY DEF IndInv, TypeOK
  <1>2. DOMAIN Dump = 1..count /\ \A i \in 1..count : Dump[i] = slots[Place(i)]
    BY DEF Dump, Place
  <1>3. ASSUME NEW i \in 1..count PROVE Place(i) \in Slots /\ slots[Place(i)] # Torn
    <2>1. capacity > 0 /\ i \in 1..capacity
      BY <1>1
    <2>2. /\ NextSlot = Place(count + 1)
          /\ \A k \in 1..capacity : Place(k) \in Slots
          /\ \A k, j \in 1..capacity : k # j => Place(k) # Place(j)
      BY <2>1, RingPlaces DEF IndInv
    <2>3. step = "copying" => count + 1 \in 1..capacity /\ i # count + 1
      BY <1>1 DEF IndInv, TypeOK, WritesPastNewest
    <2>4. step = "copying" => Place(i) # NextSlot
      BY <2>1, <2>2, <2>3
    <2>5. slots[Place(i)] = Torn => step = "copying" /\ Place(i) = NextSlot
      BY <2>1, <2>2 DEF IndInv, WritesPastNewest
    <2> QED
      BY <2>1, <2>2, <2>4, <2>5
  <1>4. Dump \in [1..count -> Entries \cup {Blank, Torn}]
    BY <1>1, <1>3 DEF Dump, Place
  <1>5. Dump \in Seq(Entries \cup {Blank, Torn})
    BY <1>1, <1>4
  <1> QED
    BY <1>2, <1>3, <1>5 DEF Range

LEMMA FatalSignalInd == ASSUME IndInv, FatalSignal PROVE IndInv'
  <1>1. report' = Dump /\ UNCHANGED <<ring, step, adding, limit, trail>>
    BY DEF FatalSignal
  <1>2. TypeOK'
    BY <1>1, DumpIsWhole DEF IndInv, TypeOK, FatalSignal, ring
  <1>3. Torn \notin Range(report)'
    BY <1>1, DumpIsWhole
  <1> QED
    BY <1>1, <1>2, <1>3, RingUntouched DEF IndInv

LEMMA ThreadExitInd == ASSUME IndInv, ThreadExit PROVE IndInv'
  <1>1. TypeOK'
    BY BreadcrumbsAssumption DEF IndInv, TypeOK, ThreadExit, Slots, Entries
  <1>2. Sized'
    BY DEF Sized, ThreadExit, Adding
  <1>3. HoldsLatest'
    BY DEF HoldsLatest, Held, ThreadExit, Adding
  <1>4. WritesPastNewest'
    BY DEF IndInv, WritesPastNewest, ThreadExit, Blank, Torn
  <1> QED
    BY <1>1, <1>2, <1>3, <1>4 DEF IndInv

LEMMA StutterInd == ASSUME IndInv, UNCHANGED vars PROVE IndInv'
  <1>1. TypeOK'
    BY DEF IndInv, TypeOK, vars, ring
  <1>2. Torn \notin Range(report)'
    BY DEF IndInv, WritesPastNewest, vars
  <1> QED
    BY <1>1, <1>2, RingUntouched DEF IndInv, vars

\* IndInv holds initially and every store of the code keeps it.
THEOREM Inductive == Spec => []IndInv
  <1>1. IndInv /\ [Next]_vars => IndInv'
    <2> SUFFICES ASSUME IndInv, [Next]_vars PROVE IndInv'
      OBVIOUS
    <2> QED
      BY ConfigureInd, AddBeginInd, TrimStartInd, TrimCountInd, CopyBeginInd, CopyEndInd,
         PublishInd, ClearStartInd, ClearCountInd, FatalSignalInd, ThreadExitInd, StutterInd
         DEF Next, Terminated
  <1> QED
    BY InitInd, <1>1, PTL DEF Spec

\* The ring's variables keep their types, and start, count and the limit stay
\* within the capacity (breadcrumbs.c:25-47).
THEOREM TypeCorrect == Spec => []TypeOK
  <1>1. IndInv => TypeOK
    BY DEF IndInv
  <1> QED
    BY Inductive, <1>1, PTL

\* Wherever the signal strikes, the handler's report and what a reader of the
\* ring sees hold no half-written entry (breadcrumbs.c:183-194).
THEOREM ReportsAreWhole == Spec => []NoTornEntry
  <1>1. IndInv => NoTornEntry
    BY DumpIsWhole DEF IndInv, WritesPastNewest, NoTornEntry
  <1> QED
    BY Inductive, <1>1, PTL

\* Between two calls the ring holds exactly the latest entries, whatever was
\* done to max_breadcrumbs on the way.
THEOREM RingHoldsTheLatest == Spec => []RingIsTrail
  <1>1. ASSUME IndInv, step = "idle" PROVE Dump = trail
    <2>1. count = Len(trail) /\ count \in Nat /\ trail \in Seq(Entries)
      BY <1>1 DEF IndInv, TypeOK, HoldsLatest, Held
    <2>2. \A i \in 1..count : slots[Place(i)] = trail[i]
      BY <1>1, <2>1 DEF IndInv, HoldsLatest, Held
    <2>3. trail = [i \in 1..count |-> trail[i]]
      BY <2>1
    <2>4. Dump = [i \in 1..count |-> slots[Place(i)]]
      BY DEF Dump, Place
    <2> QED
      BY <2>2, <2>3, <2>4
  <1>2. IndInv => RingIsTrail
    BY <1>1 DEF RingIsTrail
  <1> QED
    BY Inductive, <1>2, PTL

\* Wherever the signal strikes during an add, the report has every entry that
\* the add would have kept.
THEOREM SurvivorsReachTheReport == Spec => []SurvivorsAreReported
  <1>1. ASSUME IndInv, Adding PROVE Range(Last(limit - 1, trail)) \subseteq Range(Dump)
    <2> DEFINE T == Last(limit - 1, trail)
               L == Len(trail)
    <2>1. /\ trail \in Seq(Entries) /\ L \in Nat /\ limit - 1 \in Nat /\ count \in Nat
          /\ step # "clearing" /\ Held \in Int
      BY <1>1 DEF IndInv, TypeOK, Sized, Adding, Held
    <2>2. /\ Held \in 0..L /\ (Held = L \/ Held >= limit - 1) /\ Held <= count
          /\ \A i \in 1..Held : slots[Place(i)] = trail[L - Held + i]
      BY <1>1, <2>1 DEF IndInv, HoldsLatest, Held
    <2>3. /\ T \in Seq(Entries) /\ Len(T) = IF L <= limit - 1 THEN L ELSE limit - 1
          /\ \A i \in 1..Len(T) : T[i] = trail[L - Len(T) + i]
      BY <2>1, LastFacts
    <2> HIDE DEF T
    <2>4. Len(T) \in Nat /\ Len(T) <= Held
      BY <2>1, <2>2, <2>3
    <2>5. ASSUME NEW i \in 1..Len(T) PROVE T[i] \in Range(Dump)
      <3> DEFINE k == Held - Len(T) + i
      <3>1. k \in 1..Held /\ k \in 1..count /\ L - Held + k = L - Len(T) + i
        BY <2>1, <2>2, <2>4
      <3>2. slots[Place(k)] = T[i]
        BY <2>2, <2>3, <3>1
      <3>3. k \in DOMAIN Dump /\ Dump[k] = slots[Place(k)]
        BY <3>1 DEF Dump, Place
      <3> QED
        BY <3>2, <3>3 DEF Range
    <2>6. DOMAIN T = 1..Len(T)
      BY <2>3
    <2> QED
      BY <2>5, <2>6 DEF Range, T
  <1>2. IndInv => SurvivorsAreReported
    BY <1>1 DEF SurvivorsAreReported, Adding
  <1> QED
    BY Inductive, <1>2, PTL
=============================================================================
