-------------------------- MODULE SpanTree_proofs --------------------------
(***************************************************************************)
(* Proofs about SpanTree, for any number of handles, any depth and size of *)
(* a trace and any number of ids.                                          *)
(*                                                                         *)
(* What a queued trace promises is earned while it is open: IndInv says    *)
(* what holds of the open trace after every call (each id it drew is its   *)
(* root, recorded, or still held by the application, unless it is full)    *)
(* and that a queued body keeps it, for no later id belongs to its trace.  *)
(***************************************************************************)
EXTENDS SpanTree, FiniteSetTheorems, TLAPS

\* id was drawn for a span, in the trace that drew parent before it.
Child(hm, id, parent) ==
  /\ id \in DOMAIN hm /\ parent \in DOMAIN hm
  /\ parent < id
  /\ hm[parent] = hm[id]
  /\ hm[id] < id

\* A trace is no younger than what it draws.
HomesAreOlder == \A id \in DOMAIN home : home[id] <= id

\* Only an open trace is owned, by one handle.
Owned ==
  /\ current_trace = NoTrace => \A h \in TraceHandles : ~owns[h]
  /\ current_trace # NoTrace =>
       \E h \in TraceHandles : owns[h] /\ \A g \in TraceHandles : owns[g] => g = h

\* The application holds id open, a span of the trace root.
Holds(sp, hm, root, id) ==
  \E s \in SpanHandles : sp[s].active /\ sp[s].id = id /\ hm[id] = root

\* No two handles hold one span.
HandlesDiffer(sp, hm) ==
  /\ \A s \in SpanHandles : sp[s].active => Child(hm, sp[s].id, sp[s].parent)
  /\ \A s, t \in SpanHandles :
       sp[s].active /\ sp[t].active /\ sp[s].id = sp[t].id => s = t

\* The finished spans of a trace: each was drawn, is there once and is held no
\* more.
Recorded(spans, sp, hm) ==
  /\ \A i \in DOMAIN spans : Child(hm, spans[i].id, spans[i].parent)
  /\ \A i, j \in DOMAIN spans : spans[i].id = spans[j].id => i = j
  /\ \A i \in DOMAIN spans : \A s \in SpanHandles :
       sp[s].active => sp[s].id # spans[i].id

\* Every span the trace drew is recorded or still held, unless it is full.
Complete(T, sp, hm) ==
  \/ Len(T.spans) = MaxSpans - 1
  \/ \A id \in DOMAIN hm :
       hm[id] = T.root => id = T.root \/ id \in IdsOf(T.spans) \/ Holds(sp, hm, T.root, id)

\* The stack is spans that are held open, oldest first.
Stacked(T, sp, hm) ==
  /\ \A i \in DOMAIN T.open : Holds(sp, hm, T.root, T.open[i])
  /\ \A i, j \in DOMAIN T.open : i < j => T.open[i] < T.open[j]

TraceWell(T, sp, hm) ==
  /\ T.root \in DOMAIN hm /\ hm[T.root] = T.root
  /\ Recorded(T.spans, sp, hm)
  /\ Complete(T, sp, hm)
  /\ Stacked(T, sp, hm)

\* A body: its root, then what was recorded.
BodyWell(body, hm) ==
  /\ body.root \in DOMAIN hm /\ hm[body.root] = body.root
  /\ Len(body.spans) \in 1..MaxSpans
  /\ body.spans[1].id = body.root
  /\ \A i \in 2..Len(body.spans) : Child(hm, body.spans[i].id, body.spans[i].parent)
  /\ \A i, j \in 1..Len(body.spans) : body.spans[i].id = body.spans[j].id => i = j
  /\ \/ Len(body.spans) = MaxSpans
     \/ \A id \in DOMAIN hm :
          hm[id] = body.root => id \in IdsOf(body.spans) \cup body.held

\* A queued trace is over: it draws no more ids.
Over == \A b \in DOMAIN queued :
          current_trace # NoTrace => current_trace.root # queued[b].root

IndInv ==
  /\ TypeOK
  /\ HomesAreOlder
  /\ Owned
  /\ HandlesDiffer(span, home)
  /\ current_trace # NoTrace => TraceWell(current_trace, span, home)
  /\ \A b \in DOMAIN queued : BodyWell(queued[b], home)
  /\ Over

-----------------------------------------------------------------------------
\* One more id drawn: what was said of the others stays.
LEMMA HomeGrows ==
  ASSUME NEW hm \in Seq(Ids), NEW r \in Ids
  PROVE  /\ Append(hm, r) \in Seq(Ids)
         /\ Len(hm) \in Nat /\ Len(Append(hm, r)) = Len(hm) + 1
         /\ DOMAIN hm = 1..Len(hm) /\ DOMAIN Append(hm, r) = 1..(Len(hm) + 1)
         /\ \A i \in DOMAIN hm : i \in DOMAIN Append(hm, r) /\ Append(hm, r)[i] = hm[i]
         /\ Append(hm, r)[Len(hm) + 1] = r
         /\ \A i \in DOMAIN hm : i < Len(hm) + 1
         /\ \A id, parent : Child(hm, id, parent) => Child(Append(hm, r), id, parent)
  <1>1. /\ Append(hm, r) \in Seq(Ids)
        /\ Len(hm) \in Nat /\ Len(Append(hm, r)) = Len(hm) + 1
        /\ DOMAIN hm = 1..Len(hm) /\ DOMAIN Append(hm, r) = 1..(Len(hm) + 1)
        /\ \A i \in DOMAIN hm : i \in DOMAIN Append(hm, r) /\ Append(hm, r)[i] = hm[i]
        /\ Append(hm, r)[Len(hm) + 1] = r
        /\ \A i \in DOMAIN hm : i < Len(hm) + 1
    OBVIOUS
  <1>2. \A id, parent : Child(hm, id, parent) => Child(Append(hm, r), id, parent)
    BY <1>1 DEF Child
  <1> QED
    BY <1>1, <1>2

\* A finished trace keeps what its body promises when another trace draws.
LEMMA BodyStays ==
  ASSUME NEW hm \in Seq(Ids), NEW r \in Ids, NEW body, BodyWell(body, hm), r # body.root
  PROVE  BodyWell(body, Append(hm, r))
  <1> DEFINE h2 == Append(hm, r)
  <1>1. /\ DOMAIN hm = 1..Len(hm) /\ DOMAIN h2 = 1..(Len(hm) + 1) /\ Len(hm) \in Nat
        /\ \A i \in DOMAIN hm : i \in DOMAIN h2 /\ h2[i] = hm[i]
        /\ h2[Len(hm) + 1] = r
        /\ \A id, parent : Child(hm, id, parent) => Child(h2, id, parent)
    BY HomeGrows
  <1> HIDE DEF h2
  <1>2. ASSUME NEW id \in DOMAIN h2, h2[id] = body.root
        PROVE  id \in DOMAIN hm /\ hm[id] = body.root
    BY <1>1, <1>2
  <1>3. BodyWell(body, h2)
    BY <1>1, <1>2 DEF BodyWell
  <1> QED
    BY <1>3 DEF h2

\* What RemoveAt leaves, entry by entry.
LEMMA RemoveAtFacts ==
  ASSUME NEW q \in Seq(Ids), NEW k \in 1..Len(q)
  PROVE  /\ RemoveAt(q, k) \in Seq(Ids)
         /\ Len(RemoveAt(q, k)) = Len(q) - 1
         /\ \A i \in 1..(Len(q) - 1) : RemoveAt(q, k)[i] = IF i < k THEN q[i] ELSE q[i + 1]
  <1> DEFINE a == SubSeq(q, 1, k - 1)
             b == SubSeq(q, k + 1, Len(q))
  <1>1. a \in Seq(Ids) /\ Len(a) = k - 1 /\ \A i \in 1..(k - 1) : a[i] = q[i]
    OBVIOUS
  <1>2. b \in Seq(Ids) /\ Len(b) = Len(q) - k /\ \A i \in 1..(Len(q) - k) : b[i] = q[k + i]
    OBVIOUS
  <1>3. RemoveAt(q, k) = a \o b
    BY DEF RemoveAt
  <1> HIDE DEF a, b
  <1>4. a \o b \in Seq(Ids) /\ Len(a \o b) = Len(q) - 1
    <2>1. a \in Seq(Ids) /\ b \in Seq(Ids)
      BY <1>1, <1>2
    <2>2. a \o b \in Seq(Ids) /\ Len(a \o b) = Len(a) + Len(b)
      BY <2>1
    <2> QED
      BY <1>1, <1>2, <2>2
  <1>5. ASSUME NEW i \in 1..(Len(q) - 1)
        PROVE  (a \o b)[i] = IF i < k THEN q[i] ELSE q[i + 1]
    <2>1. CASE i < k
      BY <1>1, <1>2, <2>1
    <2>2. CASE ~(i < k)
      <3>1. i - (k - 1) \in 1..(Len(q) - k) /\ k + (i - (k - 1)) = i + 1
        BY <2>2
      <3>2. (a \o b)[i] = b[i - (k - 1)]
        BY <1>1, <1>2, <2>2
      <3> QED
        BY <1>2, <2>2, <3>1, <3>2
    <2> QED
      BY <2>1, <2>2
  <1> QED
    BY <1>3, <1>4, <1>5

\* Closing an id takes it off a sorted stack and leaves the rest in order.
LEMMA ClosesFacts ==
  ASSUME NEW open \in Seq(Ids), NEW id,
         \A i, j \in DOMAIN open : i < j => open[i] < open[j]
  PROVE  /\ Closes(open, id) \in Seq(Ids)
         /\ Len(Closes(open, id)) <= Len(open)
         /\ \A i \in DOMAIN Closes(open, id) :
              Closes(open, id)[i] # id /\ \E k \in DOMAIN open : Closes(open, id)[i] = open[k]
         /\ \A i, j \in DOMAIN Closes(open, id) :
              i < j => Closes(open, id)[i] < Closes(open, id)[j]
  <1> DEFINE holds == {i \in DOMAIN open : open[i] = id}
             top == CHOOSE i \in holds : \A j \in holds : j <= i
  <1>1. DOMAIN open = 1..Len(open) /\ Len(open) \in Nat /\ \A i \in DOMAIN open : open[i] \in Int
    BY SpanTreeAssumption DEF Ids
  <1>2. CASE holds = {}
    <2>1. Closes(open, id) = open
      BY <1>2 DEF Closes
    <2> QED
      BY <1>1, <1>2, <2>1
  <1>3. CASE holds # {}
    <2>1. PICK k \in DOMAIN open : open[k] = id
      BY <1>3
    <2>2. \A j \in holds : j = k
      BY <1>1, <2>1
    <2>3. top \in holds
      BY <1>1, <2>1, <2>2
    <2>4. Closes(open, id) = RemoveAt(open, k)
      BY <1>3, <2>2, <2>3 DEF Closes
    <2> DEFINE c == RemoveAt(open, k)
    <2>5. /\ c \in Seq(Ids) /\ Len(c) = Len(open) - 1
          /\ \A i \in 1..(Len(open) - 1) : c[i] = IF i < k THEN open[i] ELSE open[i + 1]
      <3>1. k \in 1..Len(open)
        BY <1>1, <2>1
      <3> QED
        BY <3>1, RemoveAtFacts
    <2> HIDE DEF c
    <2>6. DOMAIN c = 1..(Len(open) - 1)
      BY <2>5
    <2>7. ASSUME NEW i \in DOMAIN c
          PROVE  c[i] # id /\ \E m \in DOMAIN open : c[i] = open[m]
      <3> DEFINE m == IF i < k THEN i ELSE i + 1
      <3>1. m \in DOMAIN open /\ m # k
        BY <1>1, <2>1, <2>6
      <3>2. c[i] = open[m]
        BY <2>5, <2>6
      <3>3. open[m] # id
        BY <2>2, <3>1
      <3> QED
        BY <3>1, <3>2, <3>3
    <2>8. ASSUME NEW i \in DOMAIN c, NEW j \in DOMAIN c, i < j PROVE c[i] < c[j]
      <3> DEFINE m == IF i < k THEN i ELSE i + 1
                 n == IF j < k THEN j ELSE j + 1
      <3>1. m \in DOMAIN open /\ n \in DOMAIN open /\ m < n
        BY <1>1, <2>1, <2>6, <2>8
      <3>2. c[i] = open[m] /\ c[j] = open[n]
        BY <2>5, <2>6
      <3> HIDE DEF m, n
      <3> QED
        BY <3>1, <3>2
    <2> QED
      BY <1>1, <2>4, <2>5, <2>7, <2>8 DEF c
  <1> QED
    BY <1>2, <1>3

-----------------------------------------------------------------------------
\* A span is appended to a trace that has room, and nothing else of it changes.
LEMMA RecordFacts ==
  ASSUME NEW T \in Traces, NEW id \in Ids, NEW parent \in Ids, Len(T.spans) <= MaxSpans - 1
  PROVE  /\ Record(T, id, parent) \in Traces
         /\ Record(T, id, parent).root = T.root
         /\ Record(T, id, parent).open = T.open
         /\ Len(Record(T, id, parent).spans) <= MaxSpans - 1
         /\ HasRoom(T) => Record(T, id, parent).spans = Append(T.spans, [id |-> id, parent |-> parent])
         /\ ~HasRoom(T) => Record(T, id, parent).spans = T.spans /\ Len(T.spans) = MaxSpans - 1
  <1> DEFINE e == [id |-> id, parent |-> parent]
             spans == IF HasRoom(T) THEN Append(T.spans, e) ELSE T.spans
  <1>1. e \in Span /\ T.spans \in Seq(Span) /\ Len(T.spans) \in Nat
    BY DEF Span, Traces
  <1> HIDE DEF e
  <1>2. Append(T.spans, e) \in Seq(Span) /\ Len(Append(T.spans, e)) = Len(T.spans) + 1
    BY <1>1
  <1>3. spans \in Seq(Span) /\ Len(spans) <= MaxSpans - 1
    BY <1>1, <1>2, SpanTreeAssumption DEF HasRoom
  <1>4. Record(T, id, parent) = [T EXCEPT !.spans = spans]
    BY DEF Record, e
  <1>5. ~HasRoom(T) => Len(T.spans) = MaxSpans - 1
    BY <1>1, SpanTreeAssumption DEF HasRoom
  <1>6. T \in [root : Ids, remote : TraceParents, send : BOOLEAN, spans : Seq(Span), open : Seq(Ids)]
    BY DEF Traces
  <1> HIDE DEF spans
  <1>7. /\ Record(T, id, parent) \in Traces
        /\ Record(T, id, parent).root = T.root
        /\ Record(T, id, parent).open = T.open
        /\ Record(T, id, parent).spans = spans
    BY <1>3, <1>4, <1>6 DEF Traces
  <1> QED
    BY <1>3, <1>5, <1>7 DEF spans, e

\* Recording a drawn span that is neither recorded nor held keeps the trace
\* complete and its spans distinct.
LEMMA RecordWell ==
  ASSUME NEW T \in Traces, NEW id \in Ids, NEW parent \in Ids, Len(T.spans) <= MaxSpans - 1,
         NEW sp, NEW hm,
         Recorded(T.spans, sp, hm),
         Child(hm, id, parent),
         \A i \in DOMAIN T.spans : T.spans[i].id # id,
         \A s \in SpanHandles : sp[s].active => sp[s].id # id,
         \/ Len(T.spans) = MaxSpans - 1
         \/ \A x \in DOMAIN hm \ {id} :
              hm[x] = T.root => x = T.root \/ x \in IdsOf(T.spans) \/ Holds(sp, hm, T.root, x)
  PROVE  /\ Recorded(Record(T, id, parent).spans, sp, hm)
         /\ Complete(Record(T, id, parent), sp, hm)
  <1> DEFINE R == Record(T, id, parent)
             e == [id |-> id, parent |-> parent]
             L == Len(T.spans)
  <1>1. /\ R.root = T.root
        /\ HasRoom(T) => R.spans = Append(T.spans, e)
        /\ ~HasRoom(T) => R.spans = T.spans /\ Len(T.spans) = MaxSpans - 1
    BY RecordFacts
  <1>2. T.spans \in Seq(Span) /\ L \in Nat /\ DOMAIN T.spans = 1..L /\ e \in Span
    BY DEF Traces, Span
  <1>3. e.id = id /\ e.parent = parent
    OBVIOUS
  <1> HIDE DEF R, e
  <1>4. CASE ~HasRoom(T)
    BY <1>1, <1>4 DEF Complete, R
  <1>5. CASE HasRoom(T)
    <2> DEFINE q == Append(T.spans, e)
    <2>1. /\ DOMAIN q = 1..(L + 1) /\ q[L + 1] = e
          /\ \A i \in 1..L : q[i] = T.spans[i]
      BY <1>2
    <2> HIDE DEF q
    <2>2. \A i \in 1..(L + 1) : i = L + 1 \/ i \in 1..L
      BY <1>2
    <2>3. Recorded(q, sp, hm)
      BY <1>2, <1>3, <2>1, <2>2 DEF Recorded
    <2>4. IdsOf(T.spans) \subseteq IdsOf(q) /\ id \in IdsOf(q)
      BY <1>2, <1>3, <2>1, <2>2 DEF IdsOf
    <2>5. L # MaxSpans - 1
      BY <1>2, <1>5, SpanTreeAssumption DEF HasRoom
    <2>6. ASSUME NEW x \in DOMAIN hm, hm[x] = T.root
          PROVE  x = T.root \/ x \in IdsOf(q) \/ Holds(sp, hm, T.root, x)
      BY <2>4, <2>5, <2>6
    <2>7. R.spans = q
      BY <1>1, <1>5 DEF q
    <2> QED
      BY <1>1, <2>3, <2>6, <2>7 DEF Complete, R
  <1> QED
    BY <1>4, <1>5 DEF R

\* The current parent was drawn in this trace.
LEMMA ParentIsDrawn ==
  ASSUME NEW T \in Traces, NEW sp, NEW hm \in Seq(Ids),
         HandlesDiffer(sp, hm), TraceWell(T, sp, hm)
  PROVE  /\ CurrentParent(T) \in Ids
         /\ CurrentParent(T) \in DOMAIN hm
         /\ hm[CurrentParent(T)] = T.root
  <1>1. T.open \in Seq(Ids) /\ T.root \in Ids
    BY DEF Traces
  <1>2. CASE T.open = << >>
    BY <1>1, <1>2 DEF CurrentParent, TraceWell
  <1>3. CASE T.open # << >>
    <2>1. Len(T.open) \in DOMAIN T.open /\ CurrentParent(T) = T.open[Len(T.open)]
      BY <1>1, <1>3 DEF CurrentParent, Last
    <2>2. Holds(sp, hm, T.root, T.open[Len(T.open)])
      BY <2>1 DEF TraceWell, Stacked
    <2>3. PICK s \in SpanHandles : /\ sp[s].active
                                   /\ sp[s].id = T.open[Len(T.open)]
                                   /\ hm[T.open[Len(T.open)]] = T.root
      BY <2>2 DEF Holds
    <2>4. sp[s].id \in DOMAIN hm
      BY <2>3 DEF HandlesDiffer, Child
    <2>5. CurrentParent(T) \in Ids
      BY <1>1, <2>1
    <2> QED
      BY <2>1, <2>3, <2>4, <2>5
  <1> QED
    BY <1>2, <1>3

-----------------------------------------------------------------------------
\* Opening a span puts it on the stack, or leaves the stack when it is full.
LEMMA OpenedFacts ==
  ASSUME NEW T \in Traces, NEW id \in Ids, Len(T.open) <= MaxDepth
  PROVE  /\ Opened(T, id) \in Traces
         /\ Opened(T, id).root = T.root /\ Opened(T, id).spans = T.spans
         /\ Len(Opened(T, id).open) <= MaxDepth
         /\ Opened(T, id).open = T.open \/ Opened(T, id).open = Append(T.open, id)
  <1> DEFINE open == IF Len(T.open) < MaxDepth THEN Append(T.open, id) ELSE T.open
  <1>1. T.open \in Seq(Ids) /\ Len(T.open) \in Nat
    BY DEF Traces
  <1>2. Append(T.open, id) \in Seq(Ids) /\ Len(Append(T.open, id)) = Len(T.open) + 1
    BY <1>1
  <1>3. /\ open \in Seq(Ids) /\ Len(open) <= MaxDepth
        /\ open = T.open \/ open = Append(T.open, id)
    BY <1>1, <1>2, SpanTreeAssumption
  <1>4. Opened(T, id) = [T EXCEPT !.open = open]
    BY DEF Opened
  <1>5. T \in [root : Ids, remote : TraceParents, send : BOOLEAN, spans : Seq(Span), open : Seq(Ids)]
    BY DEF Traces
  <1> HIDE DEF open
  <1>6. /\ Opened(T, id) \in Traces
        /\ Opened(T, id).root = T.root /\ Opened(T, id).spans = T.spans
        /\ Opened(T, id).open = open
    BY <1>3, <1>4, <1>5 DEF Traces
  <1> QED
    BY <1>3, <1>6

\* A new span, held by a handle that held none.
LEMMA OpensWell ==
  ASSUME NEW T \in Traces, Len(T.open) <= MaxDepth,
         NEW sp, NEW hm \in Seq(Ids), Len(hm) + 1 \in Ids,
         HandlesDiffer(sp, hm), TraceWell(T, sp, hm),
         NEW s \in SpanHandles, ~sp[s].active,
         NEW sp2, sp2[s] = Open(Len(hm) + 1, CurrentParent(T)),
         \A h \in SpanHandles : h # s => sp2[h] = sp[h]
  PROVE  /\ HandlesDiffer(sp2, Append(hm, T.root))
         /\ TraceWell(Opened(T, Len(hm) + 1), sp2, Append(hm, T.root))
  <1> DEFINE n == Len(hm) + 1
             hm2 == Append(hm, T.root)
             P == CurrentParent(T)
             O == Opened(T, n)
  <1>1. /\ Len(hm) \in Nat /\ n \notin DOMAIN hm
        /\ DOMAIN hm = 1..Len(hm) /\ DOMAIN hm2 = 1..n
        /\ \A i \in DOMAIN hm : i \in DOMAIN hm2 /\ hm2[i] = hm[i]
        /\ n \in DOMAIN hm2 /\ hm2[n] = T.root
        /\ \A i \in DOMAIN hm2 : i = n \/ i \in DOMAIN hm
        /\ \A i \in DOMAIN hm : i < n
        /\ \A id, parent : Child(hm, id, parent) => Child(hm2, id, parent)
    <2>1. T.root \in Ids
      BY DEF Traces
    <2> QED
      BY <2>1, HomeGrows
  <1>2. P \in DOMAIN hm /\ hm[P] = T.root
    BY ParentIsDrawn
  <1>3. sp2[s].active /\ sp2[s].id = n /\ sp2[s].parent = P
    BY DEF Open
  <1>4. /\ O.root = T.root /\ O.spans = T.spans /\ O \in Traces
        /\ O.open = T.open \/ O.open = Append(T.open, n)
    BY OpenedFacts
  <1>5. T.open \in Seq(Ids) /\ T.spans \in Seq(Span)
    BY DEF Traces
  <1>6. T.root \in DOMAIN hm /\ hm[T.root] = T.root
    BY DEF TraceWell
  <1> HIDE DEF n, hm2, P, O
  <1>7. Child(hm2, n, P)
    BY <1>1, <1>2, <1>6 DEF Child
  <1>8. HandlesDiffer(sp2, hm2)
    <2>1. \A h \in SpanHandles : sp[h].active => sp[h].id \in DOMAIN hm
      BY DEF HandlesDiffer, Child
    <2>2. \A h \in SpanHandles : sp2[h].active => Child(hm2, sp2[h].id, sp2[h].parent)
      BY <1>1, <1>3, <1>7 DEF HandlesDiffer
    <2>3. ASSUME NEW g \in SpanHandles, NEW h \in SpanHandles,
                 sp2[g].active, sp2[h].active, sp2[g].id = sp2[h].id
          PROVE  g = h
      BY <1>1, <1>3, <2>1, <2>3 DEF HandlesDiffer
    <2> QED
      BY <2>2, <2>3 DEF HandlesDiffer
  <1>9. ASSUME NEW x, Holds(sp, hm, T.root, x) PROVE Holds(sp2, hm2, T.root, x)
    <2>1. PICK h \in SpanHandles : sp[h].active /\ sp[h].id = x /\ hm[x] = T.root
      BY <1>9 DEF Holds
    <2>2. h # s /\ x \in DOMAIN hm
      BY <2>1 DEF HandlesDiffer, Child
    <2> QED
      BY <1>1, <2>1, <2>2 DEF Holds
  <1>10. Holds(sp2, hm2, T.root, n)
    BY <1>1, <1>3 DEF Holds
  <1>11. Recorded(T.spans, sp2, hm2)
    <2>1. \A i \in DOMAIN T.spans : /\ Child(hm, T.spans[i].id, T.spans[i].parent)
                                    /\ T.spans[i].id \in DOMAIN hm
      BY DEF TraceWell, Recorded, Child
    <2> QED
      BY <1>1, <1>3, <2>1 DEF TraceWell, Recorded
  <1>12. Complete(O, sp2, hm2)
    <2>1. Complete(T, sp, hm)
      BY DEF TraceWell
    <2> QED
      BY <1>1, <1>4, <1>9, <1>10, <2>1 DEF Complete
  <1>13. Stacked(O, sp2, hm2)
    <2>1. \A i \in DOMAIN T.open : /\ Holds(sp2, hm2, T.root, T.open[i])
                                   /\ T.open[i] \in DOMAIN hm
      <3> SUFFICES ASSUME NEW i \in DOMAIN T.open
                   PROVE  Holds(sp2, hm2, T.root, T.open[i]) /\ T.open[i] \in DOMAIN hm
        OBVIOUS
      <3>1. Holds(sp, hm, T.root, T.open[i])
        BY DEF TraceWell, Stacked
      <3>2. T.open[i] \in DOMAIN hm
        BY <3>1 DEF Holds, HandlesDiffer, Child
      <3> QED
        BY <1>9, <3>1, <3>2
    <2>2. \A i, j \in DOMAIN T.open : i < j => T.open[i] < T.open[j]
      BY DEF TraceWell, Stacked
    <2>3. CASE O.open = T.open
      BY <1>4, <2>1, <2>2, <2>3 DEF Stacked
    <2>4. CASE O.open = Append(T.open, n)
      <3> DEFINE L == Len(T.open)
                 q == Append(T.open, n)
      <3>1. /\ L \in Nat /\ DOMAIN T.open = 1..L /\ DOMAIN q = 1..(L + 1) /\ q[L + 1] = n
            /\ \A i \in 1..L : q[i] = T.open[i]
        BY <1>5
      <3> HIDE DEF q
      <3>2. \A i \in DOMAIN q : i = L + 1 \/ i \in 1..L
        BY <3>1
      <3>3. \A i \in DOMAIN q : Holds(sp2, hm2, T.root, q[i])
        BY <1>10, <2>1, <3>1, <3>2
      <3>4. ASSUME NEW i \in DOMAIN q, NEW j \in DOMAIN q, i < j PROVE q[i] < q[j]
        <4>1. i \in 1..L
          BY <3>1, <3>4
        <4>2. CASE j = L + 1
          BY <1>1, <2>1, <3>1, <4>1, <4>2
        <4>3. CASE j \in 1..L
          BY <2>2, <3>1, <3>4, <4>1, <4>3
        <4> QED
          BY <3>2, <4>2, <4>3
      <3>5. O.open = q
        BY <2>4 DEF q
      <3> QED
        BY <1>4, <3>3, <3>4, <3>5 DEF Stacked
    <2> QED
      BY <1>4, <2>3, <2>4
  <1>14. TraceWell(O, sp2, hm2)
    BY <1>1, <1>4, <1>6, <1>11, <1>12, <1>13 DEF TraceWell
  <1> QED
    BY <1>8, <1>14 DEF n, hm2, O

\* A trace with one id taken off its stack.
LEMMA ClosedFacts ==
  ASSUME NEW T \in Traces, NEW id, Len(T.open) <= MaxDepth,
         \A i, j \in DOMAIN T.open : i < j => T.open[i] < T.open[j]
  PROVE  /\ [T EXCEPT !.open = Closes(@, id)] \in Traces
         /\ [T EXCEPT !.open = Closes(@, id)].root = T.root
         /\ [T EXCEPT !.open = Closes(@, id)].spans = T.spans
         /\ [T EXCEPT !.open = Closes(@, id)].open = Closes(T.open, id)
         /\ Len(Closes(T.open, id)) <= MaxDepth
  <1>1. T.open \in Seq(Ids) /\ Len(T.open) \in Nat
    BY DEF Traces
  <1>2. Closes(T.open, id) \in Seq(Ids) /\ Len(Closes(T.open, id)) <= Len(T.open)
    BY <1>1, ClosesFacts
  <1>3. Len(Closes(T.open, id)) \in Nat
    BY <1>2
  <1>4. T \in [root : Ids, remote : TraceParents, send : BOOLEAN, spans : Seq(Span), open : Seq(Ids)]
    BY DEF Traces
  <1> QED
    BY <1>1, <1>2, <1>3, <1>4, SpanTreeAssumption DEF Traces

\* A handle that held a span of this trace, or of an earlier one, lets it go.
LEMMA StopsWell ==
  ASSUME NEW T \in Traces, Len(T.open) <= MaxDepth, Len(T.spans) <= MaxSpans - 1,
         NEW sp, NEW hm \in Seq(Ids), Len(hm) <= MaxIds,
         HandlesDiffer(sp, hm), TraceWell(T, sp, hm),
         NEW s \in SpanHandles, sp[s].active,
         NEW sp2, ~sp2[s].active,
         \A h \in SpanHandles : h # s => sp2[h] = sp[h]
  PROVE  /\ Stopped(T, sp[s].id, sp[s].parent) \in Traces
         /\ Stopped(T, sp[s].id, sp[s].parent).root = T.root
         /\ Len(Stopped(T, sp[s].id, sp[s].parent).open) <= MaxDepth
         /\ Len(Stopped(T, sp[s].id, sp[s].parent).spans) <= MaxSpans - 1
         /\ TraceWell(Stopped(T, sp[s].id, sp[s].parent), sp2, hm)
  <1> DEFINE id == sp[s].id
             parent == sp[s].parent
             C == [T EXCEPT !.open = Closes(@, id)]
             R == Record(C, id, parent)
  <1>1. Child(hm, id, parent) /\ id \in Ids /\ parent \in Ids
    <2>1. Child(hm, id, parent)
      BY DEF HandlesDiffer
    <2>2. \A i \in DOMAIN hm : i \in Ids
      BY SpanTreeAssumption DEF Ids
    <2> QED
      BY <2>1, <2>2 DEF Child
  <1>2. \A i, j \in DOMAIN T.open : i < j => T.open[i] < T.open[j]
    BY DEF TraceWell, Stacked
  <1>3. /\ C \in Traces /\ C.root = T.root /\ C.spans = T.spans /\ C.open = Closes(T.open, id)
        /\ Len(C.open) <= MaxDepth
    BY <1>2, ClosedFacts
  <1>4. Stopped(T, id, parent) = R
    BY DEF Stopped
  <1>5. \A h \in SpanHandles : sp2[h].active => h # s /\ sp2[h] = sp[h] /\ sp[h].active
    OBVIOUS
  <1>6. \A h \in SpanHandles : sp2[h].active => sp2[h].id # id
    BY <1>5 DEF HandlesDiffer
  <1> HIDE DEF id, parent, C, R
  <1>7. R \in Traces /\ R.root = T.root /\ R.open = C.open /\ Len(R.spans) <= MaxSpans - 1
    BY <1>1, <1>3, RecordFacts DEF R
  <1>8. Recorded(C.spans, sp2, hm) /\ \A i \in DOMAIN C.spans : C.spans[i].id # id
    BY <1>3, <1>5 DEF TraceWell, Recorded, id
  <1>9. ASSUME NEW x, x # id, Holds(sp, hm, T.root, x) PROVE Holds(sp2, hm, T.root, x)
    BY <1>9 DEF Holds, id
  <1>10. \/ Len(C.spans) = MaxSpans - 1
         \/ \A x \in DOMAIN hm \ {id} :
              hm[x] = C.root => x = C.root \/ x \in IdsOf(C.spans) \/ Holds(sp2, hm, C.root, x)
    BY <1>3, <1>9 DEF TraceWell, Complete
  <1>11. Recorded(R.spans, sp2, hm) /\ Complete(R, sp2, hm)
    <2>1. Len(C.spans) <= MaxSpans - 1
      BY <1>3
    <2> QED
      BY <1>1, <1>3, <1>6, <1>8, <1>10, <2>1, RecordWell DEF R
  <1>12. Stacked(R, sp2, hm)
    <2>1. T.open \in Seq(Ids)
      BY DEF Traces
    <2>2. /\ \A i \in DOMAIN C.open : C.open[i] # id /\ \E k \in DOMAIN T.open : C.open[i] = T.open[k]
          /\ \A i, j \in DOMAIN C.open : i < j => C.open[i] < C.open[j]
      BY <1>2, <1>3, <2>1, ClosesFacts
    <2>3. \A k \in DOMAIN T.open : Holds(sp, hm, T.root, T.open[k])
      BY DEF TraceWell, Stacked
    <2>4. \A i \in DOMAIN C.open : Holds(sp2, hm, T.root, C.open[i])
      BY <1>9, <2>2, <2>3
    <2> QED
      BY <1>7, <2>2, <2>4 DEF Stacked
  <1>13. TraceWell(R, sp2, hm)
    BY <1>7, <1>11, <1>12 DEF TraceWell
  <1> QED
    BY <1>3, <1>4, <1>7, <1>13 DEF id, parent

\* Letting a span go leaves the other handles' spans.
LEMMA HandlesLetGo ==
  ASSUME NEW sp, NEW hm, HandlesDiffer(sp, hm), NEW s \in SpanHandles,
         NEW sp2, ~sp2[s].active, \A h \in SpanHandles : h # s => sp2[h] = sp[h]
  PROVE  HandlesDiffer(sp2, hm)
  <1>1. \A h \in SpanHandles : sp2[h].active => sp2[h] = sp[h] /\ sp[h].active
    OBVIOUS
  <1> QED
    BY <1>1 DEF HandlesDiffer

\* A span that is over when the trace hears of it.
LEMMA RecordsWell ==
  ASSUME NEW T \in Traces, Len(T.spans) <= MaxSpans - 1,
         NEW sp, NEW hm \in Seq(Ids), Len(hm) + 1 \in Ids,
         HandlesDiffer(sp, hm), TraceWell(T, sp, hm)
  PROVE  /\ HandlesDiffer(sp, Append(hm, T.root))
         /\ TraceWell(Record(T, Len(hm) + 1, CurrentParent(T)), sp, Append(hm, T.root))
  <1> DEFINE n == Len(hm) + 1
             hm2 == Append(hm, T.root)
             P == CurrentParent(T)
             R == Record(T, n, P)
  <1>1. /\ Len(hm) \in Nat /\ n \notin DOMAIN hm
        /\ DOMAIN hm = 1..Len(hm) /\ DOMAIN hm2 = 1..n
        /\ \A i \in DOMAIN hm : i \in DOMAIN hm2 /\ hm2[i] = hm[i]
        /\ n \in DOMAIN hm2 /\ hm2[n] = T.root
        /\ \A i \in DOMAIN hm2 : i = n \/ i \in DOMAIN hm
        /\ \A i \in DOMAIN hm : i < n
        /\ \A id, parent : Child(hm, id, parent) => Child(hm2, id, parent)
    <2>1. T.root \in Ids
      BY DEF Traces
    <2> QED
      BY <2>1, HomeGrows
  <1>2. P \in DOMAIN hm /\ P \in Ids /\ hm[P] = T.root
    BY ParentIsDrawn
  <1>3. R.root = T.root /\ R.open = T.open
    BY <1>2, RecordFacts
  <1>4. T.root \in DOMAIN hm /\ hm[T.root] = T.root
    BY DEF TraceWell
  <1> HIDE DEF n, hm2, P, R
  <1>5. Child(hm2, n, P)
    BY <1>1, <1>2, <1>4 DEF Child
  <1>6. HandlesDiffer(sp, hm2) /\ \A h \in SpanHandles : sp[h].active => sp[h].id \in DOMAIN hm
    BY <1>1 DEF HandlesDiffer, Child
  <1>7. \A x : Holds(sp, hm, T.root, x) => Holds(sp, hm2, T.root, x)
    BY <1>1, <1>6 DEF Holds
  <1>8. \A i \in DOMAIN T.spans : /\ Child(hm, T.spans[i].id, T.spans[i].parent)
                                  /\ T.spans[i].id \in DOMAIN hm
    BY DEF TraceWell, Recorded, Child
  <1>9. Recorded(T.spans, sp, hm2)
    BY <1>1, <1>8 DEF TraceWell, Recorded
  <1>10. \/ Len(T.spans) = MaxSpans - 1
         \/ \A x \in DOMAIN hm2 \ {n} :
              hm2[x] = T.root => x = T.root \/ x \in IdsOf(T.spans) \/ Holds(sp, hm2, T.root, x)
    BY <1>1, <1>7 DEF TraceWell, Complete
  <1>11. Recorded(R.spans, sp, hm2) /\ Complete(R, sp, hm2)
    <2>1. /\ n \in Ids /\ P \in Ids
          /\ \A i \in DOMAIN T.spans : T.spans[i].id # n
          /\ \A h \in SpanHandles : sp[h].active => sp[h].id # n
      BY <1>1, <1>2, <1>6, <1>8 DEF n
    <2> QED
      BY <1>5, <1>9, <1>10, <2>1, RecordWell DEF R
  <1>12. Stacked(R, sp, hm2)
    BY <1>3, <1>7 DEF TraceWell, Stacked
  <1>13. TraceWell(R, sp, hm2)
    BY <1>1, <1>3, <1>4, <1>11, <1>12 DEF TraceWell
  <1> QED
    BY <1>6, <1>13 DEF n, hm2, P, R

\* A trace that has just begun.
LEMMA BeginsWell ==
  ASSUME NEW sp, NEW hm \in Seq(Ids), Len(hm) + 1 \in Ids,
         HandlesDiffer(sp, hm), \A id \in DOMAIN hm : hm[id] <= id,
         NEW T \in Traces, T.root = Len(hm) + 1, T.spans = << >>, T.open = << >>
  PROVE  /\ HandlesDiffer(sp, Append(hm, T.root))
         /\ TraceWell(T, sp, Append(hm, T.root))
  <1> DEFINE n == Len(hm) + 1
             hm2 == Append(hm, n)
  <1>1. /\ Len(hm) \in Nat /\ DOMAIN hm = 1..Len(hm) /\ DOMAIN hm2 = 1..n
        /\ \A i \in DOMAIN hm : i \in DOMAIN hm2 /\ hm2[i] = hm[i]
        /\ n \in DOMAIN hm2 /\ hm2[n] = n
        /\ \A id, parent : Child(hm, id, parent) => Child(hm2, id, parent)
    BY HomeGrows
  <1>2. \A i \in DOMAIN hm : i \in Int /\ hm[i] \in Int
    BY SpanTreeAssumption DEF Ids
  <1> HIDE DEF hm2
  <1>3. HandlesDiffer(sp, hm2)
    BY <1>1 DEF HandlesDiffer
  <1>4. \A id \in DOMAIN hm2 : hm2[id] = n => id = n
    BY <1>1, <1>2
  <1>5. Recorded(T.spans, sp, hm2) /\ Stacked(T, sp, hm2)
    BY DEF Recorded, Stacked
  <1>6. Complete(T, sp, hm2)
    BY <1>4 DEF Complete
  <1>7. TraceWell(T, sp, hm2)
    BY <1>1, <1>5, <1>6 DEF TraceWell
  <1> QED
    BY <1>3, <1>7 DEF hm2

-----------------------------------------------------------------------------
\* The two ways to say that the application holds a span open.
LEMMA HeldOpenIs ==
  ASSUME NEW r
  PROVE  \A x : x \in HeldOpen(r) <=> Holds(span, home, r, x)
  BY DEF HeldOpen, Holds

\* What is put in front of a sequence of spans.
LEMMA Prepended ==
  ASSUME NEW W, NEW e \in W, NEW q \in Seq(W)
  PROVE  /\ <<e>> \o q \in Seq(W)
         /\ Len(<<e>> \o q) = Len(q) + 1
         /\ (<<e>> \o q)[1] = e
         /\ \A i \in 1..Len(q) : (<<e>> \o q)[i + 1] = q[i]
         /\ \A i \in 2..(Len(q) + 1) : i - 1 \in 1..Len(q) /\ (<<e>> \o q)[i] = q[i - 1]
  <1>1. Len(q) \in Nat /\ <<e>> \in Seq(W) /\ Len(<<e>>) = 1 /\ <<e>>[1] = e
    OBVIOUS
  <1>2. <<e>> \o q \in Seq(W) /\ Len(<<e>> \o q) = Len(q) + 1
    BY <1>1
  <1>3. (<<e>> \o q)[1] = e
    BY <1>1
  <1>4. \A i \in 1..Len(q) : (<<e>> \o q)[i + 1] = q[i]
    BY <1>1
  <1>5. \A i \in 2..(Len(q) + 1) : i - 1 \in 1..Len(q) /\ (<<e>> \o q)[i] = q[i - 1]
    BY <1>1
  <1> QED
    BY <1>2, <1>3, <1>4, <1>5

\* A trace that ends in good order makes a good body.
LEMMA BodyOfTrace ==
  ASSUME IndInv, current_trace # NoTrace
  PROVE  /\ Body(current_trace) \in Bodies
         /\ Body(current_trace).root = current_trace.root
         /\ Len(Body(current_trace).spans) <= MaxSpans
         /\ BodyWell(Body(current_trace), home)
  <1> DEFINE T == current_trace
             W == [id : Ids, parent : Ids \cup TraceParents]
             e == [id |-> T.root, parent |-> T.remote]
             q == <<e>> \o T.spans
             B == Body(T)
             L == Len(T.spans)
  <1>1. T \in Traces /\ L <= MaxSpans - 1
    BY DEF IndInv, TypeOK
  <1>2. e \in W /\ e.id = T.root /\ T.root \in Ids
    BY <1>1 DEF Traces
  <1>3. T.spans \in Seq(Span) /\ L \in Nat /\ DOMAIN T.spans = 1..L
    BY <1>1 DEF Traces
  <1>4. T.spans \in Seq(W)
    <2>1. Span \subseteq W
      BY DEF Span
    <2> HIDE DEF W
    <2> QED
      BY <1>3, <2>1
  <1>5. /\ B.root = T.root /\ B.spans = q /\ B.held = HeldOpen(T.root)
        /\ B = [root |-> T.root, spans |-> q, held |-> HeldOpen(T.root)]
    BY DEF Body
  <1> HIDE DEF T, e, W
  <1>6. /\ q \in Seq(W) /\ Len(q) = L + 1 /\ q[1] = e
        /\ \A i \in 1..L : q[i + 1] = T.spans[i]
        /\ \A i \in 2..(L + 1) : i - 1 \in 1..L /\ q[i] = T.spans[i - 1]
    BY <1>2, <1>4, Prepended
  <1>7. HeldOpen(T.root) \subseteq Ids
    <2>1. \A s \in SpanHandles : span[s].active => span[s].id \in DOMAIN home
      BY DEF IndInv, HandlesDiffer, Child
    <2>2. \A i \in DOMAIN home : i \in Ids
      BY SpanTreeAssumption DEF IndInv, TypeOK, Ids
    <2> QED
      BY <2>1, <2>2 DEF HeldOpen
  <1> HIDE DEF q, B
  <1>8. B \in Bodies
    BY <1>2, <1>5, <1>6, <1>7 DEF Bodies, W
  <1>9. /\ T.root \in DOMAIN home /\ home[T.root] = T.root
        /\ \A i \in 1..L : Child(home, T.spans[i].id, T.spans[i].parent)
        /\ \A i, j \in 1..L : T.spans[i].id = T.spans[j].id => i = j
        /\ Complete(T, span, home)
    BY <1>3 DEF IndInv, TraceWell, Recorded, T
  <1>10. \A i \in 1..L : T.spans[i].id # T.root
    <2>1. T.root \in Int
      BY <1>2 DEF Ids
    <2> QED
      BY <1>9, <2>1 DEF Child
  <1>11. ASSUME NEW i \in 2..(L + 1)
         PROVE  Child(home, q[i].id, q[i].parent) /\ q[i].id # T.root
    <2>1. i - 1 \in 1..L /\ q[i] = T.spans[i - 1]
      BY <1>6
    <2> QED
      BY <1>9, <1>10, <2>1
  <1>12. ASSUME NEW i \in 1..(L + 1), NEW j \in 1..(L + 1), q[i].id = q[j].id PROVE i = j
    <2>1. i = 1 \/ i \in 2..(L + 1)
      BY <1>3
    <2>2. j = 1 \/ j \in 2..(L + 1)
      BY <1>3
    <2>3. CASE i = 1
      BY <1>2, <1>6, <1>11, <1>12, <2>2, <2>3
    <2>4. CASE j = 1
      BY <1>2, <1>6, <1>11, <1>12, <2>1, <2>4
    <2>5. CASE i \in 2..(L + 1) /\ j \in 2..(L + 1)
      <3>1. /\ i - 1 \in 1..L /\ q[i] = T.spans[i - 1]
            /\ j - 1 \in 1..L /\ q[j] = T.spans[j - 1]
        BY <1>6, <2>5
      <3>2. i - 1 = j - 1
        BY <1>9, <1>12, <3>1
      <3> QED
        BY <1>3, <2>5, <3>2
    <2> QED
      BY <2>1, <2>2, <2>3, <2>4, <2>5
  <1>13. T.root \in IdsOf(q) /\ IdsOf(T.spans) \subseteq IdsOf(q)
    <2>1. DOMAIN q = 1..(L + 1) /\ 1 \in DOMAIN q /\ \A i \in 1..L : i + 1 \in DOMAIN q
      BY <1>3, <1>6
    <2> QED
      BY <1>2, <1>3, <1>6, <2>1 DEF IdsOf
  <1>14. \/ L + 1 = MaxSpans
         \/ \A id \in DOMAIN home : home[id] = T.root => id \in IdsOf(q) \cup HeldOpen(T.root)
    <2>1. L = MaxSpans - 1 => L + 1 = MaxSpans
      BY <1>3, SpanTreeAssumption
    <2> QED
      BY <1>9, <1>13, <2>1, HeldOpenIs DEF Complete
  <1>15. L + 1 \in 1..MaxSpans
    BY <1>1, <1>3, SpanTreeAssumption
  <1>16. BodyWell(B, home)
    BY <1>2, <1>5, <1>6, <1>9, <1>11, <1>12, <1>14, <1>15 DEF BodyWell
  <1> QED
    BY <1>5, <1>6, <1>8, <1>15, <1>16, SpanTreeAssumption DEF B, T

-----------------------------------------------------------------------------
LEMMA InitInd == Init => IndInv
  BY SpanTreeAssumption
     DEF Init, IndInv, TypeOK, HomesAreOlder, Owned, HandlesDiffer, Over, Closed

\* What a draw of an id in the trace r does to the history and to the bodies.
LEMMA DrawsInd ==
  ASSUME IndInv, NEW r \in Ids, Draws(r), r <= FreshId,
         \A b \in DOMAIN queued : queued[b].root # r
  PROVE  /\ home' = Append(home, r) /\ Len(home) + 1 \in Ids
         /\ home \in Seq(Ids) /\ home' \in Seq(Ids) /\ Len(home') <= MaxIds
         /\ HomesAreOlder'
         /\ \A b \in DOMAIN queued : BodyWell(queued[b], home')
  <1>1. home' = Append(home, r) /\ Len(home) + 1 \in Ids /\ home \in Seq(Ids)
    BY DEF IndInv, TypeOK, Draws, FreshId
  <1>2. /\ home' \in Seq(Ids)
        /\ Len(home) \in Nat /\ Len(home') = Len(home) + 1
        /\ DOMAIN home = 1..Len(home) /\ DOMAIN home' = 1..(Len(home) + 1)
        /\ \A i \in DOMAIN home : home'[i] = home[i]
        /\ home'[Len(home) + 1] = r
    BY <1>1, HomeGrows
  <1>3. Len(home') <= MaxIds
    BY <1>1, <1>2, SpanTreeAssumption DEF Ids
  <1>4. HomesAreOlder'
    BY <1>2 DEF IndInv, HomesAreOlder, FreshId
  <1>5. \A b \in DOMAIN queued : BodyWell(queued[b], home')
    BY <1>1, BodyStays DEF IndInv
  <1> QED
    BY <1>1, <1>2, <1>3, <1>4, <1>5

LEMMA TraceStartInd ==
  ASSUME IndInv, NEW h \in TraceHandles, NEW remote \in TraceParents, TraceStart(h, remote)
  PROVE  IndInv'
  <1> DEFINE n == FreshId
  <1>1. /\ current_trace = NoTrace /\ Draws(n) /\ n = Len(home) + 1
        /\ current_trace' = [root |-> n, remote |-> remote, send |-> track_tracing,
                             spans |-> << >>, open |-> << >>]
        /\ owns' = [owns EXCEPT ![h] = TRUE]
        /\ UNCHANGED <<enabled, track_tracing, span, queued>>
    BY DEF TraceStart, MayBegin, FreshId
  <1>2. n \in Ids /\ n <= n
    BY <1>1 DEF Draws, Ids
  <1>3. \A b \in DOMAIN queued : queued[b].root # n
    <2>1. \A b \in DOMAIN queued : queued[b].root \in DOMAIN home
      BY DEF IndInv, BodyWell
    <2>2. n \notin DOMAIN home
      BY <1>1 DEF IndInv, TypeOK
    <2> QED
      BY <2>1, <2>2
  <1>4. /\ home' = Append(home, n) /\ Len(home) + 1 \in Ids
        /\ home \in Seq(Ids) /\ home' \in Seq(Ids) /\ Len(home') <= MaxIds
        /\ HomesAreOlder'
        /\ \A b \in DOMAIN queued : BodyWell(queued[b], home')
    BY <1>1, <1>2, <1>3, DrawsInd
  <1>5. /\ current_trace' \in Traces /\ current_trace'.root = n
        /\ current_trace'.spans = << >> /\ current_trace'.open = << >>
    BY <1>1, <1>2 DEF Traces, IndInv, TypeOK
  <1>6. current_trace' # NoTrace
    BY <1>5, SpanTreeAssumption
  <1>7. HandlesDiffer(span, home') /\ TraceWell(current_trace', span, home')
    BY <1>1, <1>4, <1>5, BeginsWell DEF IndInv, HomesAreOlder
  <1>8. TypeOK'
    <2>1. Len(current_trace'.open) <= MaxDepth /\ Len(current_trace'.spans) <= MaxSpans - 1
      BY <1>5, SpanTreeAssumption
    <2>2. owns' \in [TraceHandles -> BOOLEAN]
      BY <1>1 DEF IndInv, TypeOK
    <2> QED
      BY <1>1, <1>4, <1>5, <2>1, <2>2 DEF IndInv, TypeOK
  <1>9. Owned'
    BY <1>1, <1>6 DEF IndInv, TypeOK, Owned
  <1>10. Over'
    BY <1>1, <1>3, <1>5 DEF Over
  <1> QED
    BY <1>1, <1>4, <1>7, <1>8, <1>9, <1>10 DEF IndInv

LEMMA TraceStopInd ==
  ASSUME IndInv, NEW h \in TraceHandles, NEW slow \in BOOLEAN, TraceStop(h, slow)
  PROVE  IndInv'
  <1>1. /\ owns[h] /\ owns' = [owns EXCEPT ![h] = FALSE]
        /\ current_trace' = NoTrace
        /\ queued' = IF current_trace # NoTrace /\ current_trace.send /\ slow
                     THEN Append(queued, Body(current_trace)) ELSE queued
        /\ UNCHANGED <<enabled, track_tracing, span, home>>
    BY DEF TraceStop, EndTrace
  <1>2. current_trace # NoTrace
    BY <1>1 DEF IndInv, Owned
  <1>3. /\ Body(current_trace) \in Bodies
        /\ Len(Body(current_trace).spans) <= MaxSpans
        /\ BodyWell(Body(current_trace), home)
    BY <1>2, BodyOfTrace
  <1>4. /\ queued' \in Seq(Bodies)
        /\ \A b \in DOMAIN queued' : Len(queued'[b].spans) <= MaxSpans /\ BodyWell(queued'[b], home)
    <2>1. /\ queued \in Seq(Bodies)
          /\ \A b \in DOMAIN queued : Len(queued[b].spans) <= MaxSpans /\ BodyWell(queued[b], home)
      BY DEF IndInv, TypeOK
    <2>2. CASE queued' = queued
      BY <2>1, <2>2
    <2>3. CASE queued' = Append(queued, Body(current_trace))
      <3>1. /\ queued' \in Seq(Bodies)
            /\ \A b \in DOMAIN queued' :
                 (b \in DOMAIN queued /\ queued'[b] = queued[b]) \/ queued'[b] = Body(current_trace)
        BY <1>3, <2>1, <2>3
      <3> QED
        BY <1>3, <2>1, <3>1
    <2> QED
      BY <1>1, <2>2, <2>3
  <1>5. TypeOK'
    BY <1>1, <1>4 DEF IndInv, TypeOK
  <1>6. Owned'
    BY <1>1, <1>2 DEF IndInv, TypeOK, Owned
  <1> QED
    BY <1>1, <1>4, <1>5, <1>6 DEF IndInv, HomesAreOlder, Over

\* Inside a trace, a draw is for that trace.
LEMMA DrawsInTrace ==
  ASSUME IndInv, current_trace # NoTrace, Draws(current_trace.root)
  PROVE  /\ current_trace \in Traces
         /\ Len(current_trace.open) <= MaxDepth /\ Len(current_trace.spans) <= MaxSpans - 1
         /\ TraceWell(current_trace, span, home)
         /\ FreshId = Len(home) + 1 /\ FreshId \in Ids /\ CurrentParent(current_trace) \in Ids
         /\ home' = Append(home, current_trace.root)
         /\ home \in Seq(Ids) /\ home' \in Seq(Ids) /\ Len(home') <= MaxIds
         /\ HomesAreOlder'
         /\ \A b \in DOMAIN queued : BodyWell(queued[b], home')
  <1>1. /\ current_trace \in Traces
        /\ Len(current_trace.open) <= MaxDepth /\ Len(current_trace.spans) <= MaxSpans - 1
        /\ TraceWell(current_trace, span, home) /\ HandlesDiffer(span, home)
        /\ home \in Seq(Ids)
    BY DEF IndInv, TypeOK
  <1>2. current_trace.root \in Ids /\ current_trace.root <= FreshId
    <2>1. current_trace.root \in DOMAIN home
      BY <1>1 DEF TraceWell
    <2> QED
      BY <1>1, <2>1 DEF Traces, FreshId
  <1>3. \A b \in DOMAIN queued : queued[b].root # current_trace.root
    BY DEF IndInv, Over
  <1>4. CurrentParent(current_trace) \in Ids
    BY <1>1, ParentIsDrawn
  <1>5. FreshId = Len(home) + 1 /\ FreshId \in Ids
    BY DEF FreshId, Draws
  <1> QED
    BY <1>1, <1>2, <1>3, <1>4, <1>5, DrawsInd

LEMMA SpanStartInd == ASSUME IndInv, NEW s \in SpanHandles, SpanStart(s) PROVE IndInv'
  <1> DEFINE T == current_trace
             P == CurrentParent(T)
  <1>1. /\ ~span[s].active /\ T # NoTrace /\ Draws(T.root)
        /\ span' = [span EXCEPT ![s] = Open(FreshId, P)]
        /\ current_trace' = Opened(T, FreshId)
        /\ UNCHANGED <<enabled, track_tracing, owns, queued>>
    BY DEF SpanStart
  <1>2. /\ T \in Traces
        /\ Len(T.open) <= MaxDepth /\ Len(T.spans) <= MaxSpans - 1
        /\ TraceWell(T, span, home)
        /\ FreshId = Len(home) + 1 /\ FreshId \in Ids /\ P \in Ids
        /\ home' = Append(home, T.root)
        /\ home \in Seq(Ids) /\ home' \in Seq(Ids) /\ Len(home') <= MaxIds
        /\ HomesAreOlder'
        /\ \A b \in DOMAIN queued : BodyWell(queued[b], home')
    BY <1>1, DrawsInTrace
  <1>3. /\ current_trace' \in Traces /\ current_trace'.root = T.root
        /\ current_trace'.spans = T.spans /\ Len(current_trace'.open) <= MaxDepth
    BY <1>1, <1>2, OpenedFacts
  <1>4. current_trace' # NoTrace
    BY <1>3, SpanTreeAssumption
  <1>5. /\ span' \in [SpanHandles -> {Closed} \cup [active : {TRUE}, id : Ids, parent : Ids]]
        /\ span'[s] = Open(FreshId, P)
        /\ \A g \in SpanHandles : g # s => span'[g] = span[g]
    <2>1. Open(FreshId, P) \in [active : {TRUE}, id : Ids, parent : Ids]
      BY <1>2 DEF Open
    <2> QED
      BY <1>1, <2>1 DEF IndInv, TypeOK
  <1>6. HandlesDiffer(span', home') /\ TraceWell(current_trace', span', home')
    <2>1. HandlesDiffer(span, home)
      BY DEF IndInv
    <2> HIDE DEF T, P
    <2>2. CurrentParent(T) = P
      BY DEF P
    <2> QED
      BY <1>1, <1>2, <1>5, <2>1, <2>2, OpensWell
  <1>7. TypeOK'
    BY <1>1, <1>2, <1>3, <1>5 DEF IndInv, TypeOK
  <1>8. Owned' /\ Over'
    BY <1>1, <1>3, <1>4 DEF IndInv, Owned, Over
  <1> QED
    BY <1>1, <1>2, <1>6, <1>7, <1>8 DEF IndInv

LEMMA RecordSpanInd == ASSUME IndInv, RecordSpan PROVE IndInv'
  <1> DEFINE T == current_trace
             P == CurrentParent(T)
  <1>1. /\ T # NoTrace /\ Draws(T.root)
        /\ current_trace' = Record(T, FreshId, P)
        /\ UNCHANGED <<enabled, track_tracing, owns, span, queued>>
    BY DEF RecordSpan
  <1>2. /\ T \in Traces
        /\ Len(T.open) <= MaxDepth /\ Len(T.spans) <= MaxSpans - 1
        /\ TraceWell(T, span, home)
        /\ FreshId = Len(home) + 1 /\ FreshId \in Ids /\ P \in Ids
        /\ home' = Append(home, T.root)
        /\ home \in Seq(Ids) /\ home' \in Seq(Ids) /\ Len(home') <= MaxIds
        /\ HomesAreOlder'
        /\ \A b \in DOMAIN queued : BodyWell(queued[b], home')
    BY <1>1, DrawsInTrace
  <1>3. /\ current_trace' \in Traces /\ current_trace'.root = T.root
        /\ current_trace'.open = T.open /\ Len(current_trace'.spans) <= MaxSpans - 1
    BY <1>1, <1>2, RecordFacts
  <1>4. current_trace' # NoTrace
    BY <1>3, SpanTreeAssumption
  <1>5. HandlesDiffer(span, home') /\ TraceWell(current_trace', span, home')
    <2>1. HandlesDiffer(span, home)
      BY DEF IndInv
    <2> QED
      BY <1>1, <1>2, <2>1, RecordsWell
  <1>6. TypeOK'
    BY <1>1, <1>2, <1>3 DEF IndInv, TypeOK
  <1>7. Owned' /\ Over'
    BY <1>1, <1>3, <1>4 DEF IndInv, Owned, Over
  <1> QED
    BY <1>1, <1>2, <1>5, <1>6, <1>7 DEF IndInv

LEMMA SpanStopInd == ASSUME IndInv, NEW s \in SpanHandles, SpanStop(s) PROVE IndInv'
  <1> DEFINE T == current_trace
  <1>1. /\ span[s].active /\ span' = [span EXCEPT ![s] = Closed]
        /\ current_trace' = IF T = NoTrace THEN NoTrace ELSE Stopped(T, span[s].id, span[s].parent)
        /\ UNCHANGED <<enabled, track_tracing, owns, queued, home>>
    BY DEF SpanStop
  <1>2. /\ span' \in [SpanHandles -> {Closed} \cup [active : {TRUE}, id : Ids, parent : Ids]]
        /\ ~span'[s].active
        /\ \A g \in SpanHandles : g # s => span'[g] = span[g]
    BY <1>1 DEF IndInv, TypeOK, Closed
  <1>3. HandlesDiffer(span', home)
    BY <1>2, HandlesLetGo DEF IndInv
  <1>4. CASE T = NoTrace
    <2>1. current_trace' = NoTrace
      BY <1>1, <1>4
    <2>2. TypeOK'
      BY <1>1, <1>2, <2>1 DEF IndInv, TypeOK
    <2>3. Owned' /\ Over' /\ HomesAreOlder'
      BY <1>1, <1>4, <2>1 DEF IndInv, Owned, Over, HomesAreOlder
    <2> QED
      BY <1>1, <1>3, <2>1, <2>2, <2>3 DEF IndInv
  <1>5. CASE T # NoTrace
    <2>1. /\ T \in Traces /\ Len(T.open) <= MaxDepth /\ Len(T.spans) <= MaxSpans - 1
          /\ TraceWell(T, span, home) /\ HandlesDiffer(span, home)
          /\ home \in Seq(Ids) /\ Len(home) <= MaxIds
      BY <1>5 DEF IndInv, TypeOK
    <2>2. /\ current_trace' \in Traces /\ current_trace'.root = T.root
          /\ Len(current_trace'.open) <= MaxDepth
          /\ Len(current_trace'.spans) <= MaxSpans - 1
          /\ TraceWell(current_trace', span', home)
      <3> DEFINE R == Stopped(T, span[s].id, span[s].parent)
      <3>1. /\ R \in Traces /\ R.root = T.root /\ Len(R.open) <= MaxDepth
            /\ Len(R.spans) <= MaxSpans - 1 /\ TraceWell(R, span', home)
        <4>1. span[s].active
          BY <1>1
        <4> HIDE DEF T
        <4> QED
          BY <1>2, <2>1, <4>1, StopsWell
      <3>2. current_trace' = R
        BY <1>1, <1>5
      <3> QED
        BY <3>1, <3>2
    <2>3. current_trace' # NoTrace
      BY <2>2, SpanTreeAssumption
    <2>4. TypeOK'
      BY <1>1, <1>2, <2>2 DEF IndInv, TypeOK
    <2>5. Owned' /\ Over' /\ HomesAreOlder'
      BY <1>1, <1>5, <2>2, <2>3 DEF IndInv, Owned, Over, HomesAreOlder
    <2> QED
      BY <1>1, <1>3, <2>2, <2>4, <2>5 DEF IndInv
  <1> QED
    BY <1>4, <1>5

\* A call that changes nothing but the configuration.
LEMMA QuietInd ==
  ASSUME IndInv, enabled' \in BOOLEAN, track_tracing' \in BOOLEAN,
         UNCHANGED <<current_trace, owns, span, queued, home>>
  PROVE  IndInv'
  BY DEF IndInv, TypeOK, HomesAreOlder, Owned, Over

\* IndInv holds initially and every call keeps it.
THEOREM Inductive == Spec => []IndInv
  <1>1. IndInv /\ [Next]_vars => IndInv'
    <2> SUFFICES ASSUME IndInv, [Next]_vars PROVE IndInv'
      OBVIOUS
    <2>1. ASSUME NEW h \in TraceHandles, NEW remote \in TraceParents, TraceStart(h, remote)
          PROVE  IndInv'
      BY <2>1, TraceStartInd
    <2>2. ASSUME NEW h \in TraceHandles, NEW slow \in BOOLEAN, TraceStop(h, slow)
          PROVE  IndInv'
      BY <2>2, TraceStopInd
    <2>3. ASSUME NEW s \in SpanHandles, SpanStart(s) \/ SpanStop(s) PROVE IndInv'
      BY <2>3, SpanStartInd, SpanStopInd
    <2>4. CASE RecordSpan
      BY <2>4, RecordSpanInd
    <2>5. ASSUME UNCHANGED vars \/ Configure PROVE IndInv'
      <3>1. enabled' \in BOOLEAN /\ track_tracing' \in BOOLEAN
        BY <2>5 DEF vars, Configure, IndInv, TypeOK
      <3>2. UNCHANGED <<current_trace, owns, span, queued, home>>
        BY <2>5 DEF vars, Configure
      <3> QED
        BY <3>1, <3>2, QuietInd
    <2>6. ASSUME NEW h \in TraceHandles, TraceStartIgnored(h) PROVE IndInv'
      BY <2>5, <2>6 DEF TraceStartIgnored
    <2> QED
      BY <2>1, <2>2, <2>3, <2>4, <2>5, <2>6 DEF Next
  <1> QED
    BY InitInd, <1>1, PTL DEF Spec

\* The variables keep their types; the stack stays within MAX_DEPTH and a
\* trace, its root counted, within MAX_SPANS (spans.c:169-178, 274-311).
THEOREM TypeCorrect == Spec => []TypeOK
  <1>1. IndInv => TypeOK
    BY DEF IndInv
  <1> QED
    BY Inductive, <1>1, PTL

\* A trace is open exactly while one handle owns it (forgeops_tracker.c:
\* 207-226).
THEOREM OneHandleOwns == Spec => []OneOwner
  <1>1. ASSUME IndInv PROVE OneOwner
    <2> DEFINE H == {h \in TraceHandles : owns[h]}
    <2>1. CASE current_trace = NoTrace
      <3>1. H = {}
        BY <1>1, <2>1 DEF IndInv, Owned
      <3> QED
        BY <2>1, <3>1, FS_EmptySet DEF OneOwner
    <2>2. CASE current_trace # NoTrace
      <3>1. PICK h \in TraceHandles : owns[h] /\ \A g \in TraceHandles : owns[g] => g = h
        BY <1>1, <2>2 DEF IndInv, Owned
      <3>2. H = {h}
        BY <3>1
      <3> HIDE DEF H
      <3>3. Cardinality(H) = 1
        BY <3>2, FS_Singleton
      <3> QED
        BY <2>2, <3>3 DEF OneOwner, H
    <2> QED
      BY <2>1, <2>2
  <1> QED
    BY Inductive, <1>1, PTL

\* The next span nests under the root or under a span of this trace that the
\* application still holds open, in whatever order spans are stopped
\* (spans.c:300-328).
THEOREM ParentsAreHeldOpen == Spec => []NestsUnderOpenSpan
  <1>1. ASSUME IndInv, current_trace # NoTrace PROVE NestsUnderOpenSpan
    <2> DEFINE T == current_trace
    <2>1. T.open \in Seq(Ids) /\ Stacked(T, span, home)
      BY <1>1 DEF IndInv, TypeOK, Traces, TraceWell
    <2>2. ToSet(T.open) \subseteq HeldOpen(T.root)
      BY <2>1, HeldOpenIs DEF ToSet, Stacked
    <2>3. \A i, j \in DOMAIN T.open : i < j => T.open[i] < T.open[j]
      BY <2>1 DEF Stacked
    <2>4. ASSUME NEW i \in DOMAIN T.open PROVE T.open[i] <= CurrentParent(T)
      <3>1. /\ Len(T.open) \in DOMAIN T.open /\ T.open # << >> /\ i <= Len(T.open)
            /\ i \in Int /\ Len(T.open) \in Int /\ T.open[i] \in Ids
        BY <2>1, <2>4
      <3>2. CurrentParent(T) = T.open[Len(T.open)]
        BY <3>1 DEF CurrentParent, Last
      <3>3. CASE i = Len(T.open)
        BY <3>1, <3>2, <3>3 DEF Ids
      <3>4. CASE i < Len(T.open)
        <4>1. T.open[i] < T.open[Len(T.open)] /\ T.open[Len(T.open)] \in Ids
          BY <2>1, <2>3, <3>1, <3>4
        <4> QED
          BY <3>1, <3>2, <4>1 DEF Ids
      <3> QED
        BY <3>1, <3>3, <3>4
    <2> QED
      BY <2>2, <2>3, <2>4 DEF NestsUnderOpenSpan
  <1>2. IndInv => NestsUnderOpenSpan
    BY <1>1 DEF NestsUnderOpenSpan
  <1> QED
    BY Inductive, <1>2, PTL

\* As many ids as spans, when no two spans share one.
LEMMA CountIds ==
  ASSUME NEW W, NEW q \in Seq(W),
         \A i, j \in 1..Len(q) : q[i].id = q[j].id => i = j
  PROVE  Cardinality(IdsOf(q)) = Len(q)
  <1> DEFINE I == 1..Len(q)
             f == [i \in I |-> q[i].id]
  <1>1. Len(q) \in Nat /\ DOMAIN q = I
    OBVIOUS
  <1>2. f \in Bijection(I, IdsOf(q))
    <2>1. f \in [I -> IdsOf(q)]
      BY <1>1 DEF IdsOf
    <2>2. \A t \in IdsOf(q) : \E i \in I : f[i] = t
      BY <1>1 DEF IdsOf
    <2>3. IsInjective(f)
      BY <1>1 DEF IsInjective
    <2> QED
      BY <2>1, <2>2, <2>3 DEF Bijection, Injection, Surjection
  <1>3. IsFiniteSet(I) /\ Cardinality(I) = Len(q)
    BY <1>1, FS_Interval
  <1> HIDE DEF I, f
  <1>4. ExistsBijection(I, IdsOf(q))
    BY <1>2 DEF ExistsBijection
  <1> QED
    BY <1>3, <1>4, FS_Bijection

\* A queued trace is a tree within MAX_SPANS: each span is there once, and its
\* own spans have an older parent of the same trace that is in the body too,
\* unless it was still open at the end or the body is full (spans.c:169-178,
\* 274-298).
THEOREM BodiesAreTrees == Spec => []QueuedTracesAreTrees
  <1>1. ASSUME IndInv, NEW b \in DOMAIN queued,
               NEW i \in 2..Len(queued[b].spans), home[queued[b].spans[i].id] = queued[b].root
        PROVE  LET s == queued[b].spans[i]
               IN /\ s.parent < s.id
                  /\ s.parent = queued[b].root \/ home[s.parent] = queued[b].root
                  /\ \/ s.parent \in IdsOf(queued[b].spans) \cup queued[b].held
                     \/ Len(queued[b].spans) = MaxSpans
    <2>1. BodyWell(queued[b], home)
      BY <1>1 DEF IndInv
    <2> QED
      BY <1>1, <2>1 DEF BodyWell, Child
  <1>2. ASSUME IndInv, NEW b \in DOMAIN queued
        PROVE  /\ Len(queued[b].spans) <= MaxSpans
               /\ Cardinality(IdsOf(queued[b].spans)) = Len(queued[b].spans)
    <2>1. BodyWell(queued[b], home) /\ Len(queued[b].spans) <= MaxSpans
      BY <1>2 DEF IndInv, TypeOK
    <2>2. queued[b] \in Bodies
      BY <1>2 DEF IndInv, TypeOK
    <2>3. queued[b].spans \in Seq([id : Ids, parent : Ids \cup TraceParents])
      BY <2>2 DEF Bodies
    <2> QED
      BY <2>1, <2>3, CountIds DEF BodyWell
  <1>3. IndInv => QueuedTracesAreTrees
    BY <1>1, <1>2 DEF QueuedTracesAreTrees
  <1> QED
    BY Inductive, <1>3, PTL

\* A span that was stopped before its trace ended is in the queued trace,
\* unless that is full (forgeops_tracker.c:246-247).
THEOREM StoppedSpansAreThere == Spec => []StoppedSpansAreQueued
  <1>1. IndInv => StoppedSpansAreQueued
    BY DEF IndInv, BodyWell, StoppedSpansAreQueued
  <1> QED
    BY Inductive, <1>1, PTL
=============================================================================
