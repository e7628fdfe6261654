---------------------------- MODULE Tracker_proofs ----------------------------
(***************************************************************************)
(* Proofs about Tracker, for any threads, programs, settings and number of *)
(* runs.  Three arguments, each with an invariant of its own:              *)
(*   - the warning: the flag is set by the one thread that gives it        *)
(*     (WarnWell);                                                         *)
(*   - the exit: what there is to deliver has a hook to come, or one that  *)
(*     a capture is about to register (HookWell), and the worker of the    *)
(*     span queue is stopped by its one hook (SpansWell);                  *)
(*   - privacy: while nobody has overlapped in creating it there is one    *)
(*     configuration, it holds what the application asked for (OneConfig), *)
(*     and so each item, wherever it lies, was made under the settings     *)
(*     that were asked for when its text was handed over (ItemsWell).      *)
(***************************************************************************)
EXTENDS Tracker, SequenceTheorems, TLAPS

CallPcs == {"idle", "create", "have", "warn", "exchange", "print", "exit"} \cup GoneOn
Call == [pc : CallPcs, op : Ops \cup {"none"}, config : Nat, due : BOOLEAN]

CallsTyped(cl, n) ==
  /\ cl \in [Threads -> Call]
  /\ \A t \in Threads : cl[t].config \in 0..n /\ (cl[t].pc \notin {"idle", "exit"} => cl[t].op \in Ops)

InHooks(hk, feature) == \E i \in DOMAIN hk : hk[i] = feature

Types ==
  /\ program \in Programs /\ environment \in Environments
  /\ structs \in Seq(Settings) /\ shared \in 0..Len(structs)
  /\ warned \in BOOLEAN /\ installed \in BOOLEAN
  /\ registered \subseteq Features /\ hooks \in Seq(Features)
  /\ \A feature \in Features : InHooks(hooks, feature) => feature \in registered
  /\ workerConfig \in [performance : 0..Len(structs), spans : 0..Len(structs)]
  /\ CallsTyped(call, Len(structs))
  /\ handed \in Seq(Settings) /\ asked \in Settings /\ user \in [Threads -> 0..Len(handed)]
  /\ DOMAIN trail = Threads /\ DOMAIN trace = Threads
  /\ phase \in {"running", "exiting", "ended"}
  /\ spansWorker \in {"none", "running", "stopped"}
  /\ made \in [Threads -> Nat] /\ warnings \in Nat /\ runs \in 1..MaxRuns
  /\ overlap \in BOOLEAN /\ missed \in BOOLEAN

WarnWell ==
  /\ warnings \in {0, 1}
  /\ warned => warnings = 1 \/ unprinted \/ \E t \in Threads : call[t].pc = "print"
  /\ ~warned => warnings = 0
  /\ \A t \in Threads :
       /\ call[t].pc = "print" => warned /\ warnings = 0 /\ \A u \in Threads \ {t} : call[u].pc # "print"
       /\ call[t].pc \in GoneOn /\ call[t].due => warned

\* The hook of the span queue runs once, and stops its worker.
Once(hk, feature) == \A i, j \in DOMAIN hk : hk[i] = feature /\ hk[j] = feature => i = j

SpansWell ==
  /\ Once(hooks, "spans")
  /\ spansWorker = "stopped" => "spans" \in registered /\ ~InHooks(hooks, "spans")

\* A hook to come.
Comes(feature) == InHooks(hooks, feature) \/ Registering(feature)

HookWell ==
  /\ phase = "running" => \A feature \in registered : Comes(feature)
  /\ \A t \in Threads : call[t].pc \in {"hook", "write"} => "upload" \in registered
  /\ \A report \in disk : report.run \in 1..runs
  /\ ~missed =>
       /\ buckets # {} => InHooks(hooks, "performance")
       /\ queue # {} => InHooks(hooks, "spans") \/ spansWorker = "none"
       /\ \A report \in disk : report.run = runs => Comes("upload")
       /\ phase = "ended" => hooks = << >>

HasConfig == {"have", "warn", "exchange", "print"} \cup GoneOn

OneConfig ==
  /\ shared = Len(structs) /\ Len(structs) <= 1
  /\ Len(structs) = 0 => hooks = << >> /\ (phase # "ended" => asked = environment)
  /\ Len(structs) = 1 => structs[1] = asked
  /\ \A t \in Threads :
       /\ call[t].pc = "create" => Len(structs) = 0 /\ \A u \in Threads \ {t} : call[u].pc # "create"
       /\ call[t].pc \in HasConfig => Len(structs) = 1 /\ call[t].config = 1

IsItem(item) == item = [field |-> item.field, form |-> item.form, of |-> item.of, built |-> item.built]

\* An item that may leave, hd being what was asked for when each text came.
ItemOk(item, hd) ==
  /\ IsItem(item) /\ item.of \in 1..Len(hd)
  /\ IsFreeText(item) => ~item.built /\ (item.field \in UserKeys \/ ~hd[item.of].strict)
  /\ item.form = "raw" /\ item.field \in ContextKeys \cup {"message", "crumb"} => ~hd[item.of].scrub

\* A breadcrumb that any payload may take up.
CrumbOk(item, hd) ==
  /\ IsItem(item) /\ item.of \in 1..Len(hd) /\ item.field = "crumb"
  /\ ~hd[item.of].strict
  /\ item.form = "raw" => ~hd[item.of].scrub

\* A report on disk: what is raw is completed when it is uploaded.
ReportOk(report, hd) ==
  /\ report.raw \in BOOLEAN
  /\ report.raw => \A item \in report.items : CrumbOk(item, hd)
  /\ ~report.raw => \A item \in report.items : ItemOk(item, hd)

\* Everything that leaves, or may yet.
ItemsWell(tl, tr, bk, qu, dk, st, hd) ==
  /\ \A t \in Threads : \A item \in tl[t] : CrumbOk(item, hd)
  /\ \A t \in Threads : tr[t] # NoTrace => \A item \in tr[t] : ItemOk(item, hd)
  /\ \A item \in bk \cup qu \cup st : ItemOk(item, hd)
  /\ \A report \in dk : ReportOk(report, hd)

Private == OneConfig /\ ItemsWell(trail, trace, buckets, queue, disk, sent, handed)

\* A call on a trace is in one: only the thread itself ends it.
InTrace == \A t \in Threads : call[t].op \in {"span", "trace_stop"} => trace[t] # NoTrace

IndInv == Types /\ WarnWell /\ SpansWell /\ HookWell /\ InTrace /\ (~overlap => Private)

-----------------------------------------------------------------------------
\* What an item is made of.
LEMMA ItemParts ==
  ASSUME NEW c, NEW field, NEW form, NEW of
  PROVE  /\ IsItem(Item(c, field, form, of))
         /\ Item(c, field, form, of).field = field /\ Item(c, field, form, of).form = form
         /\ Item(c, field, form, of).of = of /\ Item(c, field, form, of).built = c.strict
  BY DEF IsItem, Item

\* A new text makes nothing of the old ones.
LEMMA OkStays ==
  ASSUME NEW hd \in Seq(Settings), NEW x \in Settings
  PROVE  /\ Append(hd, x) \in Seq(Settings) /\ Len(Append(hd, x)) = Len(hd) + 1 /\ Append(hd, x)[Len(hd) + 1] = x
         /\ \A item : ItemOk(item, hd) => ItemOk(item, Append(hd, x))
         /\ \A item : CrumbOk(item, hd) => CrumbOk(item, Append(hd, x))
  <1> DEFINE g == Append(hd, x)
  <1>1. /\ g \in Seq(Settings) /\ Len(g) = Len(hd) + 1 /\ g[Len(hd) + 1] = x /\ Len(hd) \in Nat
        /\ \A i \in 1..Len(hd) : i \in 1..Len(g) /\ g[i] = hd[i]
    BY AppendProperties
  <1> HIDE DEF g
  <1>2. ASSUME NEW item, ItemOk(item, hd) PROVE ItemOk(item, g)
    BY <1>1, <1>2 DEF ItemOk
  <1>3. ASSUME NEW item, CrumbOk(item, hd) PROVE CrumbOk(item, g)
    BY <1>1, <1>3 DEF CrumbOk
  <1> QED
    BY <1>1, <1>2, <1>3 DEF g

\* A breadcrumb is recorded without strict privacy only.
LEMMA CrumbMade ==
  ASSUME NEW hd, NEW n \in 1..Len(hd), hd[n] \in Settings, ~hd[n].strict
  PROVE  CrumbOk(Scrubbed(hd[n], "crumb", n), hd)
  <1> DEFINE c == hd[n]
             form == IF c.scrub THEN "scrubbed" ELSE "raw"
             item == Item(c, "crumb", form, n)
  <1>1. IsItem(item) /\ item.field = "crumb" /\ item.form = form /\ item.of = n
    BY ItemParts
  <1>2. form = "raw" => ~c.scrub
    OBVIOUS
  <1>3. item = Scrubbed(c, "crumb", n)
    BY DEF Scrubbed
  <1> HIDE DEF item, form
  <1>4. CrumbOk(item, hd)
    BY <1>1, <1>2 DEF CrumbOk
  <1> QED
    BY <1>3, <1>4

\* A payload takes up the trail, under any settings.
LEMMA TrailTaken ==
  ASSUME NEW hd, NEW c \in Settings, NEW tl, \A item \in tl : CrumbOk(item, hd)
  PROVE  \A item \in TrailItems(c, tl) : ItemOk(item, hd)
  <1> SUFFICES ASSUME ~c.strict, NEW item \in tl PROVE ItemOk([item EXCEPT !.built = c.strict], hd)
    BY DEF TrailItems
  <1> DEFINE new == [item EXCEPT !.built = c.strict]
  <1>1. CrumbOk(item, hd) /\ c.strict = FALSE
    BY DEF Settings
  <1>2. new = [field |-> item.field, form |-> item.form, of |-> item.of, built |-> c.strict]
    BY <1>1 DEF CrumbOk, IsItem
  <1>3. IsItem(new) /\ new.field = item.field /\ new.form = item.form /\ new.of = item.of /\ new.built = FALSE
    BY <1>1, <1>2 DEF IsItem
  <1> HIDE DEF new
  <1>4. ItemOk(new, hd)
    BY <1>1, <1>3 DEF ItemOk, CrumbOk
  <1> QED
    BY <1>4 DEF new

\* And the user: strict privacy keeps the id.
LEMMA UserTaken ==
  ASSUME NEW hd, NEW c \in Settings, NEW who \in 0..Len(hd)
  PROVE  \A item \in UserItems(c, who) : ItemOk(item, hd)
  <1> USE EventAssumption
  <1> SUFFICES ASSUME NEW key \in UserKeys, who # 0, c.strict => key = "id"
               PROVE  ItemOk(Item(c, key, "raw", who), hd)
    BY DEF UserItems
  <1> DEFINE item == Item(c, key, "raw", who)
  <1>1. /\ IsItem(item) /\ item.field = key /\ item.form = "raw" /\ item.of = who /\ item.built = c.strict
        /\ who \in 1..Len(hd)
    BY ItemParts
  <1>2. key \notin ContextKeys \cup {"message", "crumb", "sql_statement"}
    BY DEF OwnFields
  <1> HIDE DEF item
  <1>3. IsFreeText(item) => ~c.strict
    BY <1>1, <1>2 DEF IsFreeText
  <1>4. ItemOk(item, hd)
    BY <1>1, <1>2, <1>3 DEF ItemOk
  <1> QED
    BY <1>4 DEF item

\* The texts of a call, under the settings that were asked for.
LEMMA TextTaken ==
  ASSUME NEW hd, NEW n \in 1..Len(hd), hd[n] \in Settings
  PROVE  /\ ItemOk(MessageItem(hd[n], n), hd) /\ ItemOk(SpanName(hd[n], n), hd) /\ ItemOk(SampleItem(hd[n], n), hd)
         /\ \A item \in ContextItems(hd[n], n) \cup SqlItems(hd[n], n) \cup SpanItems(hd[n], n) : ItemOk(item, hd)
  <1> USE EventAssumption
  <1> DEFINE c == hd[n]
             scrubbed == IF c.scrub THEN "scrubbed" ELSE "raw"
             strictName == IF c.strict THEN "strict name" ELSE "raw"
  <1>1. c.strict \in BOOLEAN /\ c.scrub \in BOOLEAN
    BY DEF Settings
  <1>2. scrubbed \in {"scrubbed", "raw"} /\ (scrubbed = "raw" => ~c.scrub)
    OBVIOUS
  <1>3. strictName \in {"strict name", "raw"} /\ (strictName = "raw" => ~c.strict)
    OBVIOUS
  <1> HIDE DEF scrubbed, strictName
  <1>4. \A field, form :
          /\ IsFreeText(Item(c, field, form, n)) => ~c.strict
          /\ form = "raw" /\ field \in ContextKeys \cup {"message", "crumb"} => ~c.scrub
          => ItemOk(Item(c, field, form, n), hd)
    <2> SUFFICES ASSUME NEW field, NEW form, IsFreeText(Item(c, field, form, n)) => ~c.strict,
                        form = "raw" /\ field \in ContextKeys \cup {"message", "crumb"} => ~c.scrub
                 PROVE  ItemOk(Item(c, field, form, n), hd)
      OBVIOUS
    <2> DEFINE item == Item(c, field, form, n)
    <2>1. IsItem(item) /\ item.field = field /\ item.form = form /\ item.of = n /\ item.built = c.strict
      BY ItemParts
    <2> HIDE DEF item
    <2>2. ItemOk(item, hd)
      BY <2>1 DEF ItemOk, item
    <2> QED
      BY <2>2 DEF item
  <1>5. \A field, form : IsFreeText(Item(c, field, form, n)) <=>
          field = "sql_statement" \/ (form \in {"raw", "scrubbed"} /\ field \notin AllowedFields \cup {"id"})
    BY ItemParts DEF IsFreeText
  <1>6. ItemOk(MessageItem(c, n), hd)
    <2>1. CASE c.strict
      BY <1>4, <1>5, <2>1 DEF MessageItem
    <2>2. CASE ~c.strict
      BY <1>2, <1>4, <1>5, <2>2 DEF MessageItem, Scrubbed, scrubbed
    <2> QED
      BY <2>1, <2>2
  <1>7. ItemOk(SpanName(c, n), hd) /\ ItemOk(SampleItem(c, n), hd)
    <2>1. "span name" \notin ContextKeys /\ "transaction" \notin ContextKeys
      BY DEF OwnFields
    <2>2. ASSUME NEW field \in {"span name", "transaction"} PROVE ItemOk(Item(c, field, strictName, n), hd)
      <3>1. IsFreeText(Item(c, field, strictName, n)) => strictName \in {"raw", "scrubbed"}
        BY <1>5
      <3>2. strictName \in {"raw", "scrubbed"} => ~c.strict
        BY <1>3
      <3>3. field \notin ContextKeys \cup {"message", "crumb"}
        BY <2>1
      <3> QED
        BY <1>4, <3>1, <3>2, <3>3
    <2> QED
      BY <2>2 DEF SpanName, SampleItem, strictName
  <1>8. ASSUME NEW item \in ContextItems(c, n) PROVE ItemOk(item, hd)
    <2>1. PICK key \in ContextKeys :
            /\ c.strict => key \in AllowedFields
            /\ item = IF c.scrub /\ key \in SensitiveKeys THEN Item(c, key, "redacted", n) ELSE Scrubbed(c, key, n)
      BY <1>8 DEF ContextItems
    <2>2. key # "sql_statement"
      BY DEF OwnFields
    <2>3. ItemOk(Item(c, key, "redacted", n), hd)
      BY <1>4, <1>5, <2>2
    <2>4. ItemOk(Item(c, key, scrubbed, n), hd)
      BY <1>2, <1>4, <1>5, <2>1, <2>2
    <2> QED
      BY <2>1, <2>3, <2>4 DEF Scrubbed, scrubbed
  <1>9. ASSUME NEW item \in SqlItems(c, n) PROVE ItemOk(item, hd)
    <2>1. item = Item(c, "sql_objects", "names", n) \/ (~c.strict /\ item = Item(c, "sql_statement", "masked", n))
      BY <1>9 DEF SqlItems
    <2> QED
      BY <1>4, <1>5, <2>1
  <1>10. ASSUME NEW item \in SpanItems(c, n) PROVE ItemOk(item, hd)
    <2>1. \/ item = SpanName(c, n) \/ item = Item(c, "db.statement", "masked", n)
          \/ (~c.strict /\ item = Item(c, "span data", "raw", n))
      BY <1>10 DEF SpanItems
    <2>2. "span data" \notin ContextKeys
      BY DEF OwnFields
    <2>3. ItemOk(Item(c, "db.statement", "masked", n), hd)
      BY <1>4, <1>5
    <2>4. ~c.strict => ItemOk(Item(c, "span data", "raw", n), hd)
      BY <1>4, <1>5, <2>2
    <2> QED
      BY <1>7, <2>1, <2>3, <2>4
  <1> QED
    BY <1>6, <1>7, <1>8, <1>9, <1>10

\* A whole event, and the completion of a raw report.
LEMMA EventTaken ==
  ASSUME NEW hd, NEW n \in 1..Len(hd), hd[n] \in Settings, NEW who \in 0..Len(hd), NEW tl,
         \A item \in tl : CrumbOk(item, hd)
  PROVE  \A item \in BuildEvent(hd[n], n, who, tl) : ItemOk(item, hd)
  BY TextTaken, UserTaken, TrailTaken DEF BuildEvent

LEMMA ReportTaken ==
  ASSUME NEW hd, NEW c \in Settings, NEW who \in 0..Len(hd), NEW tl, \A item \in tl : CrumbOk(item, hd)
  PROVE  \A item \in CompleteReport(c, who, tl) : ItemOk(item, hd)
  BY UserTaken, TrailTaken DEF CompleteReport

-----------------------------------------------------------------------------
(***************************************************************************)
(* The calls and the hooks, step by step.                                  *)
(***************************************************************************)
\* What a call is made of.
LEMMA PcParts ==
  ASSUME NEW pc, NEW op, NEW config, NEW due
  PROVE  /\ At(pc, op, config, due).pc = pc /\ At(pc, op, config, due).op = op
         /\ At(pc, op, config, due).config = config /\ At(pc, op, config, due).due = due
  BY DEF At

LEMMA CallMoves ==
  ASSUME NEW cl, NEW n \in Nat, NEW m \in Nat, n <= m, CallsTyped(cl, n), NEW t \in Threads,
         NEW pc \in CallPcs, NEW op \in Ops \cup {"none"}, NEW config \in 0..m, NEW due \in BOOLEAN,
         pc \notin {"idle", "exit"} => op \in Ops
  PROVE  CallsTyped([cl EXCEPT ![t] = At(pc, op, config, due)], m)
  <1> DEFINE new == At(pc, op, config, due)
             after == [cl EXCEPT ![t] = new]
  <1>1. new \in Call /\ new.config \in 0..m /\ (new.pc \notin {"idle", "exit"} => new.op \in Ops)
    <2>1. new.pc = pc /\ new.op = op /\ new.config = config
      BY PcParts
    <2>2. config \in Nat
      OBVIOUS
    <2>3. new \in Call
      BY <2>2 DEF At, Call
    <2> HIDE DEF new
    <2> QED
      BY <2>1, <2>3
  <1> HIDE DEF new
  <1>2. after \in [Threads -> Call]
    BY <1>1 DEF CallsTyped
  <1>3. ASSUME NEW u \in Threads
        PROVE  after[u].config \in 0..m /\ (after[u].pc \notin {"idle", "exit"} => after[u].op \in Ops)
    <2>1. CASE u = t
      BY <1>1, <2>1 DEF CallsTyped
    <2>2. CASE u # t
      <3>1. after[u] = cl[u]
        BY <2>2 DEF CallsTyped
      <3> HIDE DEF after
      <3> QED
        BY <3>1 DEF CallsTyped
    <2> QED
      BY <2>1, <2>2
  <1> HIDE DEF after
  <1>4. CallsTyped(after, m)
    BY <1>2, <1>3 DEF CallsTyped
  <1> QED
    BY <1>4 DEF after, new

\* A call as a record.
LEMMA CallParts ==
  ASSUME NEW cl, NEW n, CallsTyped(cl, n), NEW t \in Threads
  PROVE  /\ cl[t] = At(cl[t].pc, cl[t].op, cl[t].config, cl[t].due)
         /\ cl[t].pc \in CallPcs /\ cl[t].op \in Ops \cup {"none"} /\ cl[t].due \in BOOLEAN /\ cl[t].config \in 0..n
         /\ cl[t].pc \notin {"idle", "exit"} => cl[t].op \in Ops
  <1>1. cl[t] \in Call
    BY DEF CallsTyped
  <1> QED
    BY <1>1 DEF Call, At, CallsTyped

\* A call goes on.
LEMMA PcTyped ==
  ASSUME NEW cl, NEW n \in Nat, CallsTyped(cl, n), NEW t \in Threads, cl[t].pc \notin {"idle", "exit"},
         NEW pc \in CallPcs
  PROVE  CallsTyped([cl EXCEPT ![t].pc = pc], n)
  <1> DEFINE op == cl[t].op
             config == cl[t].config
             due == cl[t].due
  <1>1. cl[t] = At(cl[t].pc, op, config, due) /\ due \in BOOLEAN
    BY CallParts
  <1>2. op \in Ops /\ config \in 0..n
    BY CallParts
  <1>3. [cl EXCEPT ![t].pc = pc] = [cl EXCEPT ![t] = At(pc, op, config, due)]
    <2>1. [cl[t] EXCEPT !.pc = pc] = At(pc, op, config, due)
      BY <1>1 DEF At
    <2>2. [cl EXCEPT ![t].pc = pc] = [cl EXCEPT ![t] = [cl[t] EXCEPT !.pc = pc]]
      OBVIOUS
    <2> QED
      BY <2>1, <2>2
  <1> HIDE DEF op, config, due
  <1>4. \A d \in BOOLEAN : CallsTyped([cl EXCEPT ![t] = At(pc, op, config, d)], n)
    BY <1>2, CallMoves
  <1> QED
    BY <1>1, <1>3, <1>4, Zenon

LEMMA PcMoves ==
  ASSUME Types, NEW t \in Threads, NEW pc \in CallPcs, call[t].pc \notin {"idle", "exit"},
         call' = [call EXCEPT ![t].pc = pc]
  PROVE  /\ CallsTyped(call', Len(structs))
         /\ call'[t].pc = pc /\ call'[t].op = call[t].op /\ call'[t].config = call[t].config
         /\ call'[t].due = call[t].due
         /\ \A u \in Threads \ {t} : call'[u] = call[u]
  <1>1. Len(structs) \in Nat /\ CallsTyped(call, Len(structs))
    BY LenProperties DEF Types
  <1>2. CallsTyped(call', Len(structs))
    BY <1>1, PcTyped
  <1>3. call \in [Threads -> Call] /\ \A u \in Threads \ {t} : call'[u] = call[u]
    BY <1>1 DEF CallsTyped
  <1>4. call'[t] = [call[t] EXCEPT !.pc = pc] /\ call[t] \in Call
    BY <1>3
  <1>5. /\ call'[t].pc = pc /\ call'[t].op = call[t].op /\ call'[t].config = call[t].config
        /\ call'[t].due = call[t].due
    BY <1>4 DEF Call
  <1> QED
    BY <1>2, <1>3, <1>5

\* No call is in progress at the start of a process.
LEMMA CallsIdle ==
  ASSUME NEW n \in Nat
  PROVE  CallsTyped([t \in Threads |-> Idle], n)
  <1> DEFINE none == Idle
  <1>1. none \in Call /\ none.config \in 0..n /\ none.pc = "idle"
    BY DEF Idle, At, Call, CallPcs, GoneOn
  <1> HIDE DEF none
  <1>2. CallsTyped([t \in Threads |-> none], n)
    BY <1>1 DEF CallsTyped
  <1> QED
    BY <1>2 DEF none

\* More configurations make nothing of a call.
LEMMA CallsStay ==
  ASSUME NEW cl, NEW n \in Nat, NEW m \in Nat, n <= m, CallsTyped(cl, n)
  PROVE  CallsTyped(cl, m)
  BY DEF CallsTyped

\* atexit
LEMMA HookAppended ==
  ASSUME NEW hk \in Seq(Features), NEW feature \in Features
  PROVE  /\ Append(hk, feature) \in Seq(Features)
         /\ InHooks(Append(hk, feature), feature)
         /\ \A f \in Features : InHooks(Append(hk, feature), f) <=> InHooks(hk, f) \/ f = feature
  <1> DEFINE after == Append(hk, feature)
  <1>1. /\ after \in Seq(Features) /\ Len(hk) \in Nat
        /\ DOMAIN hk = 1..Len(hk) /\ DOMAIN after = 1..(Len(hk) + 1)
        /\ after[Len(hk) + 1] = feature /\ \A i \in 1..Len(hk) : after[i] = hk[i]
    BY AppendProperties, LenProperties
  <1> HIDE DEF after
  <1>2. ASSUME NEW f \in Features, InHooks(after, f) PROVE InHooks(hk, f) \/ f = feature
    <2>1. PICK i \in DOMAIN after : after[i] = f
      BY <1>2 DEF InHooks
    <2>2. CASE i = Len(hk) + 1
      BY <1>1, <2>1, <2>2
    <2>3. CASE i # Len(hk) + 1
      <3>1. i \in 1..Len(hk)
        BY <1>1, <2>3
      <3> QED
        BY <1>1, <2>1, <3>1 DEF InHooks
    <2> QED
      BY <2>2, <2>3
  <1>3. ASSUME NEW f \in Features, InHooks(hk, f) PROVE InHooks(after, f)
    <2>1. PICK i \in DOMAIN hk : hk[i] = f
      BY <1>3 DEF InHooks
    <2>2. i \in DOMAIN after /\ after[i] = f
      BY <1>1, <2>1
    <2> QED
      BY <2>2 DEF InHooks
  <1>4. InHooks(after, feature)
    <2>1. Len(hk) + 1 \in DOMAIN after
      BY <1>1
    <2> QED
      BY <1>1, <2>1 DEF InHooks
  <1> QED
    BY <1>1, <1>2, <1>3, <1>4 DEF after

\* The last hook is taken away.
LEMMA HookTaken ==
  ASSUME NEW hk \in Seq(Features), hk # << >>
  PROVE  LET after == SubSeq(hk, 1, Len(hk) - 1)
         IN /\ after \in Seq(Features) /\ Len(hk) \in Nat \ {0}
            /\ \A f \in Features : InHooks(after, f) => InHooks(hk, f)
            /\ \A f \in Features : InHooks(hk, f) => InHooks(after, f) \/ f = hk[Len(hk)]
  <1> DEFINE after == SubSeq(hk, 1, Len(hk) - 1)
  <1>1. /\ Len(hk) \in Nat \ {0} /\ DOMAIN hk = 1..Len(hk)
        /\ \A i \in 1..Len(hk) : hk[i] \in Features
    BY LenProperties, EmptySeq, ElementOfSeq
  <1>2. after \in Seq(Features) /\ DOMAIN after = 1..(Len(hk) - 1) /\ \A i \in 1..(Len(hk) - 1) : after[i] = hk[i]
    BY <1>1
  <1> HIDE DEF after
  <1>3. ASSUME NEW f \in Features, InHooks(after, f) PROVE InHooks(hk, f)
    <2>1. PICK i \in DOMAIN after : after[i] = f
      BY <1>3 DEF InHooks
    <2>2. i \in DOMAIN hk /\ hk[i] = f
      BY <1>1, <1>2, <2>1
    <2> QED
      BY <2>2 DEF InHooks
  <1>4. ASSUME NEW f \in Features, InHooks(hk, f) PROVE InHooks(after, f) \/ f = hk[Len(hk)]
    <2>1. PICK i \in DOMAIN hk : hk[i] = f
      BY <1>4 DEF InHooks
    <2>2. i = Len(hk) \/ (i \in DOMAIN after /\ after[i] = f)
      BY <1>1, <1>2, <2>1
    <2> QED
      BY <2>1, <2>2 DEF InHooks
  <1> QED
    BY <1>1, <1>2, <1>3, <1>4 DEF after

-----------------------------------------------------------------------------
(***************************************************************************)
(* Types.                                                                  *)
(***************************************************************************)
LEMMA ReturnTyped ==
  ASSUME Types, NEW t \in Threads
  PROVE  CallsTyped([call EXCEPT ![t] = Idle], Len(structs))
  <1> DEFINE n == Len(structs)
             no == FALSE
  <1>1. n \in Nat /\ CallsTyped(call, n) /\ no \in BOOLEAN
    BY LenProperties DEF Types
  <1> HIDE DEF n, no
  <1>2. "idle" \in CallPcs /\ 0 \in 0..n
    BY <1>1 DEF CallPcs, GoneOn
  <1>3. CallsTyped([call EXCEPT ![t] = At("idle", "none", 0, no)], n)
    BY <1>1, <1>2, CallMoves
  <1> QED
    BY <1>3 DEF Idle, n, no

LEMMA WithTyped ==
  ASSUME Types, NEW t \in Threads, NEW op \in Ops, NEW config \in 0..Len(structs)
  PROVE  CallsTyped([call EXCEPT ![t] = With(op, config)], Len(structs))
  <1> DEFINE pc == IF op \in ActiveOps THEN "warn" ELSE "act"
             n == Len(structs)
             no == FALSE
  <1>1. n \in Nat /\ CallsTyped(call, n) /\ no \in BOOLEAN /\ config \in 0..n
    BY LenProperties DEF Types
  <1>2. pc \in CallPcs
    BY DEF CallPcs, GoneOn
  <1> HIDE DEF pc, n, no
  <1>3. CallsTyped([call EXCEPT ![t] = At(pc, op, config, no)], n)
    BY <1>1, <1>2, CallMoves
  <1> QED
    BY <1>3 DEF With, pc, n, no

\* What was handed over, and a user it may be.
LEMMA HandTyped ==
  ASSUME Types, Hand
  PROVE  /\ handed' \in Seq(Settings) /\ Len(handed) \in Nat /\ Len(handed') = Len(handed) + 1
         /\ user \in [Threads -> 0..Len(handed')]
  <1>1. handed \in Seq(Settings) /\ asked \in Settings /\ user \in [Threads -> 0..Len(handed)]
    BY DEF Types
  <1>2. handed' = Append(handed, asked) /\ Len(handed) \in Nat
    BY <1>1, LenProperties DEF Hand
  <1>3. handed' \in Seq(Settings) /\ Len(handed') = Len(handed) + 1
    BY <1>1, <1>2, AppendProperties
  <1> QED
    BY <1>1, <1>2, <1>3

\* The hook is there after a registration, unless it has run already.
LEMMA HookTyped ==
  ASSUME Types, NEW feature \in Features, RegisterHook(feature)
  PROVE  /\ registered' \subseteq Features /\ hooks' \in Seq(Features)
         /\ \A f \in Features : InHooks(hooks', f) => f \in registered'
         /\ \A f \in Features : InHooks(hooks, f) => InHooks(hooks', f)
         /\ feature \in registered \/ InHooks(hooks', feature)
  <1>1. /\ registered \subseteq Features /\ hooks \in Seq(Features)
        /\ \A f \in Features : InHooks(hooks, f) => f \in registered
    BY DEF Types
  <1>2. registered' = registered \cup {feature}
    BY DEF RegisterHook
  <1>3. CASE feature \in registered
    <2>1. hooks' = hooks
      BY <1>3 DEF RegisterHook
    <2> QED
      BY <1>1, <1>2, <1>3, <2>1
  <1>4. CASE feature \notin registered
    <2>1. hooks' = Append(hooks, feature)
      BY <1>4 DEF RegisterHook
    <2>2. /\ hooks' \in Seq(Features) /\ InHooks(hooks', feature)
          /\ \A f \in Features : InHooks(hooks', f) <=> InHooks(hooks, f) \/ f = feature
      BY <1>1, <2>1, HookAppended
    <2> QED
      BY <1>1, <1>2, <2>2
  <1> QED
    BY <1>3, <1>4

\* The start of a process.
LEMMA MemoryTyped ==
  ASSUME NoMemory
  PROVE  /\ structs' \in Seq(Settings) /\ Len(structs') = 0 /\ shared' \in 0..Len(structs')
         /\ warned' \in BOOLEAN /\ installed' \in BOOLEAN /\ warnings' \in Nat
         /\ registered' \subseteq Features /\ hooks' \in Seq(Features) /\ spansWorker' = "none"
         /\ \A feature \in Features : InHooks(hooks', feature) => feature \in registered'
         /\ workerConfig' \in [performance : 0..Len(structs'), spans : 0..Len(structs')]
         /\ CallsTyped(call', Len(structs'))
         /\ user' = [t \in Threads |-> 0] /\ DOMAIN trail' = Threads /\ DOMAIN trace' = Threads
  <1>1. structs' = << >> /\ hooks' = << >> /\ Len(structs') = 0
    BY DEF NoMemory
  <1>2. CallsTyped(call', Len(structs'))
    BY <1>1, CallsIdle DEF NoMemory
  <1>3. \A feature \in Features : ~InHooks(hooks', feature)
    BY <1>1 DEF InHooks
  <1>4. workerConfig' \in [performance : 0..Len(structs'), spans : 0..Len(structs')]
    BY <1>1 DEF NoMemory, NoWorker
  <1>5. warned' \in BOOLEAN /\ installed' \in BOOLEAN
    BY DEF NoMemory
  <1>6. structs' \in Seq(Settings) /\ hooks' \in Seq(Features)
    BY <1>1
  <1> QED
    BY <1>1, <1>2, <1>3, <1>4, <1>5, <1>6 DEF NoMemory

LEMMA TypesStep ==
  ASSUME Types, HookWell, [Next]_vars
  PROVE  Types'
  <1> USE TrackerAssumption
  <1>0. /\ Len(structs) \in Nat /\ CallsTyped(call, Len(structs)) /\ structs \in Seq(Settings)
        /\ Environments \subseteq Settings /\ Changes \subseteq Settings
    BY LenProperties DEF Types
  <1>1. ASSUME NEW t \in Threads, NEW op \in Ops, Begin(t, op) PROVE Types'
    <2>1. CallsTyped(call', Len(structs))
      <3>1. CASE shared = 0
        <4> DEFINE n == Len(structs)
                   no == FALSE
        <4>1. "create" \in CallPcs /\ 0 \in 0..n /\ no \in BOOLEAN /\ n \in Nat /\ CallsTyped(call, n)
          BY <1>0 DEF CallPcs, GoneOn
        <4> HIDE DEF n, no
        <4>2. CallsTyped([call EXCEPT ![t] = At("create", op, 0, no)], n)
          BY <4>1, CallMoves
        <4> QED
          BY <1>1, <3>1, <4>2 DEF Begin, n, no
      <3>2. CASE shared # 0
        <4>1. shared \in 0..Len(structs)
          BY DEF Types
        <4>2. CallsTyped([call EXCEPT ![t] = With(op, shared)], Len(structs))
          BY <4>1, WithTyped
        <4> QED
          BY <1>1, <3>2, <4>2 DEF Begin
      <3> QED
        BY <3>1, <3>2
    <2>2. installed' \in BOOLEAN /\ overlap' \in BOOLEAN
      BY <1>1, Zenon DEF Begin
    <2>3. made' \in [Threads -> Nat]
      BY <1>1 DEF Begin, Calls, Types
    <2>4. UNCHANGED <<program, environment, structs, shared, warned, registered, hooks, workerConfig, spansWorker, user, trail,
                      trace, phase, asked, handed, warnings, missed, runs>>
      BY <1>1 DEF Begin, configuration, exitHooks, contents, wishes, notices
    <2> QED
      BY <2>1, <2>2, <2>3, <2>4 DEF Types
  <1>2. ASSUME NEW t \in Threads, Create(t) PROVE Types'
    <2> DEFINE n == Len(structs)
               m == n + 1
               no == FALSE
               op == call[t].op
    <2>1. /\ structs' = Append(structs, environment) /\ shared' = m /\ environment \in Settings
          /\ call' = [call EXCEPT ![t] = At("have", op, m, no)] /\ call[t].pc = "create"
      BY <1>2 DEF Create, Types
    <2>2. structs' \in Seq(Settings) /\ Len(structs') = m
      BY <1>0, <2>1, AppendProperties
    <2>3. /\ n \in Nat /\ m \in Nat /\ n <= m /\ m \in 0..m /\ no \in BOOLEAN /\ op \in Ops /\ CallsTyped(call, n)
          /\ "have" \in CallPcs
      BY <1>0, <2>1 DEF CallsTyped, CallPcs, GoneOn
    <2>4. \A i \in 0..n : i \in 0..m
      BY <2>3
    <2> HIDE DEF n, m, no, op
    <2>5. CallsTyped(call', m)
      BY <2>1, <2>3, CallMoves
    <2>6. workerConfig \in [performance : 0..m, spans : 0..m]
      BY <2>4 DEF Types, n
    <2>7. UNCHANGED <<program, environment, warned, installed, registered, hooks, workerConfig, spansWorker, user, trail,
                      trace, phase, asked, handed, warnings, overlap, missed, made, runs>>
      BY <1>2 DEF Create, exitHooks, contents, wishes, notices, history
    <2> QED
      BY <2>1, <2>2, <2>3, <2>5, <2>6, <2>7 DEF Types
  <1>3. ASSUME NEW t \in Threads, Have(t) PROVE Types'
    <2>1. PICK config \in {shared, call[t].config} : call' = [call EXCEPT ![t] = With(call[t].op, config)]
      BY <1>3 DEF Have
    <2>2. config \in 0..Len(structs) /\ call[t].op \in Ops
      BY <1>0, <1>3 DEF CallsTyped, Types, Have
    <2>3. CallsTyped(call', Len(structs))
      BY <2>1, <2>2, WithTyped
    <2>4. UNCHANGED <<program, environment, structs, shared, warned, installed, registered, hooks, workerConfig, spansWorker,
                      user, trail, trace, phase, asked, handed, warnings, overlap, missed, made, runs>>
      BY <1>3 DEF Have, configuration, exitHooks, contents, wishes, notices, history
    <2> QED
      BY <2>3, <2>4 DEF Types
  <1>4. ASSUME NEW t \in Threads, WarnCheck(t) PROVE Types'
    <2> DEFINE n == Len(structs)
               due == Misconfigured(structs[call[t].config])
               pc == IF due /\ ~warned THEN "exchange" ELSE "act"
               op == call[t].op
               config == call[t].config
    <2>1. call' = [call EXCEPT ![t] = At(pc, op, config, due)]
      BY <1>4 DEF WarnCheck
    <2>2. n \in Nat /\ CallsTyped(call, n) /\ config \in 0..n /\ op \in Ops
      BY <1>0, <1>4 DEF CallsTyped, WarnCheck
    <2>3. pc \in CallPcs
      BY DEF CallPcs, GoneOn
    <2>4. due \in BOOLEAN
      BY Zenon DEF Misconfigured
    <2> HIDE DEF n, due, pc, op, config
    <2>5. CallsTyped(call', n)
      <3>1. \A d \in BOOLEAN : CallsTyped([call EXCEPT ![t] = At(pc, op, config, d)], n)
        BY <2>2, <2>3, CallMoves
      <3> QED
        BY <2>1, <2>4, <3>1, Zenon
    <2>6. UNCHANGED <<program, environment, structs, shared, warned, installed, registered, hooks, workerConfig, spansWorker,
                      user, trail, trace, phase, asked, handed, warnings, overlap, missed, made, runs>>
      BY <1>4 DEF WarnCheck, configuration, exitHooks, contents, wishes, notices, history
    <2> QED
      BY <2>5, <2>6 DEF Types, n
  <1>5. ASSUME NEW t \in Threads, WarnExchange(t) PROVE Types'
    <2> DEFINE pc == IF warned THEN "act" ELSE "print"
    <2>1. call' = [call EXCEPT ![t].pc = pc] /\ warned' = TRUE /\ call[t].pc = "exchange"
      BY <1>5 DEF WarnExchange
    <2>2. pc \in CallPcs
      BY DEF CallPcs, GoneOn
    <2> HIDE DEF pc
    <2>3. CallsTyped(call', Len(structs))
      BY <2>1, <2>2, PcMoves
    <2>9. UNCHANGED <<program, environment, structs, shared, installed, registered, hooks, workerConfig, spansWorker,
                      user, trail, trace, phase, asked, handed, warnings, overlap, missed, made, runs>>
      BY <1>5 DEF WarnExchange, configuration, exitHooks, contents, wishes, notices, history
    <2> QED
      BY <2>1, <2>3, <2>9 DEF Types
  <1>26. ASSUME NEW t \in Threads, WarnPrint(t) PROVE Types'
    <2>1. CallsTyped(call', Len(structs))
      BY <1>26, PcMoves DEF WarnPrint, CallPcs, GoneOn
    <2>2. warnings' \in Nat
      BY <1>26 DEF WarnPrint, Types
    <2>9. UNCHANGED <<program, environment, structs, shared, warned, installed, registered, hooks, workerConfig,
                      spansWorker, user, trail, trace, phase, asked, handed, overlap, missed, made, runs>>
      BY <1>26 DEF WarnPrint, configuration, exitHooks, contents, wishes
    <2> QED
      BY <2>1, <2>2, <2>9 DEF Types
  <1>6. ASSUME NEW t \in Threads, Configure(t) PROVE Types'
    <2>1. PICK settings \in Changes :
            structs' = [structs EXCEPT ![call[t].config] = settings] /\ asked' = settings
      BY <1>6 DEF Configure
    <2>2. settings \in Settings /\ structs' \in Seq(Settings) /\ Len(structs') = Len(structs)
      <3>1. settings \in Settings
        BY <1>0
      <3>2. CASE call[t].config \in 1..Len(structs)
        BY <1>0, <2>1, <3>1, <3>2, ExceptSeq
      <3>3. CASE call[t].config \notin 1..Len(structs)
        <4>1. structs' = structs
          BY <1>0, <2>1, <3>3, LenProperties
        <4> QED
          BY <1>0, <3>1, <4>1
      <3> QED
        BY <3>2, <3>3
    <2>3. CallsTyped(call', Len(structs))
      BY <1>6, ReturnTyped DEF Configure, Return
    <2>9. UNCHANGED <<program, environment, shared, warned, installed, registered, hooks, workerConfig, spansWorker, user, trail,
                      trace, phase, handed, warnings, overlap, missed, made, runs>>
      BY <1>6 DEF Configure, configuration, exitHooks, contents, wishes, notices, history
    <2> QED
      BY <2>1, <2>2, <2>3, <2>9 DEF Types
  <1>7. ASSUME NEW t \in Threads, AddBreadcrumb(t) PROVE Types'
    <2>1. CallsTyped(call', Len(structs))
      BY <1>7, ReturnTyped DEF AddBreadcrumb, Return
    <2>2. handed' \in Seq(Settings) /\ Len(handed) \in Nat /\ user \in [Threads -> 0..Len(handed')]
      BY <1>7, HandTyped DEF AddBreadcrumb
    <2>3. DOMAIN trail' = Threads
      BY <1>7 DEF AddBreadcrumb, Types
    <2>9. UNCHANGED <<program, environment, shared, structs, warned, installed, registered, hooks, workerConfig, spansWorker,
                      user, trace, phase, asked, warnings, overlap, missed, made, runs>>
      BY <1>7 DEF AddBreadcrumb, configuration, exitHooks, contents, wishes, notices, history
    <2> QED
      BY <2>1, <2>2, <2>3, <2>9 DEF Types
  <1>8. ASSUME NEW t \in Threads, ClearBreadcrumbs(t) PROVE Types'
    <2>1. DOMAIN trail' = Threads /\ call' = call
      BY <1>8 DEF ClearBreadcrumbs, Types
    <2>9. UNCHANGED <<program, environment, shared, structs, warned, installed, registered, hooks, workerConfig, spansWorker,
                      user, trace, phase, asked, handed, warnings, overlap, missed, made, runs>>
      BY <1>8 DEF ClearBreadcrumbs, configuration, exitHooks, contents, wishes, notices, history
    <2> QED
      BY <2>1, <2>9 DEF Types
  <1>9. ASSUME NEW t \in Threads, SetUser(t) PROVE Types'
    <2>1. PICK of \in {0, NewText} : user' = [user EXCEPT ![t] = of]
      BY <1>9 DEF SetUser
    <2>2. /\ handed' \in Seq(Settings) /\ Len(handed) \in Nat /\ Len(handed') = Len(handed) + 1
          /\ user \in [Threads -> 0..Len(handed')]
      BY <1>9, HandTyped DEF SetUser
    <2>3. user' \in [Threads -> 0..Len(handed')]
      BY <2>1, <2>2 DEF NewText
    <2>4. made' \in [Threads -> Nat] /\ call' = call
      BY <1>9 DEF SetUser, Calls, Types
    <2>9. UNCHANGED <<program, environment, shared, structs, warned, installed, registered, hooks, workerConfig, spansWorker,
                      trail, trace, phase, asked, warnings, overlap, missed, runs>>
      BY <1>9 DEF SetUser, configuration, exitHooks, contents, wishes, notices, history
    <2> QED
      BY <2>2, <2>3, <2>4, <2>9 DEF Types
  <1>10. ASSUME NEW t \in Threads, Capture(t) PROVE Types'
    <2> DEFINE pc == IF ~Enabled(ConfigOf(t)) THEN "off" ELSE IF "upload" \in registered THEN "write" ELSE "hook"
    <2>1. call' = [call EXCEPT ![t].pc = pc] /\ call[t].pc = "act"
      BY <1>10 DEF Capture, Acting
    <2>2. pc \in CallPcs
      BY DEF CallPcs, GoneOn
    <2> HIDE DEF pc
    <2>3. CallsTyped(call', Len(structs))
      BY <2>1, <2>2, PcMoves
    <2>4. registered' \subseteq Features /\ registered \subseteq registered'
      BY <1>10 DEF Capture, Types, Features
    <2>9. UNCHANGED <<program, environment, shared, structs, warned, installed, hooks, workerConfig, spansWorker,
                      user, trail, trace, phase, asked, handed, warnings, overlap, missed, made, runs>>
      BY <1>10 DEF Capture, configuration, contents, wishes, notices, history
    <2> QED
      BY <2>3, <2>4, <2>9 DEF Types
  <1>27. ASSUME NEW t \in Threads, CaptureHook(t), "upload" \in registered PROVE Types'
    <2>1. CallsTyped(call', Len(structs))
      BY <1>27, PcMoves DEF CaptureHook, CallPcs, GoneOn
    <2>2. hooks' \in Seq(Features) /\ \A f \in Features : InHooks(hooks', f) => f \in registered
      BY <1>27, HookAppended DEF CaptureHook, Types, Features
    <2>9. UNCHANGED <<program, environment, shared, structs, warned, installed, registered, workerConfig, spansWorker,
                      user, trail, trace, phase, asked, handed, warnings, overlap, missed, made, runs>>
      BY <1>27 DEF CaptureHook, configuration, contents, wishes, notices, history
    <2> QED
      BY <2>1, <2>2, <2>9 DEF Types
  <1>28. ASSUME NEW t \in Threads, CaptureWrite(t) PROVE Types'
    <2>1. CallsTyped(call', Len(structs))
      BY <1>28, ReturnTyped DEF CaptureWrite, Return
    <2>2. handed' \in Seq(Settings) /\ Len(handed) \in Nat /\ user \in [Threads -> 0..Len(handed')]
      BY <1>28, HandTyped DEF CaptureWrite
    <2>3. missed' \in BOOLEAN
      <3>1. CASE missed' = (missed \/ Late("upload") \/ "upload" \notin registered)
        BY <3>1, Zenon
      <3>2. CASE UNCHANGED missed
        BY <3>2 DEF Types
      <3> QED
        BY <1>28, <3>1, <3>2 DEF CaptureWrite
    <2>9. UNCHANGED <<program, environment, shared, structs, warned, installed, registered, hooks, workerConfig,
                      spansWorker, user, trail, trace, phase, asked, warnings, overlap, made, runs>>
      BY <1>28 DEF CaptureWrite, configuration, exitHooks, wishes, notices
    <2> QED
      BY <2>1, <2>2, <2>3, <2>9 DEF Types
  <1>11. ASSUME NEW t \in Threads, RecordPerformance(t) PROVE Types'
    <2>1. CallsTyped(call', Len(structs))
      BY <1>11, ReturnTyped DEF RecordPerformance, Return
    <2>2. handed' \in Seq(Settings) /\ Len(handed) \in Nat /\ user \in [Threads -> 0..Len(handed')]
      BY <1>11, HandTyped DEF RecordPerformance
    <2>3. /\ registered' \subseteq Features /\ hooks' \in Seq(Features)
          /\ \A f \in Features : InHooks(hooks', f) => f \in registered'
      <3>1. CASE RegisterHook("performance")
        BY <3>1, HookTyped DEF Features
      <3>2. CASE UNCHANGED <<registered, hooks>>
        BY <3>2 DEF Types
      <3> QED
        BY <1>11, <3>1, <3>2 DEF RecordPerformance, exitHooks
    <2>4. missed' \in BOOLEAN
      <3>1. CASE missed' = (missed \/ Late("performance"))
        BY <3>1, Zenon
      <3>2. CASE UNCHANGED missed
        BY <3>2 DEF Types
      <3> QED
        BY <1>11, <3>1, <3>2 DEF RecordPerformance
    <2>5. workerConfig' \in [performance : 0..Len(structs), spans : 0..Len(structs)]
      <3>1. call[t].config \in 0..Len(structs) /\ workerConfig \in [performance : 0..Len(structs), spans : 0..Len(structs)]
        BY <1>0 DEF CallsTyped, Types
      <3>2. workerConfig' = [workerConfig EXCEPT !.performance = call[t].config] \/ workerConfig' = workerConfig
        BY <1>11 DEF RecordPerformance, exitHooks
      <3> QED
        BY <3>1, <3>2
    <2>9. UNCHANGED <<program, environment, shared, structs, warned, installed, spansWorker, user, trail, trace, phase, asked,
                      warnings, overlap, made, runs>>
      BY <1>11 DEF RecordPerformance, configuration, exitHooks, contents, wishes, notices, history
    <2> QED
      BY <2>1, <2>2, <2>3, <2>4, <2>5, <2>9 DEF Types
  <1>12. ASSUME NEW t \in Threads, TraceStart(t) PROVE Types'
    <2>1. CallsTyped(call', Len(structs))
      BY <1>12, ReturnTyped DEF TraceStart, Return
    <2>2. DOMAIN trace' = Threads
      BY <1>12 DEF TraceStart, Types
    <2>9. UNCHANGED <<program, environment, shared, structs, warned, installed, registered, hooks, workerConfig, spansWorker,
                      user, trail, phase, asked, handed, warnings, overlap, missed, made, runs>>
      BY <1>12 DEF TraceStart, configuration, exitHooks, contents, wishes, notices, history
    <2> QED
      BY <2>1, <2>2, <2>9 DEF Types
  <1>13. ASSUME NEW t \in Threads, RecordSpan(t) PROVE Types'
    <2>1. CallsTyped(call', Len(structs))
      BY <1>13, ReturnTyped DEF RecordSpan, Return
    <2>2. handed' \in Seq(Settings) /\ Len(handed) \in Nat /\ user \in [Threads -> 0..Len(handed')]
      BY <1>13, HandTyped DEF RecordSpan
    <2>3. DOMAIN trace' = Threads
      BY <1>13 DEF RecordSpan, Types
    <2>9. UNCHANGED <<program, environment, shared, structs, warned, installed, registered, hooks, workerConfig, spansWorker,
                      user, trail, phase, asked, warnings, overlap, missed, made, runs>>
      BY <1>13 DEF RecordSpan, configuration, exitHooks, contents, wishes, notices, history
    <2> QED
      BY <2>1, <2>2, <2>3, <2>9 DEF Types
  <1>14. ASSUME NEW t \in Threads, TraceStop(t) PROVE Types'
    <2>1. CallsTyped(call', Len(structs))
      BY <1>14, ReturnTyped DEF TraceStop, Return
    <2>2. handed' \in Seq(Settings) /\ Len(handed) \in Nat /\ user \in [Threads -> 0..Len(handed')]
      BY <1>14, HandTyped DEF TraceStop
    <2>3. /\ registered' \subseteq Features /\ hooks' \in Seq(Features)
          /\ \A f \in Features : InHooks(hooks', f) => f \in registered'
      <3>1. CASE RegisterHook("spans")
        BY <3>1, HookTyped DEF Features
      <3>2. CASE UNCHANGED <<registered, hooks>>
        BY <3>2 DEF Types
      <3> QED
        BY <1>14, <3>1, <3>2 DEF TraceStop, exitHooks
    <2>4. missed' \in BOOLEAN
      <3>1. CASE missed' = (missed \/ Late("spans"))
        BY <3>1, Zenon
      <3>2. CASE UNCHANGED missed
        BY <3>2 DEF Types
      <3> QED
        BY <1>14, <3>1, <3>2 DEF TraceStop
    <2>5. workerConfig' \in [performance : 0..Len(structs), spans : 0..Len(structs)]
      <3>1. call[t].config \in 0..Len(structs) /\ workerConfig \in [performance : 0..Len(structs), spans : 0..Len(structs)]
        BY <1>0 DEF CallsTyped, Types
      <3>2. workerConfig' = [workerConfig EXCEPT !.spans = call[t].config] \/ workerConfig' = workerConfig
        BY <1>14 DEF TraceStop, exitHooks
      <3> QED
        BY <3>1, <3>2
    <2>6. DOMAIN trace' = Threads
      BY <1>14 DEF TraceStop, Types
    <2>7. spansWorker' \in {"none", "running", "stopped"}
      BY <1>14 DEF TraceStop, exitHooks, Types
    <2>9. UNCHANGED <<program, environment, shared, structs, warned, installed, user, trail, phase, asked, warnings,
                      overlap, made, runs>>
      BY <1>14 DEF TraceStop, configuration, exitHooks, contents, wishes, notices, history
    <2> QED
      BY <2>1, <2>2, <2>3, <2>4, <2>5, <2>6, <2>7, <2>9 DEF Types
  <1>15. ASSUME NEW t \in Threads, Flush(t) PROVE Types'
    <2>1. CallsTyped(call', Len(structs))
      BY <1>15, ReturnTyped DEF Flush, Return
    <2>2. missed' \in BOOLEAN
      <3>1. PICK reports : FlushSamples(ConfigOf(t), sent \cup Payloads(ConfigOf(t), user[t], reports),
                                        missed \/ reports # disk)
        BY <1>15 DEF Flush
      <3>2. missed' = TRUE \/ missed' = (missed \/ reports # disk)
        BY <3>1 DEF FlushSamples
      <3> QED
        BY <3>2, Zenon
    <2>9. UNCHANGED <<program, environment, shared, structs, warned, installed, registered, hooks, workerConfig, spansWorker,
                      user, trail, trace, phase, asked, handed, warnings, overlap, made, runs>>
      BY <1>15 DEF Flush, configuration, exitHooks, contents, wishes, notices, history
    <2> QED
      BY <2>1, <2>2, <2>9 DEF Types
  <1>16. ASSUME NEW t \in Threads, UploadPending(t) PROVE Types'
    <2>1. CallsTyped(call', Len(structs))
      BY <1>16, ReturnTyped DEF UploadPending, Return
    <2>2. missed' \in BOOLEAN
      <3>1. PICK reports : missed' = (missed \/ reports # disk)
        BY <1>16 DEF UploadPending, Upload
      <3> QED
        BY <3>1, Zenon
    <2>9. UNCHANGED <<program, environment, shared, structs, warned, installed, registered, hooks, workerConfig, spansWorker,
                      user, trail, trace, phase, asked, handed, warnings, overlap, made, runs>>
      BY <1>16 DEF UploadPending, configuration, exitHooks, contents, wishes, notices, history
    <2> QED
      BY <2>1, <2>2, <2>9 DEF Types
  <1>17. ASSUME NEW t \in Threads, InstallHandlers(t) PROVE Types'
    <2>1. "upload" \in Ops /\ shared \in 0..Len(structs)
      BY DEF Ops, ActiveOps, Types
    <2>2. CallsTyped(call', Len(structs))
      BY <1>17, <2>1, WithTyped DEF InstallHandlers
    <2>9. UNCHANGED <<program, environment, shared, structs, warned, installed, registered, hooks, workerConfig, spansWorker,
                      user, trail, trace, phase, asked, handed, warnings, overlap, missed, made, runs>>
      BY <1>17 DEF InstallHandlers, configuration, exitHooks, contents, wishes, notices, history
    <2> QED
      BY <2>2, <2>9 DEF Types
  <1>18. ASSUME PerformanceWorker PROVE Types'
    <2>1. missed' \in BOOLEAN
      <3>1. missed' = TRUE \/ missed' = missed
        BY <1>18 DEF PerformanceWorker, FlushSamples
      <3> QED
        BY <3>1 DEF Types
    <2>2. call' = call
      BY <1>18 DEF PerformanceWorker
    <2>9. UNCHANGED <<program, environment, shared, structs, warned, installed, registered, hooks, workerConfig, spansWorker,
                      user, trail, trace, phase, asked, handed, warnings, overlap, made, runs>>
      BY <1>18 DEF PerformanceWorker, configuration, exitHooks, contents, wishes, notices, history
    <2> QED
      BY <2>1, <2>2, <2>9 DEF Types
  <1>19. ASSUME SpansWorker PROVE Types'
    <2>1. call' = call
      BY <1>19 DEF SpansWorker
    <2>9. UNCHANGED <<program, environment, shared, structs, warned, installed, registered, hooks, workerConfig, spansWorker,
                      user, trail, trace, phase, asked, handed, warnings, overlap, missed, made, runs>>
      BY <1>19 DEF SpansWorker, configuration, exitHooks, contents, wishes, notices, history
    <2> QED
      BY <2>1, <2>9 DEF Types
  <1>20. ASSUME NEW t \in Threads, Exit(t) PROVE Types'
    <2> DEFINE n == Len(structs)
               no == FALSE
    <2>1. n \in Nat /\ CallsTyped(call, n) /\ no \in BOOLEAN /\ 0 \in 0..n /\ "exit" \in CallPcs
      BY <1>0 DEF CallPcs, GoneOn
    <2>2. call' = [call EXCEPT ![t] = At("exit", "none", 0, no)] /\ phase' = "exiting"
      BY <1>20 DEF Exit
    <2> HIDE DEF n, no
    <2>3. CallsTyped([call EXCEPT ![t] = At("exit", "none", 0, no)], n)
      BY <2>1, CallMoves
    <2>4. CallsTyped(call', Len(structs))
      BY <2>2, <2>3 DEF n
    <2>9. UNCHANGED <<program, environment, shared, structs, warned, installed, registered, hooks, workerConfig, spansWorker,
                      user, trail, trace, asked, handed, warnings, overlap, missed, made, runs>>
      BY <1>20 DEF Exit, configuration, exitHooks, contents, wishes, notices, history
    <2> QED
      BY <2>2, <2>4, <2>9 DEF Types
  <1>21. ASSUME NEW t \in Threads, ExitHook(t) PROVE Types'
    <2>1. hooks' = SubSeq(hooks, 1, Len(hooks) - 1) /\ hooks # << >> /\ call' = call
      BY <1>21 DEF ExitHook
    <2>2. hooks' \in Seq(Features) /\ \A f \in Features : InHooks(hooks', f) => f \in registered
      BY <2>1, HookTaken DEF Types
    <2>3. missed' \in BOOLEAN
      <3>1. CASE Upload(structs[shared], user[t])
        <4>1. PICK reports : missed' = (missed \/ reports # disk)
          BY <3>1 DEF Upload
        <4> QED
          BY <4>1, Zenon
      <3>2. CASE FlushSamples(structs[workerConfig.performance], sent, missed)
        <4>1. missed' = TRUE \/ missed' = missed
          BY <3>2 DEF FlushSamples
        <4> QED
          BY <4>1 DEF Types
      <3>3. CASE UNCHANGED missed
        BY <3>3 DEF Types
      <3> QED
        BY <1>21, <3>1, <3>2, <3>3 DEF ExitHook
    <2>4. spansWorker' \in {"none", "running", "stopped"}
      BY <1>21 DEF ExitHook, Types
    <2>9. UNCHANGED <<program, environment, shared, structs, warned, installed, registered, workerConfig, user,
                      trail, trace, phase, asked, handed, warnings, overlap, made, runs>>
      BY <1>21 DEF ExitHook, configuration, exitHooks, contents, wishes, notices, history
    <2> QED
      BY <2>1, <2>2, <2>3, <2>4, <2>9 DEF Types
  <1>22. ASSUME ProcessEnd PROVE Types'
    <2>1. phase' = "ended" /\ call' = call
      BY <1>22 DEF ProcessEnd
    <2>9. UNCHANGED <<program, environment, shared, structs, warned, installed, registered, hooks, workerConfig, spansWorker,
                      user, trail, trace, asked, handed, warnings, overlap, missed, made, runs>>
      BY <1>22 DEF ProcessEnd, configuration, exitHooks, contents, wishes, notices, history
    <2> QED
      BY <2>1, <2>9 DEF Types
  <1>23. ASSUME NEW t \in Threads, FatalSignal(t) PROVE Types'
    <2>1. NoMemory /\ missed' = TRUE /\ phase' = "ended"
      BY <1>23 DEF FatalSignal
    <2>2. user' \in [Threads -> 0..Len(handed)]
      BY <2>1, LenProperties DEF NoMemory, Types
    <2>9. UNCHANGED <<program, environment, asked, handed, overlap, made, runs>>
      BY <1>23 DEF FatalSignal, configuration, exitHooks, contents, wishes, notices, history
    <2> QED
      BY <2>1, <2>2, MemoryTyped, <2>9 DEF Types
  <1>24. ASSUME Restart PROVE Types'
    <2>1. /\ NoMemory /\ missed' = FALSE /\ phase' = "running" /\ environment' \in Environments
          /\ asked' \in Settings
      BY <1>24 DEF Restart
    <2>2. user' \in [Threads -> 0..Len(handed)]
      BY <2>1, LenProperties DEF NoMemory, Types
    <2>3. runs' \in 1..MaxRuns
      BY <1>24 DEF Restart, Types
    <2>9. UNCHANGED <<program, handed, overlap, made>>
      BY <1>24 DEF Restart, configuration, exitHooks, contents, wishes, notices, history
    <2> QED
      BY <2>1, <2>2, <2>3, MemoryTyped, <2>9 DEF Types
  <1>25. CASE UNCHANGED vars
    BY <1>25 DEF vars, configuration, exitHooks, contents, wishes, notices, history, Types
  <1> QED
    BY <1>1, <1>2, <1>3, <1>4, <1>5, <1>6, <1>7, <1>8, <1>9, <1>10, <1>11, <1>12, <1>13, <1>14, <1>15, <1>16, <1>17,
       <1>18, <1>19, <1>20, <1>21, <1>22, <1>23, <1>24, <1>25, <1>26, <1>27, <1>28
    DEF Next, Terminated, HookWell, CaptureHook

-----------------------------------------------------------------------------
(***************************************************************************)
(* The warning.                                                            *)
(***************************************************************************)

\* What each step makes of the calls: those of the other threads stay.
LEMMA ReturnMoves ==
  ASSUME Types, NEW t \in Threads, Return(t)
  PROVE  call'[t].pc = "idle" /\ \A u \in Threads \ {t} : call'[u] = call[u]
  BY DEF Types, CallsTyped, Return, Idle, At

LEMMA WithMoves ==
  ASSUME Types, NEW t \in Threads, NEW op \in Ops, NEW config \in 0..Len(structs),
         call' = [call EXCEPT ![t] = With(op, config)]
  PROVE  /\ call'[t].pc \in {"warn", "act"} /\ call'[t].op = op /\ call'[t].config = config /\ ~call'[t].due
         /\ \A u \in Threads \ {t} : call'[u] = call[u]
  BY DEF Types, CallsTyped, With, At

\* A call that gives no warning goes on, returns or starts.
LEMMA WarnKept ==
  ASSUME WarnWell, NEW t \in Threads, call[t].pc # "print", call'[t].pc # "print",
         call'[t].pc \in GoneOn /\ call'[t].due => warned,
         \A u \in Threads \ {t} : call'[u] = call[u], UNCHANGED <<warned, warnings, unprinted>>
  PROVE  WarnWell'
  <1>1. (\E u \in Threads : call[u].pc = "print") => \E u \in Threads : call'[u].pc = "print"
    OBVIOUS
  <1>2. ASSUME NEW u \in Threads, call'[u].pc = "print"
        PROVE  warned /\ warnings = 0 /\ \A v \in Threads \ {u} : call'[v].pc # "print"
    BY <1>2 DEF WarnWell
  <1>3. ASSUME NEW u \in Threads, call'[u].pc \in GoneOn, call'[u].due PROVE warned
    BY <1>3 DEF WarnWell
  <1> QED
    BY <1>1, <1>2, <1>3 DEF WarnWell

LEMMA WarnStep ==
  ASSUME Types, WarnWell, [Next]_vars
  PROVE  WarnWell'
  <1>1. ASSUME NEW t \in Threads, NEW op \in Ops, Begin(t, op) PROVE WarnWell'
    <2>1. UNCHANGED <<warned, warnings, unprinted>> /\ call[t].pc # "print"
      BY <1>1 DEF Begin, Calls, Idle, At, notices
    <2>2. CASE shared = 0
      <3>1. call' = [call EXCEPT ![t] = At("create", op, 0, FALSE)]
        BY <1>1, <2>2 DEF Begin
      <3>2. call'[t].pc = "create" /\ \A u \in Threads \ {t} : call'[u] = call[u]
        BY <3>1 DEF Types, CallsTyped, At
      <3> QED
        BY <2>1, <3>2, WarnKept DEF GoneOn
    <2>3. CASE shared # 0
      <3>1. call' = [call EXCEPT ![t] = With(op, shared)] /\ shared \in 0..Len(structs)
        BY <1>1, <2>3 DEF Begin, Types
      <3>2. call'[t].pc \in {"warn", "act"} /\ ~call'[t].due /\ \A u \in Threads \ {t} : call'[u] = call[u]
        BY <3>1, WithMoves
      <3> QED
        BY <2>1, <3>2, WarnKept
    <2> QED
      BY <2>2, <2>3
  <1>2. ASSUME NEW t \in Threads, Create(t) PROVE WarnWell'
    <2>1. UNCHANGED <<warned, warnings, unprinted>> /\ call[t].pc = "create"
      BY <1>2 DEF Create, history, notices
    <2>2. call'[t].pc = "have" /\ \A u \in Threads \ {t} : call'[u] = call[u]
      BY <1>2 DEF Create, Types, CallsTyped, At
    <2> QED
      BY <2>1, <2>2, WarnKept DEF GoneOn
  <1>3. ASSUME NEW t \in Threads, Have(t) PROVE WarnWell'
    <2>1. UNCHANGED <<warned, warnings, unprinted>> /\ call[t].pc = "have"
      BY <1>3 DEF Have, history, notices
    <2>2. PICK config \in {shared, call[t].config} : call' = [call EXCEPT ![t] = With(call[t].op, config)]
      BY <1>3 DEF Have
    <2>3. config \in 0..Len(structs) /\ call[t].op \in Ops
      BY <1>3 DEF CallsTyped, Types, Have
    <2>4. call'[t].pc \in {"warn", "act"} /\ ~call'[t].due /\ \A u \in Threads \ {t} : call'[u] = call[u]
      BY <2>2, <2>3, WithMoves
    <2> QED
      BY <2>1, <2>4, WarnKept
  <1>4. ASSUME NEW t \in Threads, WarnCheck(t) PROVE WarnWell'
    <2> DEFINE due == Misconfigured(structs[call[t].config])
    <2>1. UNCHANGED <<warned, warnings, unprinted>> /\ call[t].pc = "warn"
      BY <1>4 DEF WarnCheck, history, notices
    <2>2. /\ call'[t].pc = IF due /\ ~warned THEN "exchange" ELSE "act"
          /\ call'[t].due = due /\ \A u \in Threads \ {t} : call'[u] = call[u]
      BY <1>4 DEF WarnCheck, Types, CallsTyped, At
    <2> HIDE DEF due
    <2>3. call'[t].pc # "print" /\ (call'[t].pc \in GoneOn /\ call'[t].due => warned)
      BY <2>2 DEF GoneOn
    <2> QED
      BY <2>1, <2>2, <2>3, WarnKept
  <1>5. ASSUME NEW t \in Threads, WarnExchange(t) PROVE WarnWell'
    <2> DEFINE pc == IF warned THEN "act" ELSE "print"
    <2>1. /\ call' = [call EXCEPT ![t].pc = pc] /\ warned' = TRUE /\ call[t].pc = "exchange"
          /\ UNCHANGED <<warnings, unprinted>>
      BY <1>5 DEF WarnExchange, history, notices
    <2>2. pc \in CallPcs /\ pc = IF warned THEN "act" ELSE "print"
      BY DEF CallPcs, GoneOn
    <2> HIDE DEF pc
    <2>3. call'[t].pc = pc /\ \A u \in Threads \ {t} : call'[u] = call[u]
      BY <2>1, <2>2, PcMoves
    <2>4. CASE warned
      <3>1. call'[t].pc = "act" /\ UNCHANGED warned
        BY <2>1, <2>2, <2>3, <2>4 DEF Types
      <3> QED
        BY <2>1, <2>3, <2>4, <3>1, WarnKept
    <2>5. CASE ~warned
      <3>1. call'[t].pc = "print" /\ warnings' = 0 /\ \A u \in Threads : call[u].pc # "print"
        BY <2>1, <2>2, <2>3, <2>5 DEF WarnWell
      <3> QED
        BY <2>1, <2>3, <3>1 DEF WarnWell
    <2> QED
      BY <2>4, <2>5
  <1>13. ASSUME NEW t \in Threads, WarnPrint(t) PROVE WarnWell'
    <2>1. /\ call'[t].pc = "act" /\ \A u \in Threads \ {t} : call'[u] = call[u]
          /\ call[t].pc = "print" /\ warned' = warned
      BY <1>13, PcMoves DEF WarnPrint, CallPcs, GoneOn
    <2>2. warned /\ warnings = 0 /\ \A u \in Threads : call'[u].pc # "print"
      BY <2>1 DEF WarnWell
    <2>3. (warnings' = 1 /\ unprinted' = unprinted) \/ (warnings' = 0 /\ unprinted')
      BY <1>13, <2>2 DEF WarnPrint
    <2> QED
      BY <2>1, <2>2, <2>3 DEF WarnWell
  <1>6. ASSUME NEW t \in Threads, Return(t), UNCHANGED <<warned, warnings, unprinted>>, call[t].pc # "print"
        PROVE  WarnWell'
    <2>1. call'[t].pc = "idle" /\ \A u \in Threads \ {t} : call'[u] = call[u]
      BY <1>6, ReturnMoves
    <2> QED
      BY <1>6, <2>1, WarnKept DEF GoneOn
  <1>7. ASSUME NEW t \in Threads,
               \/ Configure(t) \/ AddBreadcrumb(t) \/ CaptureWrite(t) \/ RecordPerformance(t) \/ TraceStart(t)
               \/ RecordSpan(t) \/ TraceStop(t) \/ Flush(t) \/ UploadPending(t)
        PROVE  WarnWell'
    <2>1. Return(t) /\ UNCHANGED <<warned, warnings, unprinted>> /\ call[t].pc # "print"
      BY <1>7 DEF Configure, AddBreadcrumb, CaptureWrite, RecordPerformance, TraceStart, RecordSpan, TraceStop, Flush,
                  UploadPending, Acting, notices
    <2> QED
      BY <1>6, <2>1
  <1>14. ASSUME NEW t \in Threads, NEW pc \in GoneOn, call' = [call EXCEPT ![t].pc = pc], call[t].pc \in GoneOn,
                UNCHANGED <<warned, warnings, unprinted>>
         PROVE  WarnWell'
    <2>1. /\ call'[t].pc = pc /\ call'[t].due = call[t].due /\ \A u \in Threads \ {t} : call'[u] = call[u]
      BY <1>14, PcMoves DEF CallPcs, GoneOn
    <2>2. call[t].pc # "print" /\ call'[t].pc # "print"
      BY <1>14, <2>1 DEF GoneOn
    <2>3. call'[t].due => warned
      BY <1>14, <2>1 DEF WarnWell
    <2> QED
      BY <1>14, <2>1, <2>2, <2>3, WarnKept
  <1>15. ASSUME NEW t \in Threads, Capture(t) \/ CaptureHook(t) PROVE WarnWell'
    <2>1. UNCHANGED <<warned, warnings, unprinted>> /\ call[t].pc \in GoneOn
      BY <1>15 DEF Capture, CaptureHook, Acting, GoneOn, history, notices
    <2>2. PICK pc \in {"off", "write", "hook"} : call' = [call EXCEPT ![t].pc = pc]
      BY <1>15 DEF Capture, CaptureHook
    <2> QED
      BY <1>14, <2>1, <2>2 DEF GoneOn
  <1>8. ASSUME NEW t \in Threads, ClearBreadcrumbs(t) \/ SetUser(t) \/ ExitHook(t) PROVE WarnWell'
    <2>1. call' = call /\ UNCHANGED <<warned, warnings, unprinted>>
      BY <1>8 DEF ClearBreadcrumbs, SetUser, ExitHook, history, notices
    <2> QED
      BY <2>1 DEF WarnWell
  <1>9. ASSUME NEW t \in Threads, InstallHandlers(t) PROVE WarnWell'
    <2>1. /\ call' = [call EXCEPT ![t] = With("upload", shared)] /\ shared \in 0..Len(structs) /\ "upload" \in Ops
          /\ call[t].pc = "act"
      BY <1>9 DEF InstallHandlers, Acting, Types, Ops, ActiveOps
    <2>2. call'[t].pc \in {"warn", "act"} /\ ~call'[t].due /\ \A u \in Threads \ {t} : call'[u] = call[u]
      BY <2>1, WithMoves
    <2>3. UNCHANGED <<warned, warnings, unprinted>>
      BY <1>9 DEF InstallHandlers, history, notices
    <2> QED
      BY <2>1, <2>2, <2>3, WarnKept
  <1>10. ASSUME NEW t \in Threads, Exit(t) PROVE WarnWell'
    <2>1. call'[t].pc = "exit" /\ call[t].pc # "print" /\ \A u \in Threads \ {t} : call'[u] = call[u]
      BY <1>10 DEF Exit, Idle, Types, CallsTyped, At
    <2>2. UNCHANGED <<warned, warnings, unprinted>>
      BY <1>10 DEF Exit, history, notices
    <2> QED
      BY <2>1, <2>2, WarnKept DEF GoneOn
  <1>11. CASE NoMemory
    <2>1. warned' = FALSE /\ warnings' = 0 /\ \A u \in Threads : call'[u].pc = "idle"
      BY <1>11 DEF NoMemory, Idle, At
    <2> QED
      BY <2>1 DEF WarnWell, GoneOn
  <1>12. CASE PerformanceWorker \/ SpansWorker \/ ProcessEnd \/ UNCHANGED vars
    <2>1. call' = call /\ UNCHANGED <<warned, warnings, unprinted>>
      BY <1>12 DEF PerformanceWorker, SpansWorker, ProcessEnd, history, notices, vars
    <2> QED
      BY <2>1 DEF WarnWell
  <1> QED
    BY <1>1, <1>2, <1>3, <1>4, <1>5, <1>7, <1>8, <1>9, <1>10, <1>11, <1>12, <1>13, <1>15
    DEF Next, Terminated, FatalSignal, Restart

-----------------------------------------------------------------------------
(***************************************************************************)
(* The exit.                                                               *)
(***************************************************************************)

\* A feature that is used before its hook has run has a hook to come.
LEMMA HookComes ==
  ASSUME Types, HookWell, NEW feature \in Features, RegisterHook(feature), phase # "ended",
         feature # "upload"
  PROVE  /\ phase = "running" => \A f \in registered' : InHooks(hooks', f) \/ Registering(f)
         /\ \A f \in Features : InHooks(hooks, f) => InHooks(hooks', f)
         /\ ~Late(feature) => InHooks(hooks', feature)
         /\ registered \subseteq registered'
  <1>1. /\ registered' = registered \cup {feature} /\ registered \subseteq Features
        /\ phase \in {"running", "exiting"}
    BY DEF RegisterHook, Types
  <1>2. /\ \A f \in Features : InHooks(hooks, f) => InHooks(hooks', f)
        /\ feature \in registered \/ InHooks(hooks', feature)
    BY HookTyped
  <1>3. phase = "running" => \A f \in registered : InHooks(hooks, f) \/ Registering(f)
    BY DEF HookWell, Comes
  <1>4. ~Late(feature) /\ feature \in registered => InHooks(hooks, feature)
    <2>1. ~Registering(feature)
      BY DEF Registering
    <2> QED
      BY <1>1, <1>3, <2>1 DEF Late, InHooks
  <1>5. ~Late(feature) => InHooks(hooks', feature)
    BY <1>2, <1>4
  <1>6. phase = "running" => \A f \in registered' : InHooks(hooks', f) \/ Registering(f)
    <2>1. phase = "running" => ~Late(feature)
      BY DEF Late
    <2> QED
      BY <1>1, <1>2, <1>3, <1>5, <2>1
  <1> QED
    BY <1>1, <1>2, <1>5, <1>6

\* Registering looks at the calls alone: one that moves elsewhere leaves it.
LEMMA RegisteringStays ==
  ASSUME NEW t \in Threads, call[t].pc # "hook", call'[t].pc # "hook",
         \A u \in Threads \ {t} : call'[u] = call[u], NEW feature
  PROVE  Registering(feature)' <=> Registering(feature)
  BY DEF Registering

\* A flush or an upload of which nothing is missed takes everything.
LEMMA FlushTakesAll ==
  ASSUME NEW c, NEW soFar, NEW missedSoFar \in BOOLEAN, FlushSamples(c, soFar, missedSoFar), ~missed'
  PROVE  buckets' = {} /\ ~missedSoFar
  BY DEF FlushSamples

LEMMA UploadTakesAll ==
  ASSUME NEW c, NEW who, Upload(c, who)
  PROVE  /\ disk' \subseteq disk
         /\ ~missed' => disk' = {} /\ ~missed
  <1>1. PICK reports \in Uploadable(c) : disk' = disk \ reports /\ missed' = (missed \/ reports # disk)
    BY DEF Upload
  <1>2. ~missed' => ~missed /\ reports = disk
    BY <1>1, Zenon
  <1> QED
    BY <1>1, <1>2

\* What a step must leave of the calls: who registers, and who has registered.
SameCallers ==
  /\ \A feature : Registering(feature)' <=> Registering(feature)
  /\ \A t \in Threads : call'[t].pc \in {"hook", "write"} => call[t].pc \in {"hook", "write"}

LEMMA ReturnKeeps ==
  ASSUME Types, NEW t \in Threads, Return(t), call[t].pc # "hook"
  PROVE  SameCallers
  <1>1. call'[t].pc = "idle" /\ \A u \in Threads \ {t} : call'[u] = call[u]
    BY ReturnMoves
  <1>2. \A feature : Registering(feature)' <=> Registering(feature)
    BY <1>1, RegisteringStays
  <1> QED
    BY <1>1, <1>2 DEF SameCallers

LEMMA SameKeeps ==
  ASSUME call' = call
  PROVE  SameCallers
  BY DEF SameCallers, Registering

LEMMA OnceAppended ==
  ASSUME NEW hk \in Seq(Features), NEW feature \in Features, Once(hk, "spans"),
         feature # "spans" \/ ~InHooks(hk, "spans")
  PROVE  Once(Append(hk, feature), "spans")
  <1> DEFINE after == Append(hk, feature)
  <1>1. /\ Len(hk) \in Nat /\ DOMAIN hk = 1..Len(hk) /\ DOMAIN after = 1..(Len(hk) + 1)
        /\ after[Len(hk) + 1] = feature /\ \A i \in 1..Len(hk) : after[i] = hk[i]
    BY AppendProperties, LenProperties
  <1> HIDE DEF after
  <1>2. ASSUME NEW i \in DOMAIN after, after[i] = "spans", feature # "spans"
        PROVE  i \in DOMAIN hk /\ hk[i] = "spans"
    BY <1>1, <1>2
  <1>3. ASSUME NEW i \in DOMAIN after, after[i] = "spans", ~InHooks(hk, "spans")
        PROVE  i = Len(hk) + 1
    <2>1. i \notin DOMAIN hk
      BY <1>1, <1>3 DEF InHooks
    <2> QED
      BY <1>1, <2>1
  <1>4. ASSUME feature # "spans" PROVE Once(after, "spans")
    BY <1>2, <1>4 DEF Once
  <1>5. ASSUME ~InHooks(hk, "spans") PROVE Once(after, "spans")
    BY <1>3, <1>5 DEF Once
  <1>6. Once(after, "spans")
    BY <1>4, <1>5
  <1> QED
    BY <1>6 DEF after

LEMMA OnceTaken ==
  ASSUME NEW hk \in Seq(Features), hk # << >>, Once(hk, "spans")
  PROVE  LET after == SubSeq(hk, 1, Len(hk) - 1)
         IN Once(after, "spans") /\ (hk[Len(hk)] = "spans" => ~InHooks(after, "spans"))
  <1> DEFINE after == SubSeq(hk, 1, Len(hk) - 1)
  <1>1. Len(hk) \in Nat \ {0} /\ DOMAIN hk = 1..Len(hk)
    BY LenProperties, EmptySeq
  <1>2. DOMAIN after = 1..(Len(hk) - 1) /\ \A i \in 1..(Len(hk) - 1) : after[i] = hk[i]
    BY <1>1
  <1> HIDE DEF after
  <1>3. Once(after, "spans")
    BY <1>1, <1>2 DEF Once
  <1>4. ASSUME hk[Len(hk)] = "spans", InHooks(after, "spans") PROVE FALSE
    <2>1. PICK i \in DOMAIN after : after[i] = "spans"
      BY <1>4 DEF InHooks
    <2>2. i \in DOMAIN hk /\ Len(hk) \in DOMAIN hk /\ hk[i] = "spans" /\ i # Len(hk)
      BY <1>1, <1>2, <2>1
    <2> QED
      BY <1>4, <2>2 DEF Once
  <1> QED
    BY <1>3, <1>4 DEF after

LEMMA SpansStep ==
  ASSUME Types, SpansWell, [Next]_vars
  PROVE  SpansWell'
  <1>1. CASE UNCHANGED <<hooks, spansWorker>> /\ registered \subseteq registered'
    BY <1>1 DEF SpansWell
  <1>2. ASSUME NEW feature \in Features, RegisterHook(feature)
        PROVE  /\ Once(hooks', "spans") /\ registered \subseteq registered'
               /\ spansWorker = "stopped" => "spans" \in registered' /\ ~InHooks(hooks', "spans")
    <2>1. CASE feature \in registered
      BY <1>2, <2>1 DEF RegisterHook, SpansWell
    <2>2. CASE feature \notin registered
      <3>1. hooks' = Append(hooks, feature) /\ hooks \in Seq(Features) /\ registered' = registered \cup {feature}
        BY <1>2, <2>2 DEF RegisterHook, Types
      <3>2. feature # "spans" \/ ~InHooks(hooks, "spans")
        BY <2>2 DEF Types, Features
      <3>3. Once(hooks', "spans")
        BY <3>1, <3>2, OnceAppended DEF SpansWell
      <3>4. spansWorker = "stopped" => feature # "spans" /\ ~InHooks(hooks', "spans")
        BY <2>2, <3>1, HookAppended DEF SpansWell, Features
      <3> QED
        BY <3>1, <3>3, <3>4 DEF SpansWell
    <2> QED
      BY <2>1, <2>2
  <1>3. ASSUME NEW t \in Threads, RecordPerformance(t) PROVE SpansWell'
    <2>1. CASE RegisterHook("performance")
      <3>1. spansWorker' = spansWorker
        BY <1>3 DEF RecordPerformance
      <3> QED
        BY <1>2, <2>1, <3>1 DEF SpansWell, Features
    <2>2. CASE UNCHANGED <<registered, hooks>>
      BY <1>1, <1>3, <2>2 DEF RecordPerformance
    <2> QED
      BY <1>3, <2>1, <2>2 DEF RecordPerformance
  <1>4. ASSUME NEW t \in Threads, TraceStop(t) PROVE SpansWell'
    <2>1. CASE RegisterHook("spans") /\ spansWorker' \in IF spansWorker = "none" THEN {"none", "running"} ELSE {spansWorker}
      <3>1. spansWorker' = "stopped" => spansWorker = "stopped"
        BY <2>1
      <3> QED
        BY <1>2, <2>1, <3>1 DEF SpansWell, Features
    <2>2. CASE UNCHANGED exitHooks
      BY <1>1, <2>2 DEF exitHooks
    <2> QED
      BY <1>4, <2>1, <2>2 DEF TraceStop
  <1>5. ASSUME NEW t \in Threads, CaptureHook(t) PROVE SpansWell'
    <2>1. hooks' = Append(hooks, "upload") /\ hooks \in Seq(Features) /\ UNCHANGED <<registered, spansWorker>>
      BY <1>5 DEF CaptureHook, Types
    <2>2. Once(hooks', "spans")
      BY <2>1, OnceAppended DEF SpansWell, Features
    <2>3. InHooks(hooks', "spans") => InHooks(hooks, "spans")
      BY <2>1, HookAppended DEF Features
    <2> QED
      BY <2>1, <2>2, <2>3 DEF SpansWell
  <1>6. ASSUME NEW t \in Threads, ExitHook(t) PROVE SpansWell'
    <2>1. /\ hooks' = SubSeq(hooks, 1, Len(hooks) - 1) /\ hooks # << >> /\ hooks \in Seq(Features)
          /\ registered' = registered
      BY <1>6 DEF ExitHook, Types
    <2>2. Once(hooks', "spans") /\ (hooks[Len(hooks)] = "spans" => ~InHooks(hooks', "spans"))
      BY <2>1, OnceTaken DEF SpansWell
    <2>3. InHooks(hooks', "spans") => InHooks(hooks, "spans")
      BY <2>1, HookTaken DEF Features
    <2>4. CASE UNCHANGED spansWorker
      BY <2>1, <2>2, <2>3, <2>4 DEF SpansWell
    <2>5. CASE hooks[Len(hooks)] = "spans"
      <3>1. "spans" \in registered
        <4>1. Len(hooks) \in DOMAIN hooks
          BY <2>1, LenProperties, EmptySeq
        <4> QED
          BY <2>5, <4>1 DEF Types, InHooks, Features
      <3> QED
        BY <2>1, <2>2, <2>5, <3>1 DEF SpansWell
    <2> QED
      BY <1>6, <2>4, <2>5 DEF ExitHook
  <1>7. CASE NoMemory
    <2>1. hooks' = << >> /\ spansWorker' = "none"
      BY <1>7 DEF NoMemory
    <2>2. Once(hooks', "spans")
      BY <2>1 DEF Once
    <2> QED
      BY <2>1, <2>2 DEF SpansWell
  <1>8. ASSUME NEW t \in Threads,
               \/ Create(t) \/ Have(t) \/ WarnCheck(t) \/ WarnExchange(t) \/ WarnPrint(t) \/ Configure(t)
               \/ AddBreadcrumb(t) \/ ClearBreadcrumbs(t) \/ SetUser(t) \/ Capture(t) \/ CaptureWrite(t)
        PROVE  SpansWell'
    BY <1>1, <1>8 DEF Create, Have, WarnCheck, WarnExchange, WarnPrint, Configure, AddBreadcrumb, ClearBreadcrumbs,
                      SetUser, Capture, CaptureWrite, exitHooks
  <1>9. ASSUME NEW t \in Threads,
               \/ TraceStart(t) \/ RecordSpan(t) \/ Flush(t) \/ UploadPending(t) \/ InstallHandlers(t) \/ Exit(t)
        PROVE  SpansWell'
    BY <1>1, <1>9 DEF TraceStart, RecordSpan, Flush, UploadPending, InstallHandlers, Exit, exitHooks
  <1>10. ASSUME NEW t \in Threads, NEW op \in Ops, Begin(t, op) PROVE SpansWell'
    BY <1>1, <1>10 DEF Begin, exitHooks
  <1>11. CASE PerformanceWorker \/ SpansWorker \/ ProcessEnd \/ UNCHANGED vars
    BY <1>1, <1>11 DEF PerformanceWorker, SpansWorker, ProcessEnd, exitHooks, vars
  <1> QED
    BY <1>3, <1>4, <1>5, <1>6, <1>7, <1>8, <1>9, <1>10, <1>11 DEF Next, Terminated, FatalSignal, Restart

LEMMA HookStep ==
  ASSUME Types, SpansWell, HookWell, [Next]_vars
  PROVE  HookWell'
  <1>1. ASSUME SameCallers, UNCHANGED <<phase, registered, hooks, spansWorker, disk, runs, missed, buckets, queue>>
        PROVE  HookWell'
    BY <1>1 DEF HookWell, Comes, SameCallers
  <1>2. ASSUME NEW t \in Threads, CaptureWrite(t) PROVE HookWell'
    <2>1. /\ UNCHANGED <<phase, registered, hooks, spansWorker, runs, buckets, queue>> /\ phase # "ended"
          /\ Return(t) /\ call[t].pc # "hook"
      BY <1>2 DEF CaptureWrite, exitHooks
    <2>2. SameCallers
      BY <2>1, ReturnKeeps
    <2>3. CASE ~Enabled(ConfigOf(t))
      BY <1>1, <1>2, <2>1, <2>2, <2>3 DEF CaptureWrite
    <2>4. CASE Enabled(ConfigOf(t))
      <3>1. PICK items : disk' = disk \cup {Report(FALSE, items)}
        BY <1>2, <2>4 DEF CaptureWrite
      <3>2. missed' = (missed \/ Late("upload") \/ "upload" \notin registered)
        BY <1>2, <2>4 DEF CaptureWrite
      <3>3. ~missed' => ~missed /\ ~Late("upload") /\ "upload" \in registered
        BY <3>2, Zenon
      <3>4. ~missed' => Comes("upload")
        <4>1. phase \in {"running", "exiting"}
          BY <2>1 DEF Types
        <4> QED
          BY <3>3, <4>1 DEF Late, InHooks, Comes, HookWell
      <3>5. \A report \in disk' : report.run \in 1..runs
        BY <3>1 DEF HookWell, Report, Types
      <3>6. Comes("upload") => Comes("upload")'
        BY <2>1, <2>2 DEF Comes, SameCallers
      <3>7. phase = "running" => \A feature \in registered : Comes(feature)'
        BY <2>1, <2>2 DEF Comes, SameCallers, HookWell
      <3> QED
        BY <2>1, <2>2, <3>3, <3>4, <3>5, <3>6, <3>7 DEF HookWell, SameCallers
    <2> QED
      BY <2>3, <2>4
  <1>3. ASSUME NEW t \in Threads, RecordPerformance(t) PROVE HookWell'
    <2>1. /\ UNCHANGED <<phase, runs, disk, queue, spansWorker>> /\ phase # "ended"
          /\ Return(t) /\ call[t].pc # "hook"
      BY <1>3 DEF RecordPerformance, Acting
    <2>2. SameCallers
      BY <2>1, ReturnKeeps
    <2>3. CASE ~Enabled(ConfigOf(t))
      BY <1>1, <1>3, <2>1, <2>2, <2>3 DEF RecordPerformance
    <2>4. CASE Enabled(ConfigOf(t))
      <3>1. RegisterHook("performance") /\ missed' = (missed \/ Late("performance"))
        BY <1>3, <2>4 DEF RecordPerformance
      <3>2. /\ phase = "running" => \A f \in registered' : InHooks(hooks', f) \/ Registering(f)
            /\ \A f \in Features : InHooks(hooks, f) => InHooks(hooks', f)
            /\ ~Late("performance") => InHooks(hooks', "performance")
            /\ registered \subseteq registered'
        BY <2>1, <3>1, HookComes DEF Features
      <3>3. ~missed' => ~missed /\ InHooks(hooks', "performance")
        BY <3>1, <3>2, Zenon
      <3> QED
        BY <2>1, <2>2, <3>2, <3>3 DEF HookWell, Comes, SameCallers, Features
    <2> QED
      BY <2>3, <2>4
  <1>4. ASSUME NEW t \in Threads, TraceStop(t) PROVE HookWell'
    <2>1. /\ UNCHANGED <<phase, runs, disk, buckets>> /\ phase # "ended"
          /\ Return(t) /\ call[t].pc # "hook"
      BY <1>4 DEF TraceStop, Acting
    <2>2. SameCallers
      BY <2>1, ReturnKeeps
    <2>3. CASE UNCHANGED <<queue, exitHooks, missed>>
      BY <1>1, <2>1, <2>2, <2>3 DEF exitHooks
    <2>4. CASE RegisterHook("spans") /\ missed' = (missed \/ Late("spans"))
      <3>1. /\ phase = "running" => \A f \in registered' : InHooks(hooks', f) \/ Registering(f)
            /\ \A f \in Features : InHooks(hooks, f) => InHooks(hooks', f)
            /\ ~Late("spans") => InHooks(hooks', "spans")
            /\ registered \subseteq registered'
        BY <2>1, <2>4, HookComes DEF Features
      <3>2. ~missed' => ~missed /\ InHooks(hooks', "spans")
        BY <2>4, <3>1, Zenon
      <3> QED
        BY <2>1, <2>2, <3>1, <3>2 DEF HookWell, Comes, SameCallers, Features
    <2> QED
      BY <1>4, <2>3, <2>4 DEF TraceStop
  <1>5. ASSUME NEW t \in Threads, Flush(t) PROVE HookWell'
    <2> DEFINE c == ConfigOf(t)
    <2>1. PICK reports \in Uploadable(c) :
            /\ disk' = disk \ reports
            /\ FlushSamples(c, sent \cup Payloads(c, user[t], reports), missed \/ reports # disk)
      BY <1>5 DEF Flush
    <2>2. (missed \/ reports # disk) \in BOOLEAN
      BY Zenon
    <2>3. ~missed' => buckets' = {} /\ ~missed /\ reports = disk
      <3> DEFINE soFar == sent \cup Payloads(c, user[t], reports)
                 missedSoFar == missed \/ reports # disk
      <3>1. missedSoFar \in BOOLEAN /\ FlushSamples(c, soFar, missedSoFar)
        BY <2>1, <2>2
      <3>2. ~missedSoFar => ~missed /\ reports = disk
        OBVIOUS
      <3> HIDE DEF soFar, missedSoFar
      <3>3. ~missed' => buckets' = {} /\ ~missedSoFar
        BY <3>1 DEF FlushSamples
      <3> QED
        BY <3>2, <3>3
    <2>4. /\ UNCHANGED <<phase, registered, hooks, runs, queue, spansWorker>> /\ phase # "ended"
          /\ Return(t) /\ call[t].pc # "hook"
      BY <1>5 DEF Flush, Acting, exitHooks
    <2>5. SameCallers
      BY <2>4, ReturnKeeps
    <2> QED
      BY <2>1, <2>3, <2>4, <2>5 DEF HookWell, Comes, SameCallers
  <1>6. ASSUME NEW t \in Threads, UploadPending(t) PROVE HookWell'
    <2>1. disk' \subseteq disk /\ (~missed' => disk' = {} /\ ~missed)
      BY <1>6, UploadTakesAll DEF UploadPending
    <2>2. /\ UNCHANGED <<phase, registered, hooks, runs, queue, buckets, spansWorker>> /\ phase # "ended"
          /\ Return(t) /\ call[t].pc # "hook"
      BY <1>6 DEF UploadPending, Acting, exitHooks
    <2>3. SameCallers
      BY <2>2, ReturnKeeps
    <2> QED
      BY <2>1, <2>2, <2>3 DEF HookWell, Comes, SameCallers
  <1>7. CASE PerformanceWorker
    <2>1. ~missed' => buckets' = {} /\ ~missed
      BY <1>7 DEF PerformanceWorker, FlushSamples
    <2>2. UNCHANGED <<phase, registered, hooks, runs, queue, disk, spansWorker, call>> /\ phase # "ended"
      BY <1>7 DEF PerformanceWorker, exitHooks
    <2>3. SameCallers
      BY <2>2, SameKeeps
    <2> QED
      BY <2>1, <2>2, <2>3 DEF HookWell, Comes, SameCallers
  <1>8. CASE SpansWorker
    <2>1. queue' = {} /\ UNCHANGED <<phase, registered, hooks, runs, buckets, disk, missed, spansWorker, call>>
      BY <1>8 DEF SpansWorker, DeliverQueue, exitHooks
    <2>2. SameCallers
      BY <2>1, SameKeeps
    <2> QED
      BY <2>1, <2>2 DEF HookWell, Comes, SameCallers
  <1>9. ASSUME NEW t \in Threads, Exit(t) PROVE HookWell'
    <2>1. /\ phase' = "exiting"
          /\ UNCHANGED <<registered, hooks, spansWorker, disk, runs, missed, buckets, queue>>
      BY <1>9 DEF Exit, exitHooks, contents, history
    <2>2. /\ call[t].pc = "idle" /\ call'[t].pc = "exit" /\ \A u \in Threads \ {t} : call'[u] = call[u]
      BY <1>9 DEF Exit, Idle, Types, CallsTyped, At
    <2>3. \A feature : Registering(feature)' <=> Registering(feature)
      BY <2>2, RegisteringStays
    <2>4. SameCallers
      BY <2>2, <2>3 DEF SameCallers
    <2> QED
      BY <2>1, <2>4 DEF HookWell, Comes, SameCallers
  <1>10. ASSUME NEW t \in Threads, ExitHook(t) PROVE HookWell'
    <2>1. /\ hooks' = SubSeq(hooks, 1, Len(hooks) - 1) /\ hooks # << >> /\ hooks \in Seq(Features)
          /\ phase' = "exiting" /\ UNCHANGED <<runs, registered, call>>
      BY <1>10 DEF ExitHook, Types
    <2>2. \A f \in Features : InHooks(hooks, f) => InHooks(hooks', f) \/ f = hooks[Len(hooks)]
      BY <2>1, HookTaken
    <2>3. SameCallers
      BY <2>1, SameKeeps
    <2>4. CASE /\ hooks[Len(hooks)] = "upload" /\ Upload(structs[shared], user[t])
               /\ UNCHANGED <<buckets, queue, spansWorker>>
      <3>1. disk' \subseteq disk /\ (~missed' => disk' = {} /\ ~missed)
        BY <2>4, UploadTakesAll
      <3> QED
        BY <2>1, <2>2, <2>3, <2>4, <3>1 DEF HookWell, Comes, SameCallers, Features
    <2>5. CASE /\ hooks[Len(hooks)] = "performance" /\ FlushSamples(structs[workerConfig.performance], sent, missed)
               /\ UNCHANGED <<queue, disk, spansWorker>>
      <3>1. ~missed' => buckets' = {} /\ ~missed
        BY <2>5 DEF FlushSamples
      <3> QED
        BY <2>1, <2>2, <2>3, <2>5, <3>1 DEF HookWell, Comes, SameCallers, Features
    <2>6. CASE /\ hooks[Len(hooks)] = "spans" /\ UNCHANGED <<buckets, disk, missed>>
               /\ IF spansWorker = "running" THEN DeliverQueue /\ spansWorker' = "stopped"
                  ELSE UNCHANGED <<queue, sent, spansWorker>>
      <3>1. CASE spansWorker = "running"
        <4>1. queue' = {}
          BY <2>6, <3>1 DEF DeliverQueue
        <4> QED
          BY <2>1, <2>2, <2>3, <2>6, <4>1 DEF HookWell, Comes, SameCallers, Features
      <3>2. CASE spansWorker # "running"
        <4>1. InHooks(hooks, "spans")
          <5>1. Len(hooks) \in DOMAIN hooks
            BY <2>1, LenProperties, EmptySeq
          <5> QED
            BY <2>6, <5>1 DEF InHooks
        <4>2. spansWorker = "none"
          BY <3>2, <4>1 DEF SpansWell, Types
        <4> QED
          BY <2>1, <2>2, <2>3, <2>6, <4>2 DEF HookWell, Comes, SameCallers, Features
      <3> QED
        BY <3>1, <3>2
    <2> QED
      BY <1>10, <2>4, <2>5, <2>6 DEF ExitHook
  <1>11. CASE ProcessEnd
    <2>1. /\ phase' = "ended" /\ hooks = << >>
          /\ UNCHANGED <<registered, hooks, spansWorker, disk, runs, missed, buckets, queue, call>>
      BY <1>11 DEF ProcessEnd, exitHooks, contents, history
    <2>2. SameCallers
      BY <2>1, SameKeeps
    <2> QED
      BY <2>1, <2>2 DEF HookWell, Comes, SameCallers
  <1>12. ASSUME NEW t \in Threads, FatalSignal(t) PROVE HookWell'
    <2>1. missed' = TRUE /\ phase' = "ended" /\ runs' = runs /\ \A u \in Threads : call'[u].pc = "idle"
      BY <1>12 DEF FatalSignal, NoMemory, Idle, At
    <2>2. disk' = disk \/ disk' = disk \cup {Report(TRUE, trail[t])}
      BY <1>12 DEF FatalSignal
    <2>3. \A report \in disk' : report.run \in 1..runs
      BY <2>2 DEF HookWell, Report, Types
    <2> QED
      BY <2>1, <2>3 DEF HookWell
  <1>13. CASE Restart
    <2>1. /\ registered' = {} /\ hooks' = << >> /\ buckets' = {} /\ queue' = {} /\ disk' = disk
          /\ runs' = runs + 1 /\ phase' = "running" /\ \A u \in Threads : call'[u].pc = "idle"
      BY <1>13 DEF Restart, NoMemory, Idle, At
    <2>2. \A report \in disk' : report.run \in 1..runs' /\ report.run # runs'
      BY <2>1 DEF HookWell, Types
    <2> QED
      BY <2>1, <2>2 DEF HookWell
  <1>14. ASSUME NEW t \in Threads, call[t].pc # "hook", call'[t].pc \notin {"hook", "write"},
                \A u \in Threads \ {t} : call'[u] = call[u],
                UNCHANGED <<phase, registered, hooks, spansWorker, disk, runs, missed, buckets, queue>>
         PROVE  HookWell'
    <2>1. \A feature : Registering(feature)' <=> Registering(feature)
      BY <1>14, RegisteringStays
    <2>2. SameCallers
      BY <1>14, <2>1 DEF SameCallers
    <2> QED
      BY <1>1, <1>14, <2>2
  <1>15. ASSUME NEW t \in Threads, NEW op \in Ops, Begin(t, op) PROVE HookWell'
    <2>1. /\ UNCHANGED <<phase, registered, hooks, spansWorker, disk, runs, missed, buckets, queue>>
          /\ call[t].pc = "idle"
      BY <1>15 DEF Begin, Calls, Idle, At, exitHooks, contents
    <2>2. call'[t].pc \in {"create", "warn", "act"} /\ \A u \in Threads \ {t} : call'[u] = call[u]
      BY <1>15 DEF Begin, Types, CallsTyped, With, At
    <2> QED
      BY <1>14, <2>1, <2>2
  <1>16. ASSUME NEW t \in Threads, Create(t) \/ Have(t) \/ WarnCheck(t) \/ InstallHandlers(t) PROVE HookWell'
    <2>1. /\ UNCHANGED <<phase, registered, hooks, spansWorker, disk, runs, missed, buckets, queue>>
          /\ call[t].pc # "hook"
      BY <1>16 DEF Create, Have, WarnCheck, InstallHandlers, Acting, exitHooks, contents, history
    <2>2. call'[t].pc \in {"have", "warn", "exchange", "act"} /\ \A u \in Threads \ {t} : call'[u] = call[u]
      BY <1>16 DEF Create, Have, WarnCheck, InstallHandlers, Types, CallsTyped, With, At
    <2> QED
      BY <1>14, <2>1, <2>2
  <1>17. ASSUME NEW t \in Threads, WarnExchange(t) \/ WarnPrint(t) PROVE HookWell'
    <2>1. /\ UNCHANGED <<phase, registered, hooks, spansWorker, disk, runs, missed, buckets, queue>>
          /\ call[t].pc \in {"exchange", "print"}
      BY <1>17 DEF WarnExchange, WarnPrint, exitHooks, contents, history
    <2>2. PICK pc \in {"act", "print"} : call' = [call EXCEPT ![t].pc = pc]
      BY <1>17 DEF WarnExchange, WarnPrint
    <2>3. call'[t].pc = pc /\ \A u \in Threads \ {t} : call'[u] = call[u]
      BY <2>1, <2>2, PcMoves DEF CallPcs, GoneOn
    <2> QED
      BY <1>14, <2>1, <2>2, <2>3
  <1>18. ASSUME NEW t \in Threads, Configure(t) \/ AddBreadcrumb(t) \/ TraceStart(t) \/ RecordSpan(t)
         PROVE  HookWell'
    <2>1. /\ UNCHANGED <<phase, registered, hooks, spansWorker, disk, runs, missed, buckets, queue>>
          /\ Return(t) /\ call[t].pc # "hook"
      BY <1>18 DEF Configure, AddBreadcrumb, TraceStart, RecordSpan, Acting, exitHooks, contents
    <2> QED
      BY <1>1, <2>1, ReturnKeeps
  <1>19. ASSUME NEW t \in Threads, ClearBreadcrumbs(t) \/ SetUser(t) PROVE HookWell'
    <2>1. UNCHANGED <<phase, registered, hooks, spansWorker, disk, runs, missed, buckets, queue, call>>
      BY <1>19 DEF ClearBreadcrumbs, SetUser, exitHooks, history
    <2> QED
      BY <1>1, <2>1, SameKeeps
  <1>20. CASE UNCHANGED vars
    <2>1. UNCHANGED <<phase, registered, hooks, spansWorker, disk, runs, missed, buckets, queue, call>>
      BY <1>20 DEF vars, exitHooks, contents, history
    <2> QED
      BY <1>1, <2>1, SameKeeps
  <1>21. ASSUME NEW t \in Threads, Capture(t) PROVE HookWell'
    <2> DEFINE pc == IF ~Enabled(ConfigOf(t)) THEN "off" ELSE IF "upload" \in registered THEN "write" ELSE "hook"
    <2>1. /\ UNCHANGED <<phase, hooks, spansWorker, disk, runs, missed, buckets, queue>>
          /\ call' = [call EXCEPT ![t].pc = pc] /\ call[t].pc = "act"
          /\ registered' = IF Enabled(ConfigOf(t)) THEN registered \cup {"upload"} ELSE registered
      BY <1>21 DEF Capture, Acting, contents, history
    <2>2. /\ pc \in CallPcs /\ (pc \in {"hook", "write"} => "upload" \in registered')
          /\ ("upload" \in registered' => pc = "hook" \/ "upload" \in registered)
          /\ \A f \in registered' : f = "upload" \/ f \in registered
      BY <2>1 DEF CallPcs, GoneOn
    <2> HIDE DEF pc
    <2>3. call'[t].pc = pc /\ \A u \in Threads \ {t} : call'[u] = call[u]
      BY <2>1, <2>2, PcMoves
    <2>4. \A f : Registering(f) => Registering(f)'
      BY <2>1, <2>3 DEF Registering
    <2>5. \A f : Comes(f) => Comes(f)'
      BY <2>1, <2>4 DEF Comes
    <2>6. pc = "hook" => Comes("upload")'
      BY <2>3 DEF Comes, Registering
    <2>7. phase = "running" => \A f \in registered' : Comes(f)'
      BY <2>2, <2>5, <2>6 DEF HookWell
    <2>8. \A u \in Threads : call'[u].pc \in {"hook", "write"} => "upload" \in registered'
      <3>1. registered \subseteq registered'
        BY <2>1
      <3> QED
        BY <2>2, <2>3, <3>1 DEF HookWell
    <2> QED
      BY <2>1, <2>5, <2>7, <2>8 DEF HookWell
  <1>22. ASSUME NEW t \in Threads, CaptureHook(t) PROVE HookWell'
    <2>1. /\ UNCHANGED <<phase, registered, spansWorker, disk, runs, missed, buckets, queue>>
          /\ call' = [call EXCEPT ![t].pc = "write"] /\ call[t].pc = "hook" /\ phase # "ended"
          /\ hooks' = Append(hooks, "upload")
      BY <1>22 DEF CaptureHook, contents, history
    <2>2. call'[t].pc = "write" /\ \A u \in Threads \ {t} : call'[u] = call[u]
      BY <2>1, PcMoves DEF CallPcs, GoneOn
    <2>3. InHooks(hooks', "upload") /\ \A f \in Features : InHooks(hooks, f) => InHooks(hooks', f)
      BY <2>1, HookAppended DEF Types, Features
    <2>4. \A f \in Features : Comes(f) => Comes(f)'
      BY <2>3 DEF Comes, Registering
    <2>5. \A u \in Threads : call'[u].pc \in {"hook", "write"} => "upload" \in registered'
      BY <2>1, <2>2 DEF HookWell
    <2>6. registered \subseteq Features /\ "upload" \in Features /\ "performance" \in Features /\ "spans" \in Features
      BY DEF Types, Features
    <2> QED
      BY <2>1, <2>3, <2>4, <2>5, <2>6 DEF HookWell
  <1> QED
    BY <1>2, <1>3, <1>4, <1>5, <1>6, <1>7, <1>8, <1>9, <1>10, <1>11, <1>12, <1>13, <1>15, <1>16, <1>17, <1>18, <1>19,
       <1>20, <1>21, <1>22 DEF Next, Terminated

-----------------------------------------------------------------------------
(***************************************************************************)
(* Privacy.                                                                *)
(***************************************************************************)

\* The trace of a call on one.
LEMMA InTraceStep ==
  ASSUME Types, InTrace, [Next]_vars
  PROVE  InTrace'
  <1>1. ASSUME NEW t \in Threads, \A u \in Threads \ {t} : call'[u] = call[u] /\ trace'[u] = trace[u],
               call'[t].op \in {"span", "trace_stop"} => trace'[t] # NoTrace
        PROVE  InTrace'
    BY <1>1 DEF InTrace
  <1>2. ASSUME NEW t \in Threads, NEW op \in Ops, Begin(t, op) PROVE InTrace'
    <2>1. trace' = trace /\ (op \in {"span", "trace_stop"} => trace[t] # NoTrace)
      BY <1>2 DEF Begin, contents
    <2>2. call'[t].op = op /\ \A u \in Threads \ {t} : call'[u] = call[u]
      BY <1>2 DEF Begin, Types, CallsTyped, With, At
    <2> QED
      BY <1>1, <2>1, <2>2
  <1>3. ASSUME NEW t \in Threads, Create(t) \/ Have(t) \/ WarnCheck(t) PROVE InTrace'
    <2>1. trace' = trace
      BY <1>3 DEF Create, Have, WarnCheck, contents
    <2>2. call'[t].op = call[t].op /\ \A u \in Threads \ {t} : call'[u] = call[u]
      BY <1>3 DEF Create, Have, WarnCheck, Types, CallsTyped, With, At
    <2> QED
      BY <1>1, <2>1, <2>2 DEF InTrace
  <1>11. ASSUME NEW t \in Threads, WarnExchange(t) \/ WarnPrint(t) \/ Capture(t) \/ CaptureHook(t) PROVE InTrace'
    <2>1. trace' = trace /\ call[t].pc \in {"exchange", "print", "act", "hook"}
      BY <1>11 DEF WarnExchange, WarnPrint, Capture, CaptureHook, Acting, contents
    <2>2. PICK pc \in {"act", "print", "off", "write", "hook"} : call' = [call EXCEPT ![t].pc = pc]
      BY <1>11 DEF WarnExchange, WarnPrint, Capture, CaptureHook
    <2>3. call'[t].op = call[t].op /\ \A u \in Threads \ {t} : call'[u] = call[u]
      BY <2>1, <2>2, PcMoves DEF CallPcs, GoneOn
    <2> QED
      BY <1>1, <2>1, <2>3 DEF InTrace
  <1>4. ASSUME NEW t \in Threads, Return(t), \A u \in Threads \ {t} : trace'[u] = trace[u] PROVE InTrace'
    <2>1. call'[t].op = "none" /\ \A u \in Threads \ {t} : call'[u] = call[u]
      BY <1>4 DEF Types, CallsTyped, Return, Idle, At
    <2> QED
      BY <1>1, <1>4, <2>1
  <1>5. ASSUME NEW t \in Threads, TraceStart(t) \/ RecordSpan(t) \/ TraceStop(t) PROVE InTrace'
    <2>1. Return(t) /\ \A u \in Threads \ {t} : trace'[u] = trace[u]
      BY <1>5 DEF TraceStart, RecordSpan, TraceStop, Types
    <2> QED
      BY <1>4, <2>1
  <1>6. ASSUME NEW t \in Threads,
               \/ Configure(t) \/ AddBreadcrumb(t) \/ CaptureWrite(t) \/ RecordPerformance(t) \/ Flush(t) \/ UploadPending(t)
        PROVE  InTrace'
    <2>1. Return(t) /\ trace' = trace
      BY <1>6 DEF Configure, AddBreadcrumb, CaptureWrite, RecordPerformance, Flush, UploadPending, contents
    <2> QED
      BY <1>4, <2>1
  <1>7. ASSUME NEW t \in Threads, ClearBreadcrumbs(t) \/ SetUser(t) \/ ExitHook(t) PROVE InTrace'
    <2>1. call' = call /\ trace' = trace
      BY <1>7 DEF ClearBreadcrumbs, SetUser, ExitHook
    <2> QED
      BY <2>1 DEF InTrace
  <1>8. ASSUME NEW t \in Threads, InstallHandlers(t) \/ Exit(t) PROVE InTrace'
    <2>1. trace' = trace /\ call'[t].op \in {"upload", "none"} /\ \A u \in Threads \ {t} : call'[u] = call[u]
      BY <1>8 DEF InstallHandlers, Exit, Types, CallsTyped, With, At, contents
    <2> QED
      BY <1>1, <2>1
  <1>9. CASE NoMemory
    <2>1. \A t \in Threads : call'[t].op = "none"
      BY <1>9 DEF NoMemory, Idle, At
    <2> QED
      BY <2>1 DEF InTrace
  <1>10. CASE PerformanceWorker \/ SpansWorker \/ ProcessEnd \/ UNCHANGED vars
    <2>1. call' = call /\ trace' = trace
      BY <1>10 DEF PerformanceWorker, SpansWorker, ProcessEnd, contents, vars
    <2> QED
      BY <2>1 DEF InTrace
  <1> QED
    BY <1>2, <1>3, <1>5, <1>6, <1>7, <1>8, <1>9, <1>10, <1>11 DEF Next, Terminated, FatalSignal, Restart

\* One thread's call goes on, and the configuration stays.
LEMMA ConfigKept ==
  ASSUME OneConfig, NEW t \in Threads, \A u \in Threads \ {t} : call'[u] = call[u],
         UNCHANGED <<structs, shared, environment, asked>>,
         hooks' = hooks \/ Len(structs) = 1, phase' # "ended" => phase # "ended",
         call'[t].pc # "create",
         call'[t].pc \in HasConfig => Len(structs) = 1 /\ call'[t].config = 1
  PROVE  OneConfig'
  <1>1. ASSUME NEW u \in Threads, call'[u].pc = "create"
        PROVE  Len(structs) = 0 /\ \A v \in Threads \ {u} : call'[v].pc # "create"
    BY <1>1 DEF OneConfig
  <1>2. ASSUME NEW u \in Threads, call'[u].pc \in HasConfig PROVE Len(structs) = 1 /\ call'[u].config = 1
    BY <1>2 DEF OneConfig
  <1>3. Len(structs) = 0 => hooks' = << >> /\ (phase' # "ended" => asked' = environment')
    BY DEF OneConfig
  <1> QED
    BY <1>1, <1>2, <1>3 DEF OneConfig

LEMMA ConfigReturns ==
  ASSUME Types, OneConfig, NEW t \in Threads, Return(t), call[t].pc \in GoneOn,
         UNCHANGED <<structs, shared, environment, asked, phase>>
  PROVE  OneConfig'
  <1>1. call'[t].pc = "idle" /\ \A u \in Threads \ {t} : call'[u] = call[u]
    BY ReturnMoves
  <1>2. Len(structs) = 1
    BY DEF OneConfig, HasConfig, GoneOn
  <1>3. call'[t].pc \notin HasConfig \cup {"create"}
    BY <1>1 DEF HasConfig, GoneOn
  <1> QED
    BY <1>1, <1>2, <1>3, ConfigKept

LEMMA ConfigStep ==
  ASSUME Types, ~overlap', overlap \in BOOLEAN, ~overlap => OneConfig, [Next]_vars
  PROVE  OneConfig' /\ ~overlap
  <1>0. OneConfig /\ ~overlap
    <2>1. CASE UNCHANGED overlap
      BY <2>1
    <2>2. ASSUME NEW t \in Threads, NEW op \in Ops, Begin(t, op) PROVE ~overlap
      BY <2>2 DEF Begin
    <2>3. (\A t \in Threads, op \in Ops : ~Begin(t, op)) => UNCHANGED overlap
      BY DEF Next, Create, Have, WarnCheck, WarnExchange, WarnPrint, Configure, AddBreadcrumb, ClearBreadcrumbs, SetUser,
             Capture, CaptureHook, CaptureWrite, RecordPerformance, TraceStart, RecordSpan, TraceStop, Flush, UploadPending, InstallHandlers,
             Exit, ExitHook, FatalSignal, PerformanceWorker, SpansWorker, ProcessEnd, Restart, Terminated, vars,
             history
    <2> QED
      BY <2>1, <2>2, <2>3
  <1> USE <1>0
  <1>1. ASSUME NEW t \in Threads, NEW op \in Ops, Begin(t, op) PROVE OneConfig'
    <2>1. UNCHANGED <<structs, shared, environment, asked, hooks, phase>> /\ phase # "ended"
      BY <1>1 DEF Begin, configuration, exitHooks, wishes
    <2>2. CASE shared = 0
      <3>1. call'[t].pc = "create" /\ \A u \in Threads \ {t} : call'[u] = call[u]
        BY <1>1, <2>2 DEF Begin, Types, CallsTyped, At
      <3>2. \A u \in Threads : call[u].pc # "create"
        BY <1>1, <2>2 DEF Begin
      <3>3. Len(structs) = 0 /\ \A u \in Threads : call[u].pc \notin HasConfig
        BY <2>2 DEF OneConfig
      <3>4. \A u \in Threads : call'[u].pc \notin HasConfig
        BY <3>1, <3>3 DEF HasConfig, GoneOn
      <3>5. \A u, v \in Threads : call'[u].pc = "create" /\ call'[v].pc = "create" => u = v
        BY <3>1, <3>2
      <3> QED
        BY <2>1, <3>3, <3>4, <3>5 DEF OneConfig
    <2>3. CASE shared # 0
      <3>1. call' = [call EXCEPT ![t] = With(op, shared)] /\ shared \in 0..Len(structs)
        BY <1>1, <2>3 DEF Begin, Types
      <3>2. /\ call'[t].pc \in {"warn", "act"} /\ call'[t].config = shared
            /\ \A u \in Threads \ {t} : call'[u] = call[u]
        BY <3>1, WithMoves
      <3>3. shared = 1 /\ Len(structs) = 1
        BY <2>3, <3>1, LenProperties DEF OneConfig, Types
      <3> QED
        BY <2>1, <3>2, <3>3, ConfigKept
    <2> QED
      BY <2>2, <2>3
  <1>2. ASSUME NEW t \in Threads, Create(t) PROVE OneConfig'
    <2>1. Len(structs) = 0 /\ asked = environment /\ hooks = << >>
      BY <1>2 DEF Create, OneConfig
    <2>2. \A u \in Threads : call[u].pc \notin HasConfig /\ (u # t => call[u].pc # "create")
      BY <1>2, <2>1 DEF Create, OneConfig
    <2>3. structs' = Append(structs, environment) /\ shared' = 1 /\ asked' = asked
      BY <1>2, <2>1 DEF Create, history, wishes
    <2>4. Len(structs') = 1 /\ structs'[1] = asked
      <3>1. structs \in Seq(Settings) /\ environment \in Settings
        BY TrackerAssumption DEF Types
      <3> QED
        BY <2>1, <2>3, <3>1, AppendProperties
    <2>5. call'[t].pc = "have" /\ call'[t].config = 1 /\ \A u \in Threads \ {t} : call'[u] = call[u]
      BY <1>2, <2>1 DEF Create, Types, CallsTyped, At
    <2>6. \A u \in Threads : call'[u].pc # "create" /\ (call'[u].pc \in HasConfig => call'[u].config = 1)
      BY <2>2, <2>5 DEF HasConfig, GoneOn
    <2> QED
      BY <2>3, <2>4, <2>6 DEF OneConfig
  <1>3. ASSUME NEW t \in Threads, Have(t) PROVE OneConfig'
    <2>1. PICK config \in {shared, call[t].config} : call' = [call EXCEPT ![t] = With(call[t].op, config)]
      BY <1>3 DEF Have
    <2>2. config = 1 /\ Len(structs) = 1 /\ call[t].op \in Ops /\ config \in 0..Len(structs)
      BY <1>3 DEF CallsTyped, Types, Have, OneConfig, HasConfig, GoneOn
    <2>3. /\ call'[t].pc \in {"warn", "act"} /\ call'[t].config = 1
          /\ \A u \in Threads \ {t} : call'[u] = call[u]
      BY <2>1, <2>2, WithMoves
    <2>4. UNCHANGED <<structs, shared, environment, asked, hooks, phase>>
      BY <1>3 DEF Have, configuration, exitHooks, wishes, history
    <2> QED
      BY <2>2, <2>3, <2>4, ConfigKept
  <1>4. ASSUME NEW t \in Threads, WarnCheck(t) PROVE OneConfig'
    <2>1. Len(structs) = 1 /\ call[t].config = 1
      BY <1>4 DEF WarnCheck, OneConfig, HasConfig, GoneOn
    <2>2. UNCHANGED <<structs, shared, environment, asked, hooks, phase>>
      BY <1>4 DEF WarnCheck, configuration, exitHooks, wishes, history
    <2>3. /\ call'[t].pc \in {"exchange", "act"} /\ call'[t].config = call[t].config
          /\ \A u \in Threads \ {t} : call'[u] = call[u]
      BY <1>4 DEF WarnCheck, Types, CallsTyped, At
    <2> QED
      BY <2>1, <2>2, <2>3, ConfigKept
  <1>15. ASSUME NEW t \in Threads, WarnExchange(t) \/ WarnPrint(t) \/ Capture(t) \/ CaptureHook(t) PROVE OneConfig'
    <2>1. call[t].pc \in {"exchange", "print", "act", "hook"}
      BY <1>15 DEF WarnExchange, WarnPrint, Capture, CaptureHook, Acting
    <2>2. Len(structs) = 1 /\ call[t].config = 1
      BY <2>1 DEF OneConfig, HasConfig, GoneOn
    <2>3. UNCHANGED <<structs, shared, environment, asked, phase>>
      BY <1>15 DEF WarnExchange, WarnPrint, Capture, CaptureHook, configuration, wishes, history
    <2>4. PICK pc \in {"act", "print", "off", "write", "hook"} : call' = [call EXCEPT ![t].pc = pc]
      BY <1>15 DEF WarnExchange, WarnPrint, Capture, CaptureHook
    <2>5. /\ call'[t].pc = pc /\ call'[t].config = call[t].config
          /\ \A u \in Threads \ {t} : call'[u] = call[u]
      BY <2>1, <2>4, PcMoves DEF CallPcs, GoneOn
    <2> QED
      BY <2>2, <2>3, <2>4, <2>5, ConfigKept
  <1>5. ASSUME NEW t \in Threads, Configure(t) PROVE OneConfig'
    <2>1. call[t].pc = "act" /\ UNCHANGED <<shared, environment, hooks, phase>>
      BY <1>5 DEF Configure, Acting, exitHooks
    <2>2. call[t].config = 1 /\ Len(structs) = 1
      BY <2>1 DEF OneConfig, HasConfig, GoneOn
    <2>3. PICK settings \in Changes : structs' = [structs EXCEPT ![1] = settings] /\ asked' = settings
      BY <1>5, <2>2 DEF Configure
    <2>4. Len(structs') = 1 /\ structs'[1] = settings
      <3>1. structs \in Seq(Settings) /\ settings \in Settings /\ 1 \in 1..Len(structs)
        BY <2>2, TrackerAssumption DEF Types
      <3> QED
        BY <2>2, <2>3, <3>1, ExceptSeq
    <2>5. call'[t].pc = "idle" /\ \A u \in Threads \ {t} : call'[u] = call[u]
      BY <1>5, ReturnMoves DEF Configure
    <2>6. \A u \in Threads : call'[u].pc # "create" /\ (call'[u].pc \in HasConfig => call'[u].config = 1)
      BY <2>2, <2>5 DEF OneConfig, HasConfig, GoneOn
    <2>7. shared' = 1
      BY <2>1, <2>2 DEF OneConfig
    <2> QED
      BY <2>3, <2>4, <2>6, <2>7 DEF OneConfig
  <1>6. ASSUME NEW t \in Threads,
               \/ AddBreadcrumb(t) \/ CaptureWrite(t) \/ RecordPerformance(t) \/ TraceStart(t) \/ RecordSpan(t)
               \/ TraceStop(t) \/ Flush(t) \/ UploadPending(t)
        PROVE  OneConfig'
    <2>1. call[t].pc \in GoneOn /\ Return(t)
      BY <1>6 DEF AddBreadcrumb, CaptureWrite, RecordPerformance, TraceStart, RecordSpan, TraceStop, Flush, UploadPending,
                  Acting, GoneOn
    <2>2. UNCHANGED <<structs, shared, environment, asked, phase>>
      BY <1>6 DEF AddBreadcrumb, CaptureWrite, RecordPerformance, TraceStart, RecordSpan, TraceStop, Flush, UploadPending,
                  configuration, wishes
    <2> QED
      BY <2>1, <2>2, ConfigReturns
  <1>7. ASSUME NEW t \in Threads, ClearBreadcrumbs(t) \/ SetUser(t) PROVE OneConfig'
    <2>1. UNCHANGED <<structs, shared, environment, asked, hooks, phase, call>>
      BY <1>7 DEF ClearBreadcrumbs, SetUser, configuration, exitHooks, wishes, history
    <2> QED
      BY <2>1 DEF OneConfig
  <1>8. ASSUME NEW t \in Threads, InstallHandlers(t) PROVE OneConfig'
    <2>1. call' = [call EXCEPT ![t] = With("upload", shared)] /\ shared \in 0..Len(structs) /\ "upload" \in Ops
      BY <1>8 DEF InstallHandlers, Types, Ops, ActiveOps
    <2>2. Len(structs) = 1 /\ shared = 1
      BY <1>8 DEF InstallHandlers, Acting, OneConfig, HasConfig, GoneOn
    <2>3. /\ call'[t].pc \in {"warn", "act"} /\ call'[t].config = shared
          /\ \A u \in Threads \ {t} : call'[u] = call[u]
      BY <2>1, WithMoves
    <2>4. UNCHANGED <<structs, shared, environment, asked, hooks, phase>>
      BY <1>8 DEF InstallHandlers, configuration, exitHooks, wishes, history
    <2> QED
      BY <2>2, <2>3, <2>4, ConfigKept
  <1>9. ASSUME NEW t \in Threads, Exit(t) PROVE OneConfig'
    <2>1. call'[t].pc = "exit" /\ \A u \in Threads \ {t} : call'[u] = call[u]
      BY <1>9 DEF Exit, Types, CallsTyped, At
    <2>2. UNCHANGED <<structs, shared, environment, asked, hooks>> /\ phase # "ended"
      BY <1>9 DEF Exit, configuration, exitHooks, wishes, history
    <2>3. call'[t].pc \notin HasConfig \cup {"create"}
      BY <2>1 DEF HasConfig, GoneOn
    <2> QED
      BY <2>1, <2>2, <2>3, ConfigKept
  <1>10. ASSUME NEW t \in Threads, ExitHook(t) PROVE OneConfig'
    <2>1. UNCHANGED <<structs, shared, environment, asked, phase, call>> /\ hooks # << >>
      BY <1>10 DEF ExitHook, configuration, wishes
    <2>2. Len(structs) = 1
      BY <2>1, LenProperties DEF OneConfig, Types
    <2> QED
      BY <2>1, <2>2 DEF OneConfig
  <1>11. CASE NoMemory /\ (phase' # "ended" => asked' = environment')
    <2>1. /\ Len(structs') = 0 /\ shared' = 0 /\ hooks' = << >>
          /\ \A u \in Threads : call'[u].pc = "idle"
      BY <1>11 DEF NoMemory, Idle, At
    <2>2. \A u \in Threads : call'[u].pc \notin HasConfig \cup {"create"}
      BY <2>1 DEF HasConfig, GoneOn
    <2> QED
      BY <1>11, <2>1, <2>2 DEF OneConfig
  <1>12. CASE PerformanceWorker \/ SpansWorker \/ ProcessEnd \/ UNCHANGED vars
    <2>1. UNCHANGED <<structs, shared, environment, asked, hooks, call>> /\ (phase' # "ended" => phase # "ended")
      BY <1>12 DEF PerformanceWorker, SpansWorker, ProcessEnd, configuration, exitHooks, wishes, history, vars
    <2> QED
      BY <2>1 DEF OneConfig
  <1>13. CASE Restart
    BY <1>11, <1>13 DEF Restart
  <1>14. ASSUME NEW t \in Threads, FatalSignal(t) PROVE OneConfig'
    BY <1>11, <1>14 DEF FatalSignal
  <1> QED
    BY <1>1, <1>2, <1>3, <1>4, <1>5, <1>6, <1>7, <1>8, <1>9, <1>10, <1>12, <1>13, <1>14, <1>15 DEF Next, Terminated

\* A new text makes nothing of what there is.
LEMMA ItemsStay ==
  ASSUME NEW tl, NEW tr, NEW bk, NEW qu, NEW dk, NEW st, NEW hd \in Seq(Settings), NEW x \in Settings,
         ItemsWell(tl, tr, bk, qu, dk, st, hd)
  PROVE  ItemsWell(tl, tr, bk, qu, dk, st, Append(hd, x))
  <1> DEFINE g == Append(hd, x)
  <1>1. /\ \A item : ItemOk(item, hd) => ItemOk(item, g)
        /\ \A item : CrumbOk(item, hd) => CrumbOk(item, g)
    BY OkStays
  <1> HIDE DEF g
  <1>2. ItemsWell(tl, tr, bk, qu, dk, st, g)
    BY <1>1 DEF ItemsWell, ReportOk
  <1> QED
    BY <1>2 DEF g

\* What a call hands over, it hands over under the settings of its struct.
LEMMA HandedUnder ==
  ASSUME Types, Private, Hand, NEW t \in Threads, call[t].pc \in GoneOn
  PROVE  /\ ConfigOf(t) \in Settings /\ NewText \in 1..Len(handed') /\ handed'[NewText] = ConfigOf(t)
         /\ ItemsWell(trail, trace, buckets, queue, disk, sent, handed')
         /\ user[t] \in 0..Len(handed') /\ NewText \in 0..Len(handed')
  <1>1. handed \in Seq(Settings) /\ asked \in Settings /\ handed' = Append(handed, asked) /\ Len(handed) \in Nat
    BY LenProperties DEF Types, Hand
  <1>2. Len(structs) = 1 /\ call[t].config = 1 /\ structs[1] = asked
    BY DEF Private, OneConfig, HasConfig, GoneOn
  <1>3. ConfigOf(t) = asked
    BY <1>2 DEF ConfigOf
  <1>4. Len(handed') = Len(handed) + 1 /\ handed'[Len(handed) + 1] = asked
    BY <1>1, AppendProperties
  <1>5. ItemsWell(trail, trace, buckets, queue, disk, sent, handed)
    BY DEF Private
  <1>6. ItemsWell(trail, trace, buckets, queue, disk, sent, handed')
    BY <1>1, <1>5, ItemsStay
  <1>7. user[t] \in 0..Len(handed)
    BY DEF Types
  <1> QED
    BY <1>1, <1>3, <1>4, <1>6, <1>7 DEF NewText

\* What an upload sends.
LEMMA PayloadsTaken ==
  ASSUME NEW hd, NEW c \in Settings, NEW who \in 0..Len(hd), NEW reports,
         \A report \in reports : ReportOk(report, hd)
  PROVE  \A item \in Payloads(c, who, reports) : ItemOk(item, hd)
  <1> SUFFICES ASSUME NEW report \in reports,
                      NEW item \in IF report.raw THEN CompleteReport(c, who, report.items) ELSE report.items
               PROVE  ItemOk(item, hd)
    BY DEF Payloads
  <1>1. CASE report.raw
    <2>1. \A crumb \in report.items : CrumbOk(crumb, hd)
      BY <1>1 DEF ReportOk
    <2>2. \A sentItem \in CompleteReport(c, who, report.items) : ItemOk(sentItem, hd)
      BY <2>1, ReportTaken
    <2> QED
      BY <1>1, <2>2
  <1>2. CASE ~report.raw
    BY <1>2 DEF ReportOk
  <1> QED
    BY <1>1, <1>2

\* Sending what may leave, and keeping a part of it.
LEMMA SentWell ==
  ASSUME ItemsWell(trail, trace, buckets, queue, disk, sent, handed), UNCHANGED <<trail, trace, handed>>,
         buckets' \subseteq buckets, queue' \subseteq queue, disk' \subseteq disk,
         \A item \in sent' : item \in sent \cup buckets \cup queue \/ ItemOk(item, handed)
  PROVE  ItemsWell(trail', trace', buckets', queue', disk', sent', handed')
  <1>1. /\ \A t \in Threads : \A item \in trail[t] : CrumbOk(item, handed)
        /\ \A t \in Threads : trace[t] # NoTrace => \A item \in trace[t] : ItemOk(item, handed)
        /\ \A item \in buckets \cup queue \cup sent : ItemOk(item, handed)
        /\ \A report \in disk : ReportOk(report, handed)
    BY DEF ItemsWell
  <1>2. \A item \in buckets' \cup queue' \cup sent' : ItemOk(item, handed)
    BY <1>1
  <1>3. /\ \A t \in Threads : \A item \in trail'[t] : CrumbOk(item, handed')
        /\ \A t \in Threads : trace'[t] # NoTrace => \A item \in trace'[t] : ItemOk(item, handed')
        /\ \A item \in buckets' \cup queue' \cup sent' : ItemOk(item, handed')
    BY <1>1, <1>2
  <1>4. \A report \in disk' : ReportOk(report, handed')
    BY <1>1
  <1> QED
    BY <1>3, <1>4 DEF ItemsWell

\* The uploads, of a call or at exit, and the flush of the buckets.
LEMMA UploadWell ==
  ASSUME ItemsWell(trail, trace, buckets, queue, disk, sent, handed), NEW c \in Settings,
         NEW who \in 0..Len(handed), NEW reports \in Uploadable(c)
  PROVE  reports \subseteq disk /\ \A item \in Payloads(c, who, reports) : ItemOk(item, handed)
  <1>1. reports \subseteq disk
    BY DEF Uploadable
  <1>2. \A report \in reports : ReportOk(report, handed)
    BY <1>1 DEF ItemsWell
  <1> QED
    BY <1>1, <1>2, PayloadsTaken

LEMMA ItemsStep ==
  ASSUME Types, InTrace, Private, [Next]_vars
  PROVE  ItemsWell(trail', trace', buckets', queue', disk', sent', handed')
  <1> DEFINE Goal == ItemsWell(trail', trace', buckets', queue', disk', sent', handed')
  <1>0. /\ ItemsWell(trail, trace, buckets, queue, disk, sent, handed) /\ handed \in Seq(Settings)
        /\ asked \in Settings /\ user \in [Threads -> 0..Len(handed)]
        /\ \A t \in Threads : \A item \in trail[t] : CrumbOk(item, handed)
    BY DEF Private, Types, ItemsWell
  <1>1. CASE UNCHANGED <<trail, trace, buckets, queue, disk, sent, handed>>
    BY <1>0, <1>1
  <1>2. ASSUME NEW t \in Threads, NEW op \in Ops, Begin(t, op) PROVE Goal
    BY <1>1, <1>2 DEF Begin, contents, wishes
  <1>3. ASSUME NEW t \in Threads,
               \/ Create(t) \/ Have(t) \/ WarnCheck(t) \/ WarnExchange(t) \/ WarnPrint(t) \/ Configure(t)
               \/ InstallHandlers(t) \/ Exit(t) \/ Capture(t) \/ CaptureHook(t)
        PROVE  Goal
    BY <1>1, <1>3 DEF Create, Have, WarnCheck, WarnExchange, WarnPrint, Configure, InstallHandlers, Exit, Capture,
                      CaptureHook, contents, wishes, history
  <1>4. ASSUME NEW t \in Threads, AddBreadcrumb(t) PROVE Goal
    <2> DEFINE n == NewText
               hd == handed'
               c == ConfigOf(t)
    <2>1. UNCHANGED <<trace, buckets, queue, disk, sent>> /\ Hand /\ call[t].pc = "act"
      BY <1>4 DEF AddBreadcrumb, Acting
    <2>2. /\ c \in Settings /\ n \in 1..Len(hd) /\ hd[n] = c
          /\ ItemsWell(trail, trace, buckets, queue, disk, sent, hd)
      BY <2>1, HandedUnder DEF GoneOn
    <2>3. trail' = [trail EXCEPT ![t] = trail[t] \cup IF c.strict THEN {} ELSE {Scrubbed(c, "crumb", n)}]
      BY <1>4 DEF AddBreadcrumb
    <2> HIDE DEF n, hd, c
    <2>4. ~c.strict => CrumbOk(Scrubbed(c, "crumb", n), hd)
      <3>1. ~hd[n].strict => CrumbOk(Scrubbed(hd[n], "crumb", n), hd)
        BY <2>2, CrumbMade
      <3> QED
        BY <2>2, <3>1
    <2>5. ASSUME NEW u \in Threads, NEW item \in trail'[u] PROVE CrumbOk(item, hd)
      <3>1. item \in trail[u] \/ (~c.strict /\ item = Scrubbed(c, "crumb", n))
        BY <2>3, <2>5 DEF Types
      <3>2. \A crumb \in trail[u] : CrumbOk(crumb, hd)
        BY <2>2 DEF ItemsWell
      <3> QED
        BY <2>4, <3>1, <3>2
    <2>6. ItemsWell(trail', trace', buckets', queue', disk', sent', hd)
      BY <2>1, <2>2, <2>5 DEF ItemsWell
    <2> QED
      BY <2>6 DEF hd
  <1>5. ASSUME NEW t \in Threads, ClearBreadcrumbs(t) PROVE Goal
    <2>1. UNCHANGED <<trace, buckets, queue, disk, sent, handed>> /\ trail' = [trail EXCEPT ![t] = {}]
      BY <1>5 DEF ClearBreadcrumbs, history, wishes
    <2>2. \A u \in Threads : \A item \in trail'[u] : CrumbOk(item, handed')
      BY <1>0, <2>1 DEF Types
    <2> QED
      BY <1>0, <2>1, <2>2 DEF ItemsWell
  <1>6. ASSUME NEW t \in Threads, SetUser(t) PROVE Goal
    <2>1. UNCHANGED <<trail, trace, buckets, queue, disk, sent>> /\ handed' = Append(handed, asked)
      BY <1>6 DEF SetUser, Hand
    <2>2. ItemsWell(trail, trace, buckets, queue, disk, sent, handed')
      BY <1>0, <2>1, ItemsStay
    <2> QED
      BY <2>1, <2>2
  <1>7. ASSUME NEW t \in Threads, CaptureWrite(t) PROVE Goal
    <2> DEFINE n == NewText
               hd == handed'
               c == ConfigOf(t)
    <2>1. UNCHANGED <<trail, trace, buckets, queue, sent>> /\ Hand /\ call[t].pc \in {"write", "off"}
      BY <1>7 DEF CaptureWrite
    <2>2. /\ c \in Settings /\ n \in 1..Len(hd) /\ hd[n] = c
          /\ ItemsWell(trail, trace, buckets, queue, disk, sent, hd)
          /\ user[t] \in 0..Len(hd) /\ n \in 0..Len(hd)
      BY <2>1, HandedUnder DEF GoneOn
    <2>3. disk' = disk \/ \E who \in {user[t], n} : disk' = disk \cup {Report(FALSE, BuildEvent(c, n, who, trail[t]))}
      BY <1>7 DEF CaptureWrite
    <2> HIDE DEF n, hd, c
    <2>4. CASE disk' = disk
      <3>1. ItemsWell(trail', trace', buckets', queue', disk', sent', hd)
        BY <2>1, <2>2, <2>4
      <3> QED
        BY <3>1 DEF hd
    <2>5. CASE \E who \in {user[t], n} : disk' = disk \cup {Report(FALSE, BuildEvent(c, n, who, trail[t]))}
      <3>1. PICK who \in {user[t], n} : disk' = disk \cup {Report(FALSE, BuildEvent(c, n, who, trail[t]))}
        BY <2>5
      <3>2. who \in 0..Len(hd)
        BY <2>2
      <3>3. \A item \in trail[t] : CrumbOk(item, hd)
        BY <2>2 DEF ItemsWell
      <3>4. \A item \in BuildEvent(hd[n], n, who, trail[t]) : ItemOk(item, hd)
        BY <2>2, <3>2, <3>3, EventTaken
      <3> DEFINE new == Report(FALSE, BuildEvent(c, n, who, trail[t]))
      <3>5. new.raw = FALSE /\ \A item \in new.items : ItemOk(item, hd)
        BY <2>2, <3>4 DEF Report
      <3>6. disk' = disk \cup {new}
        BY <3>1
      <3> HIDE DEF new
      <3>7. \A report \in disk' : ReportOk(report, hd)
        BY <2>2, <3>5, <3>6 DEF ItemsWell, ReportOk
      <3>8. ItemsWell(trail', trace', buckets', queue', disk', sent', hd)
        BY <2>1, <2>2, <3>7 DEF ItemsWell
      <3> QED
        BY <3>8 DEF hd
    <2> QED
      BY <2>3, <2>4, <2>5
  <1>8. ASSUME NEW t \in Threads, RecordPerformance(t) PROVE Goal
    <2> DEFINE n == NewText
               hd == handed'
               c == ConfigOf(t)
    <2>1. UNCHANGED <<trail, trace, queue, disk, sent>> /\ Hand /\ call[t].pc = "act"
      BY <1>8 DEF RecordPerformance, Acting
    <2>2. /\ c \in Settings /\ n \in 1..Len(hd) /\ hd[n] = c
          /\ ItemsWell(trail, trace, buckets, queue, disk, sent, hd)
      BY <2>1, HandedUnder DEF GoneOn
    <2>3. buckets' = buckets \/ buckets' = buckets \cup {SampleItem(c, n)}
      BY <1>8 DEF RecordPerformance
    <2> HIDE DEF n, hd, c
    <2>4. ItemOk(SampleItem(hd[n], n), hd)
      BY <2>2, TextTaken
    <2>5. \A item \in buckets' : item \in buckets \/ ItemOk(item, hd)
      BY <2>2, <2>3, <2>4
    <2>6. ItemsWell(trail', trace', buckets', queue', disk', sent', hd)
      BY <2>1, <2>2, <2>5 DEF ItemsWell
    <2> QED
      BY <2>6 DEF hd
  <1>9. ASSUME NEW t \in Threads, TraceStart(t) PROVE Goal
    <2>1. UNCHANGED <<trail, buckets, queue, disk, sent, handed>>
      BY <1>9 DEF TraceStart, wishes
    <2>2. \A u \in Threads : trace'[u] = trace[u] \/ trace'[u] = {}
      BY <1>9 DEF TraceStart, Types
    <2>3. \A u \in Threads : trace'[u] # NoTrace => \A item \in trace'[u] : ItemOk(item, handed)
      BY <1>0, <2>2 DEF ItemsWell
    <2> QED
      BY <1>0, <2>1, <2>3 DEF ItemsWell
  <1>10. ASSUME NEW t \in Threads, RecordSpan(t) PROVE Goal
    <2> DEFINE n == NewText
               hd == handed'
               c == ConfigOf(t)
    <2>1. /\ UNCHANGED <<trail, buckets, queue, disk, sent>> /\ Hand /\ call[t].pc = "act"
          /\ trace' = [trace EXCEPT ![t] = trace[t] \cup SpanItems(c, n)] /\ trace[t] # NoTrace
      BY <1>10 DEF RecordSpan, Acting, InTrace
    <2>2. /\ c \in Settings /\ n \in 1..Len(hd) /\ hd[n] = c
          /\ ItemsWell(trail, trace, buckets, queue, disk, sent, hd)
      BY <2>1, HandedUnder DEF GoneOn
    <2> HIDE DEF n, hd, c
    <2>3. \A item \in SpanItems(hd[n], n) : ItemOk(item, hd)
      BY <2>2, TextTaken
    <2>4. ASSUME NEW u \in Threads, trace'[u] # NoTrace, NEW item \in trace'[u] PROVE ItemOk(item, hd)
      <3>1. (trace[u] # NoTrace /\ item \in trace[u]) \/ item \in SpanItems(hd[n], n)
        BY <2>1, <2>2, <2>4 DEF Types
      <3> QED
        BY <2>2, <2>3, <3>1 DEF ItemsWell
    <2>5. ItemsWell(trail', trace', buckets', queue', disk', sent', hd)
      BY <2>1, <2>2, <2>4 DEF ItemsWell
    <2> QED
      BY <2>5 DEF hd
  <1>11. ASSUME NEW t \in Threads, TraceStop(t) PROVE Goal
    <2> DEFINE n == NewText
               hd == handed'
               c == ConfigOf(t)
    <2>1. /\ UNCHANGED <<trail, buckets, disk, sent>> /\ Hand /\ call[t].pc = "act"
          /\ trace' = [trace EXCEPT ![t] = NoTrace] /\ trace[t] # NoTrace
          /\ queue' = queue \/ queue' = queue \cup trace[t] \cup {SpanName(c, n)}
      BY <1>11 DEF TraceStop, Acting, InTrace
    <2>2. /\ c \in Settings /\ n \in 1..Len(hd) /\ hd[n] = c
          /\ ItemsWell(trail, trace, buckets, queue, disk, sent, hd)
      BY <2>1, HandedUnder DEF GoneOn
    <2> HIDE DEF n, hd, c
    <2>3. ItemOk(SpanName(hd[n], n), hd)
      BY <2>2, TextTaken
    <2>4. \A u \in Threads : trace'[u] # NoTrace => trace'[u] = trace[u]
      BY <2>1 DEF Types
    <2>5. ASSUME NEW item \in queue' PROVE ItemOk(item, hd)
      <3>1. item \in queue \/ item \in trace[t] \/ item = SpanName(hd[n], n)
        BY <2>1, <2>2, <2>5
      <3> QED
        BY <2>1, <2>2, <2>3, <3>1 DEF ItemsWell
    <2>6. ItemsWell(trail', trace', buckets', queue', disk', sent', hd)
      BY <2>1, <2>2, <2>4, <2>5 DEF ItemsWell
    <2> QED
      BY <2>6 DEF hd
  <1>12. ASSUME NEW t \in Threads, Flush(t) PROVE Goal
    <2> DEFINE c == ConfigOf(t)
    <2>1. PICK reports \in Uploadable(c) :
            /\ disk' = disk \ reports
            /\ FlushSamples(c, sent \cup Payloads(c, user[t], reports), missed \/ reports # disk)
      BY <1>12 DEF Flush
    <2>2. c \in Settings
      <3>1. call[t].pc = "act"
        BY <1>12 DEF Flush, Acting
      <3>2. call[t].config = 1 /\ structs[1] = asked
        BY <3>1 DEF Private, OneConfig, HasConfig, GoneOn
      <3> QED
        BY <1>0, <3>2 DEF ConfigOf
    <2> DEFINE paid == Payloads(c, user[t], reports)
    <2>3. sent' \subseteq (sent \cup paid) \cup buckets /\ buckets' \subseteq buckets
      BY <2>1 DEF FlushSamples
    <2> HIDE DEF c, paid
    <2>4. \A item \in paid : ItemOk(item, handed)
      BY <1>0, <2>2, UploadWell DEF paid
    <2>5. UNCHANGED <<trail, trace, queue, handed>>
      BY <1>12 DEF Flush, wishes
    <2>6. disk' \subseteq disk /\ \A item \in sent' : item \in sent \cup buckets \cup queue \/ ItemOk(item, handed)
      BY <2>1, <2>3, <2>4
    <2> QED
      BY <1>0, <2>3, <2>5, <2>6, SentWell
  <1>13. ASSUME NEW c \in Settings, NEW t \in Threads, Upload(c, user[t]),
                UNCHANGED <<trail, trace, buckets, queue, handed>>
         PROVE  Goal
    <2>1. PICK reports \in Uploadable(c) :
            sent' = sent \cup Payloads(c, user[t], reports) /\ disk' = disk \ reports
      BY <1>13 DEF Upload
    <2> DEFINE paid == Payloads(c, user[t], reports)
    <2>2. sent' = sent \cup paid
      BY <2>1
    <2> HIDE DEF paid
    <2>3. \A item \in paid : ItemOk(item, handed)
      BY <1>0, UploadWell DEF paid
    <2>4. disk' \subseteq disk /\ \A item \in sent' : item \in sent \cup buckets \cup queue \/ ItemOk(item, handed)
      BY <2>1, <2>2, <2>3
    <2> QED
      BY <1>0, <1>13, <2>4, SentWell
  <1>14. ASSUME NEW t \in Threads, UploadPending(t) PROVE Goal
    <2>1. /\ call[t].pc = "act" /\ Upload(ConfigOf(t), user[t])
          /\ UNCHANGED <<trail, trace, buckets, queue, handed>>
      BY <1>14 DEF UploadPending, Acting, wishes
    <2>2. call[t].config = 1 /\ structs[1] = asked
      BY <2>1 DEF Private, OneConfig, HasConfig, GoneOn
    <2>3. ConfigOf(t) \in Settings
      BY <1>0, <2>2 DEF ConfigOf
    <2> QED
      BY <1>13, <2>1, <2>3
  <1>15. ASSUME NEW c, FlushSamples(c, sent, missed), UNCHANGED <<trail, trace, queue, disk, handed>> PROVE Goal
    <2>1. sent' \subseteq sent \cup buckets /\ buckets' \subseteq buckets
      BY <1>15 DEF FlushSamples
    <2> QED
      BY <1>0, <1>15, <2>1, SentWell
  <1>16. CASE DeliverQueue /\ UNCHANGED <<trail, trace, buckets, disk, handed>>
    <2>1. sent' \subseteq sent \cup queue /\ queue' \subseteq queue
      BY <1>16 DEF DeliverQueue
    <2> QED
      BY <1>0, <1>16, <2>1, SentWell
  <1>17. CASE PerformanceWorker
    BY <1>15, <1>17 DEF PerformanceWorker, wishes
  <1>18. CASE SpansWorker
    BY <1>16, <1>18 DEF SpansWorker, wishes
  <1>19. ASSUME NEW t \in Threads, ExitHook(t) PROVE Goal
    <2>1. UNCHANGED <<trail, trace, handed>> /\ hooks # << >>
      BY <1>19 DEF ExitHook, wishes
    <2>2. CASE Upload(structs[shared], user[t]) /\ UNCHANGED <<buckets, queue>>
      <3>1. Len(structs) \in Nat
        BY LenProperties DEF Types
      <3>2. shared = 1 /\ structs[1] = asked
        BY <2>1, <3>1 DEF Private, OneConfig
      <3> QED
        BY <1>0, <1>13, <2>1, <2>2, <3>2
    <2>3. CASE FlushSamples(structs[workerConfig.performance], sent, missed) /\ UNCHANGED <<queue, disk>>
      BY <1>15, <2>1, <2>3
    <2>4. CASE DeliverQueue /\ UNCHANGED <<buckets, disk, missed>>
      BY <1>16, <2>1, <2>4
    <2>5. CASE UNCHANGED <<queue, sent, buckets, disk>>
      BY <1>1, <2>1, <2>5
    <2> QED
      BY <1>19, <2>2, <2>3, <2>4, <2>5 DEF ExitHook
  <1>20. ASSUME NoMemory, UNCHANGED <<sent, handed>>,
                disk' = disk \/ \E t \in Threads : disk' = disk \cup {Report(TRUE, trail[t])}
         PROVE  Goal
    <2>1. /\ \A t \in Threads : trail'[t] = {} /\ trace'[t] = NoTrace
          /\ buckets' = {} /\ queue' = {}
      BY <1>20 DEF NoMemory
    <2>2. \A report \in disk' : ReportOk(report, handed)
      <3>1. CASE disk' = disk
        BY <1>0, <3>1 DEF ItemsWell
      <3>2. ASSUME NEW t \in Threads, disk' = disk \cup {Report(TRUE, trail[t])}
            PROVE  \A report \in disk' : ReportOk(report, handed)
        <4> DEFINE new == Report(TRUE, trail[t])
        <4>1. new.raw = TRUE /\ new.items = trail[t]
          BY DEF Report
        <4>2. disk' = disk \cup {new}
          BY <3>2
        <4> HIDE DEF new
        <4> QED
          BY <1>0, <4>1, <4>2 DEF ItemsWell, ReportOk
      <3> QED
        BY <1>20, <3>1, <3>2
    <2> QED
      BY <1>0, <1>20, <2>1, <2>2 DEF ItemsWell
  <1>21. ASSUME NEW t \in Threads, FatalSignal(t) PROVE Goal
    <2>1. NoMemory /\ UNCHANGED <<sent, handed>> /\ (disk' = disk \/ disk' = disk \cup {Report(TRUE, trail[t])})
      BY <1>21 DEF FatalSignal, wishes
    <2> QED
      BY <1>20, <2>1
  <1>22. CASE Restart
    BY <1>20, <1>22 DEF Restart
  <1>23. CASE ProcessEnd \/ UNCHANGED vars
    BY <1>1, <1>23 DEF ProcessEnd, contents, wishes, history, vars
  <1> QED
    BY <1>2, <1>3, <1>4, <1>5, <1>6, <1>7, <1>8, <1>9, <1>10, <1>11, <1>12, <1>14, <1>17, <1>18, <1>19, <1>21, <1>22,
       <1>23 DEF Next, Terminated

-----------------------------------------------------------------------------
(***************************************************************************)
(* The theorems.                                                           *)
(***************************************************************************)
LEMMA InitHolds ==
  ASSUME Init
  PROVE  IndInv
  <1> USE TrackerAssumption
  <1>1. /\ structs = << >> /\ hooks = << >> /\ handed = << >> /\ Len(structs) = 0 /\ Len(handed) = 0
        /\ structs \in Seq(Settings) /\ hooks \in Seq(Features) /\ handed \in Seq(Settings)
    BY DEF Init
  <1>2. \A t \in Threads : call[t].pc = "idle" /\ call[t].op = "none"
    BY DEF Init, Idle, At
  <1>3. Types
    <2>1. CallsTyped(call, 0)
      BY CallsIdle DEF Init
    <2>2. \A feature \in Features : ~InHooks(hooks, feature)
      BY <1>1 DEF InHooks
    <2>3. workerConfig \in [performance : 0..0, spans : 0..0]
      BY DEF Init, NoWorker
    <2>4. overlap \in BOOLEAN /\ missed \in BOOLEAN /\ warned \in BOOLEAN /\ installed \in BOOLEAN
      BY DEF Init
    <2> QED
      BY <1>1, <2>1, <2>2, <2>3, <2>4 DEF Types, Init
  <1>4. WarnWell /\ InTrace
    BY <1>2 DEF WarnWell, InTrace, Init, GoneOn
  <1>5. SpansWell /\ HookWell
    BY <1>1, <1>2 DEF SpansWell, Once, HookWell, Init
  <1>6. OneConfig
    <2>1. \A t \in Threads : call[t].pc \notin HasConfig \cup {"create"}
      BY <1>2 DEF HasConfig, GoneOn
    <2> QED
      BY <1>1, <2>1 DEF OneConfig, Init
  <1>7. ItemsWell(trail, trace, buckets, queue, disk, sent, handed)
    BY DEF ItemsWell, Init
  <1> QED
    BY <1>3, <1>4, <1>5, <1>6, <1>7 DEF IndInv, Private

LEMMA StepHolds ==
  ASSUME IndInv, [Next]_vars
  PROVE  IndInv'
  <1>1. Types /\ WarnWell /\ SpansWell /\ HookWell /\ InTrace /\ (~overlap => Private)
    BY DEF IndInv
  <1>2. Types' /\ WarnWell' /\ SpansWell' /\ HookWell' /\ InTrace'
    BY <1>1, TypesStep, WarnStep, SpansStep, HookStep, InTraceStep
  <1>3. ASSUME ~overlap' PROVE Private'
    <2>1. overlap \in BOOLEAN /\ (~overlap => OneConfig)
      BY <1>1 DEF Types, Private
    <2>2. OneConfig' /\ ~overlap
      BY <1>1, <1>3, <2>1, ConfigStep
    <2>3. ItemsWell(trail', trace', buckets', queue', disk', sent', handed')
      BY <1>1, <2>2, ItemsStep
    <2> QED
      BY <2>2, <2>3 DEF Private
  <1> QED
    BY <1>2, <1>3 DEF IndInv

\* The invariant of the three arguments holds of every program
\* (forgeops_tracker.c:20-160).
THEOREM Inductive == Spec => []IndInv
  <1>1. Init => IndInv
    BY InitHolds
  <1>2. IndInv /\ [Next]_vars => IndInv'
    BY StepHolds
  <1> QED
    BY <1>1, <1>2, PTL DEF Spec

\* Every variable keeps its type: no call holds a configuration that was not
\* created, no exit hook runs of a feature that was not used.
THEOREM TypeCorrect == Spec => []TypeOK
  <1>1. IndInv => TypeOK
    <2> SUFFICES ASSUME Types PROVE TypeOK
      BY DEF IndInv
    <2>1. {hooks[i] : i \in DOMAIN hooks} \subseteq registered
      <3> SUFFICES ASSUME NEW i \in DOMAIN hooks PROVE hooks[i] \in registered
        OBVIOUS
      <3>1. hooks[i] \in Features
        BY ElementOfSeq, LenProperties DEF Types
      <3> QED
        BY <3>1 DEF Types, InHooks
    <2>2. \A t \in Threads :
            /\ call[t].pc \in {"idle", "create", "have", "warn", "exchange", "print", "exit"} \cup GoneOn
            /\ call[t].pc \notin {"idle", "exit"} => call[t].op \in Ops
            /\ call[t].config \in 0..Len(structs)
            /\ user[t] \in 0..Len(handed)
      BY CallParts DEF Types, CallPcs
    <2> QED
      BY <2>1, <2>2 DEF Types, TypeOK
  <1> QED
    BY <1>1, Inductive, PTL

\* The warning is given at most once in a process, however many threads make
\* their first calls at once; and when a call that found it due goes on, it
\* has been given, one thread is giving it just then, or its text could not
\* be built (warn_once_if_environment_is_not_enabled,
\* forgeops_tracker.c:66-82).
THEOREM WarningIsGivenOnce == Spec => []WarnsOnceWhenDue
  <1>1. IndInv => WarnsOnceWhenDue
    BY DEF IndInv, WarnWell, WarnsOnceWhenDue
  <1> QED
    BY <1>1, Inductive, PTL

\* An exit without a miss leaves no samples, no queued traces that a worker
\* could have taken, and none of the run's reports, unless a capture has set
\* the flag of the upload and not called atexit yet, whichever features were
\* used, in whichever order (forgeops_tracker.c:122-127, performance.c:87,
\* spans.c:241).
THEOREM ExitIsComplete == Spec => []ExitLeavesNothingBehind
  <1>1. IndInv => ExitLeavesNothingBehind
    <2> SUFFICES ASSUME IndInv, phase = "ended", ~missed
                 PROVE  /\ buckets = {} /\ (spansWorker # "none" => queue = {})
                        /\ Registering("upload") \/ \A report \in disk : report.run < runs
      BY DEF ExitLeavesNothingBehind
    <2>1. \A feature \in Features : ~InHooks(hooks, feature)
      BY DEF IndInv, HookWell, InHooks
    <2>2. buckets = {} /\ (spansWorker # "none" => queue = {})
      BY <2>1 DEF IndInv, HookWell, Features
    <2>3. ASSUME ~Registering("upload"), NEW report \in disk PROVE report.run < runs
      <3>1. report.run # runs
        BY <2>1, <2>3 DEF IndInv, HookWell, Comes, Features
      <3> QED
        BY <3>1 DEF IndInv, HookWell, Types
    <2> QED
      BY <2>2, <2>3
  <1> QED
    BY <1>1, Inductive, PTL

\* While one configuration is shared, no text leaves the process, in this run
\* or through the disk in a later one, that the settings forbid: neither
\* those the payload was built under nor those asked for when the text was
\* handed over (forgeops_tracker.c:47-52, event_builder.c, spans.c,
\* breadcrumbs.c).
THEOREM TextIsPrivate == Spec => []StrictTextNeverLeaves
  <1>1. IndInv => StrictTextNeverLeaves
    BY DEF IndInv, Private, ItemsWell, ItemOk, StrictTextNeverLeaves
  <1> QED
    BY <1>1, Inductive, PTL
=============================================================================
