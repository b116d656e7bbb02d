--------------------------- MODULE IndexerProofs ---------------------------
(***************************************************************************)
(* Proofs about Indexer, for every fetch limit, start ledger and bound:    *)
(* types, that only a lost mark repeats a handler's writes, that the       *)
(* cursor passes no event silently, and the refinement of EventDelivery.   *)
(***************************************************************************)
EXTENDS Indexer, FiniteSetTheorems, SequenceTheorems, WellFoundedInduction, TLAPS

\* Ledgers close one after the other: events are in the order of their ledgers.
ChainSorted ==
    /\ \A e \in DOMAIN chain : LedgerOf(e) <= latest
    /\ \A d, e \in DOMAIN chain : d < e => LedgerOf(d) <= LedgerOf(e)

\* Rows are of events of the chain.
RowsOfChain == processed \subseteq DOMAIN chain /\ logged \subseteq DOMAIN chain

\* The cursor exists once the process was started, and has not passed the network.
CursorBehind ==
    /\ origin >= NoCursor /\ origin <= cursor
    /\ origin = NoCursor => cursor = NoCursor
    /\ process # "down" => origin # NoCursor
    /\ cursor <= latest \/ cursor = origin

\* A poll runs in a live process and asked for ledgers behind the cursor.
PollAhead ==
    /\ process = "down" => At("idle")
    /\ ~At("idle") => cursor < poll.latest /\ poll.latest <= latest

Busy == poll.pc \notin {"idle", "fetch"}

\* The batch is a run of the chain behind the cursor, in chain order.
BatchOfChain ==
    /\ poll.i \in DOMAIN poll.batch
    /\ \A j \in DOMAIN poll.batch :
          poll.batch[j] \in DOMAIN chain /\ LedgerOf(poll.batch[j]) > cursor
    /\ \A j, k \in DOMAIN poll.batch : j < k => poll.batch[j] < poll.batch[k]

\* An event behind the cursor that is not in the batch comes after it: cut off
\* by the limit, or of a later ledger.
BatchComplete ==
    \A e \in DOMAIN chain : LedgerOf(e) > cursor =>
        \/ \E j \in DOMAIN poll.batch : e = poll.batch[j]
        \/ \A j \in DOMAIN poll.batch :
              /\ poll.batch[j] < e
              /\ e > FetchLimit \/ LedgerOf(poll.batch[j]) < LedgerOf(e)

\* What the loop has left behind is processed, ignored or logged.
BatchSettled ==
    \A j \in DOMAIN poll.batch : j < poll.i \/ At("finish") =>
        poll.batch[j] \in processed \cup logged \/ KindOf(poll.batch[j]) = "ignored"

\* The event in hand is not processed, and has the kind its branch is for.
CurrentOpen ==
    /\ At("handle") \/ At("mark") => Current \notin processed /\ KindOf(Current) = "handled"
    /\ At("quarantine") \/ At("markQuarantined") =>
          Current \notin processed /\ KindOf(Current) = "quarantined"

BatchInv == Busy => BatchOfChain /\ BatchComplete /\ BatchSettled /\ CurrentOpen

\* The ledger that the poll will move the cursor to is that of a processed
\* event of the batch, or the cursor itself.
LastInv ==
    ~At("idle") => \/ poll.last = cursor
                   \/ /\ Busy
                      /\ \E j \in DOMAIN poll.batch : /\ poll.batch[j] \in processed
                                                      /\ poll.last = LedgerOf(poll.batch[j])

Shape == TypeOK /\ ChainSorted /\ RowsOfChain /\ CursorBehind /\ PollAhead

IInv == Shape /\ BatchInv /\ LastInv /\ HandledOncePerMark /\ SkippedIsExplained

-----------------------------------------------------------------------------
\* Every nonempty set of naturals has a least element.
LEMMA LeastNatural ==
    ASSUME NEW T, T \subseteq Nat, T # {}
    PROVE  \E m \in T : \A k \in T : m <= k
<1> DEFINE R == OpToRel(<, Nat)
<1>1. IsWellFoundedOn(R, Nat)
  BY NatLessThanWellFounded
<1>2. PICK m \in T : \A k \in T : <<k, m>> \notin R
  <2> HIDE DEF R
  <2> QED BY <1>1, WFMin
<1>3. R = {ss \in Nat \X Nat : ss[1] < ss[2]}
  BY Zenon DEF OpToRel
<1>4. ASSUME NEW k \in T PROVE m <= k
  <2> HIDE DEF R
  <2>1. k \in Nat /\ m \in Nat
    OBVIOUS
  <2>2. ~(k < m)
    BY <1>2, <1>3, <2>1
  <2> QED BY <2>1, <2>2
<1> QED BY <1>4

\* What the types say of the chain and of the constants.
LEMMA ChainFields ==
    ASSUME TypeOK
    PROVE  /\ Len(chain) \in Nat /\ DOMAIN chain = 1..Len(chain)
           /\ DOMAIN chain \subseteq EventIds
           /\ \A e \in DOMAIN chain : /\ LedgerOf(e) \in 1..MaxLedger
                                      /\ KindOf(e) \in Kinds
           /\ latest \in Nat /\ MaxLedger \in Nat /\ MaxEvents \in Nat
<1>1. MaxLedger \in Nat /\ MaxEvents \in Nat
  BY LimitsAssumption DEF LimitsAssumption
<1>2. Len(chain) \in Nat /\ DOMAIN chain = 1..Len(chain)
  <2>1. chain \in Seq([ledger: 1..MaxLedger, kind: Kinds])
    BY DEF TypeOK
  <2> QED BY <2>1
<1>3. DOMAIN chain \subseteq EventIds
  <2>1. Len(chain) <= MaxEvents
    BY DEF TypeOK
  <2> QED BY <1>1, <1>2, <2>1 DEF EventIds
<1>4. ASSUME NEW e \in DOMAIN chain PROVE LedgerOf(e) \in 1..MaxLedger /\ KindOf(e) \in Kinds
  <2> DEFINE Ev == [ledger: 1..MaxLedger, kind: Kinds]
  <2>1. chain[e] \in Ev
    <3>1. chain \in Seq(Ev)
      BY DEF TypeOK
    <3> HIDE DEF Ev
    <3> QED BY <1>2, <3>1
  <2> QED BY <2>1 DEF LedgerOf, KindOf
<1>5. latest \in Nat
  BY <1>1 DEF TypeOK
<1> QED BY <1>1, <1>2, <1>3, <1>4, <1>5

\* The local variables of a poll.
LEMMA PollFields ==
    ASSUME TypeOK
    PROVE  /\ poll.latest \in Nat /\ poll.i \in Nat /\ poll.last \in Int
           /\ poll.batch \in Seq(EventIds)
           /\ Len(poll.batch) \in Nat /\ DOMAIN poll.batch = 1..Len(poll.batch)
           /\ \A j \in DOMAIN poll.batch : poll.batch[j] \in EventIds
BY DEF TypeOK, Poll

\* The events from a ledger on are a final segment of the chain, and fetchEvents
\* returns its first events, all of them unless it stops at the limit.
LEMMA FetchedBatch ==
    ASSUME TypeOK, ChainSorted, NEW s \in Int
    PROVE  \E m \in 1..(Len(chain) + 1), size \in 0..FetchLimit :
              /\ FetchEvents(s) = [i \in 1..size |-> m - 1 + i]
              /\ m - 1 + size <= Len(chain)
              /\ size = FetchLimit \/ m - 1 + size = Len(chain)
              /\ \A e \in DOMAIN chain : LedgerOf(e) >= s <=> e >= m
<1> DEFINE found == {e \in DOMAIN chain : LedgerOf(e) >= s}
           n == Len(chain)
<1>1. n \in Nat /\ DOMAIN chain = 1..n /\ \A e \in DOMAIN chain : LedgerOf(e) \in Int
  BY ChainFields
<1>2. FetchLimit \in Nat /\ FetchLimit > 0
  BY LimitsAssumption DEF LimitsAssumption
<1>3. \E m \in 1..(n + 1) : found = m..n
  <2>1. CASE found = {}
    <3>1. n + 1 \in 1..(n + 1) /\ found = (n + 1)..n
      BY <1>1, <2>1
    <3> QED BY <3>1
  <2>2. CASE found # {}
    <3>1. found \subseteq Nat
      BY <1>1
    <3>2. PICK m \in found : \A k \in found : m <= k
      BY <2>2, <3>1, LeastNatural
    <3>3. m \in 1..n /\ LedgerOf(m) >= s
      BY <1>1, <3>2
    <3>4. ASSUME NEW e \in m..n PROVE e \in found
      <4>1. e \in DOMAIN chain /\ (m = e \/ m < e)
        BY <1>1, <3>3
      <4>2. LedgerOf(m) <= LedgerOf(e)
        BY <1>1, <3>3, <4>1 DEF ChainSorted
      <4> QED BY <1>1, <3>3, <4>1, <4>2
    <3>5. found = m..n
      BY <1>1, <3>2, <3>3, <3>4
    <3> QED BY <1>1, <3>3, <3>5
  <2> QED BY <2>1, <2>2
<1>4. PICK m \in 1..(n + 1) : found = m..n
  BY <1>3
<1>5. Cardinality(found) = n - m + 1
  <2>1. m \in Int /\ n \in Int /\ m <= n + 1
    BY <1>1, <1>4
  <2>2. Cardinality(m..n) = IF m > n THEN 0 ELSE n - m + 1
    BY <2>1, FS_Interval
  <2> HIDE DEF found
  <2> QED BY <1>4, <2>1, <2>2
<1> DEFINE c == n - m + 1
           size == IF c > FetchLimit THEN FetchLimit ELSE c
<1>6. FetchEvents(s) = [i \in 1..size |-> m - 1 + i]
  <2>1. n - c = m - 1
    BY <1>1
  <2>2. FetchEvents(s) = [i \in 1..size |-> (n - c) + i]
    BY <1>5 DEF FetchEvents
  <2> HIDE DEF c, size
  <2> QED BY <2>1, <2>2
<1>7. size \in 0..FetchLimit /\ m - 1 + size <= n /\ (size = FetchLimit \/ m - 1 + size = n)
  BY <1>1, <1>2
<1>8. \A e \in DOMAIN chain : LedgerOf(e) >= s <=> e >= m
  <2> TAKE e \in DOMAIN chain
  <2>1. LedgerOf(e) >= s <=> e \in found
    OBVIOUS
  <2> QED BY <1>1, <1>4, <2>1
<1> QED BY <1>6, <1>7, <1>8

-----------------------------------------------------------------------------
\* What a jump of processEvent changes of the poll.
LEMMA GotoFields ==
    ASSUME TypeOK, NEW pc, pc \in {"quarantine", "markQuarantined", "handle", "mark", "log"},
           Goto(pc)
    PROVE  /\ poll' \in Poll
           /\ poll'.pc = pc /\ poll'.batch = poll.batch /\ poll'.i = poll.i
           /\ poll'.last = poll.last /\ poll'.latest = poll.latest
<1>1. poll \in Poll
  BY DEF TypeOK
<1> QED BY <1>1 DEF Goto, Poll

\* What going to the next event changes of the poll.
LEMMA NextEventFields ==
    ASSUME TypeOK, BatchOfChain, NEW success \in BOOLEAN, NextEvent(success)
    PROVE  /\ poll' \in Poll
           /\ poll'.batch = poll.batch /\ poll'.latest = poll.latest
           /\ poll'.i \in DOMAIN poll.batch
           /\ \/ poll'.pc = "check" /\ poll'.i = poll.i + 1
              \/ poll'.pc = "finish" /\ poll'.i = poll.i /\ poll.i = Len(poll.batch)
           /\ \/ poll'.last = poll.last
              \/ success /\ poll'.last = LedgerOf(Current)
<1>1. poll \in Poll
  BY DEF TypeOK
<1>2. LedgerOf(Current) \in Int
  BY ChainFields DEF BatchOfChain, Current
<1>3. poll.i \in Nat /\ poll.i \in 1..Len(poll.batch) /\ Len(poll.batch) \in Nat
      /\ DOMAIN poll.batch = 1..Len(poll.batch)
  BY PollFields DEF BatchOfChain
<1> DEFINE pc == IF poll.i = Len(poll.batch) THEN "finish" ELSE "check"
           i == IF poll.i = Len(poll.batch) THEN poll.i ELSE poll.i + 1
           last == IF success /\ LedgerOf(Current) > poll.last
                   THEN LedgerOf(Current) ELSE poll.last
<1>4. poll' = [poll EXCEPT !.pc = pc, !.i = i, !.last = last]
  BY DEF NextEvent
<1>5. pc \in {"check", "finish"} /\ i \in Nat /\ last \in Int
  BY <1>2, <1>3, PollFields
<1>6. /\ poll' \in Poll
      /\ poll'.batch = poll.batch /\ poll'.latest = poll.latest
      /\ poll'.pc = pc /\ poll'.i = i /\ poll'.last = last
  <2> HIDE DEF pc, i, last
  <2> QED BY <1>1, <1>4, <1>5 DEF Poll
<1> QED BY <1>3, <1>6

\* A step inside processEvent keeps what is known of the batch.
LEMMA GotoKeepsBatch ==
    ASSUME TypeOK, BatchInv, LastInv, Busy,
           NEW pc, pc \in {"quarantine", "markQuarantined", "handle", "mark", "log"},
           Goto(pc), UNCHANGED <<chain, cursor, processed, logged>>,
           pc \in {"handle", "mark"} => Current \notin processed /\ KindOf(Current) = "handled",
           pc \in {"quarantine", "markQuarantined"} =>
              Current \notin processed /\ KindOf(Current) = "quarantined"
    PROVE  BatchInv' /\ LastInv'
<1>1. /\ poll'.pc = pc /\ poll'.batch = poll.batch /\ poll'.i = poll.i
      /\ poll'.last = poll.last
  BY GotoFields
<1>2. BatchOfChain /\ BatchComplete /\ BatchSettled
  BY DEF BatchInv
<1>3. BatchOfChain'
  BY <1>1, <1>2 DEF BatchOfChain, LedgerOf
<1>4. BatchComplete'
  BY <1>1, <1>2 DEF BatchComplete, LedgerOf
<1>5. BatchSettled'
  BY <1>1, <1>2 DEF BatchSettled, KindOf, At
<1>6. CurrentOpen'
  BY <1>1 DEF CurrentOpen, Current, KindOf, At
<1>7. LastInv'
  BY <1>1 DEF LastInv, LedgerOf, At, Busy
<1> QED BY <1>3, <1>4, <1>5, <1>6, <1>7 DEF BatchInv

\* So does going to the next event, when the one in hand is settled.
LEMMA NextEventKeepsBatch ==
    ASSUME TypeOK, BatchInv, LastInv, Busy, ~At("finish"),
           NEW success \in BOOLEAN, NextEvent(success), UNCHANGED <<chain, cursor>>,
           processed \subseteq processed', logged \subseteq logged',
           Current \in processed' \cup logged' \/ KindOf(Current) = "ignored",
           success => Current \in processed'
    PROVE  BatchInv' /\ LastInv'
<1>1. BatchOfChain /\ BatchComplete /\ BatchSettled
  BY DEF BatchInv
<1>2. /\ poll'.batch = poll.batch
      /\ poll'.i \in DOMAIN poll.batch
      /\ \/ poll'.pc = "check" /\ poll'.i = poll.i + 1
         \/ poll'.pc = "finish" /\ poll'.i = poll.i /\ poll.i = Len(poll.batch)
      /\ \/ poll'.last = poll.last
         \/ success /\ poll'.last = LedgerOf(Current)
  BY <1>1, NextEventFields
<1>3. BatchOfChain'
  BY <1>1, <1>2 DEF BatchOfChain, LedgerOf
<1>4. BatchComplete'
  BY <1>1, <1>2 DEF BatchComplete, LedgerOf
<1>5. BatchSettled'
  <2> SUFFICES ASSUME NEW j \in DOMAIN poll.batch, j < poll'.i \/ At("finish")'
               PROVE  poll.batch[j] \in processed' \cup logged' \/ KindOf(poll.batch[j]) = "ignored"
    BY <1>2 DEF BatchSettled, KindOf
  <2>1. j < poll.i \/ j = poll.i
    BY <1>2, PollFields DEF At
  <2> QED BY <1>1, <2>1 DEF BatchSettled, Current
<1>6. CurrentOpen'
  BY <1>2 DEF CurrentOpen, At
<1>7. LastInv'
  <2>1. CASE poll'.last = poll.last
    BY <1>2, <2>1 DEF LastInv, LedgerOf, At, Busy
  <2>2. CASE success /\ poll'.last = LedgerOf(Current)
    <3>1. poll.i \in DOMAIN poll.batch
      BY <1>1 DEF BatchOfChain
    <3>2. poll'.batch[poll.i] \in processed' /\ poll'.last = chain'[poll'.batch[poll.i]].ledger
      BY <1>2, <2>2 DEF LedgerOf, Current
    <3> QED BY <1>2, <3>1, <3>2 DEF LastInv, At, Busy, LedgerOf
  <2> QED BY <1>2, <2>1, <2>2
<1> QED BY <1>3, <1>4, <1>5, <1>6, <1>7 DEF BatchInv

\* Marks and error rows never leave an event behind the cursor unexplained.
LEMMA MarksKeepExplained ==
    ASSUME SkippedIsExplained, UNCHANGED <<chain, cursor, origin>>,
           processed \subseteq processed', logged \subseteq logged'
    PROVE  SkippedIsExplained'
BY DEF SkippedIsExplained, Skipped, CutOff, LedgerOf, KindOf

-----------------------------------------------------------------------------
\* A step of a running poll that leaves chain and cursor alone keeps the shape.
LEMMA PollKeepsShape ==
    ASSUME Shape, UNCHANGED <<chain, latest, process, cursor, origin>>, ~At("idle"),
           poll' \in Poll, poll'.batch = <<>> \/ poll'.i \in DOMAIN poll'.batch,
           poll'.latest = poll.latest \/ poll'.pc = "idle",
           processed' \subseteq DOMAIN chain, logged' \subseteq DOMAIN chain,
           quarantine' \subseteq EventIds,
           effects' \in [EventIds -> Nat], unmarked' \in [EventIds -> Nat],
           faults' \in 0..MaxFaults
    PROVE  Shape'
<1>1. TypeOK /\ ChainSorted /\ CursorBehind /\ PollAhead
  BY DEF Shape
<1>2. DOMAIN chain \subseteq EventIds
  BY <1>1, ChainFields
<1>3. TypeOK'
  BY <1>1, <1>2 DEF TypeOK
<1>4. ChainSorted' /\ RowsOfChain'
  BY <1>1 DEF ChainSorted, RowsOfChain, LedgerOf
<1>5. CursorBehind' /\ PollAhead'
  BY <1>1 DEF CursorBehind, PollAhead, At
<1> QED BY <1>3, <1>4, <1>5 DEF Shape

\* The counts of an event change only where a handler or its mark is.
LEMMA CountsKept ==
    ASSUME HandledOncePerMark, UNCHANGED <<chain, effects, unmarked>>,
           ~At("mark"), poll'.pc # "mark",
           \A e \in EventIds : KindOf(e) = "handled" => (e \in processed' <=> e \in processed)
    PROVE  HandledOncePerMark'
BY DEF HandledOncePerMark, KindOf, At, Current

\* The event in hand.
LEMMA CurrentFields ==
    ASSUME Shape, BatchInv, Busy
    PROVE  /\ Current \in DOMAIN chain /\ Current \in EventIds
           /\ KindOf(Current) \in Kinds /\ LedgerOf(Current) > cursor
           /\ ~At("idle") /\ poll.i \in DOMAIN poll.batch
<1>1. TypeOK /\ BatchOfChain
  BY DEF Shape, BatchInv
<1>2. Current \in DOMAIN chain /\ poll.i \in DOMAIN poll.batch /\ LedgerOf(Current) > cursor
  BY <1>1 DEF BatchOfChain, Current
<1>3. ~At("idle")
  BY DEF Busy, At
<1> QED BY <1>1, <1>2, <1>3, ChainFields

\* Counting one more of an event.
LEMMA CountUp ==
    \A f \in [EventIds -> Nat] : \A e : [f EXCEPT ![e] = @ + 1] \in [EventIds -> Nat]
<1> TAKE f \in [EventIds -> Nat]
<1> TAKE e
<1> DEFINE g == [f EXCEPT ![e] = @ + 1]
<1>1. \A d \in EventIds : f[d] \in Nat
  OBVIOUS
<1>2. g = [d \in EventIds |-> IF d = e THEN f[d] + 1 ELSE f[d]]
  OBVIOUS
<1>3. \A d \in EventIds : (IF d = e THEN f[d] + 1 ELSE f[d]) \in Nat
  BY <1>1
<1> HIDE DEF g
<1>4. g \in [EventIds -> Nat]
  BY <1>2, <1>3
<1> QED BY <1>4 DEF g

\* A fault is counted within its bound.
LEMMA FaultBound ==
    ASSUME TypeOK, Fault
    PROVE  faults' \in 0..MaxFaults
BY LimitsAssumption DEF LimitsAssumption, TypeOK, Fault

-----------------------------------------------------------------------------
\* One lemma for each step of a poll.

LEMMA CheckEventStep ==
    ASSUME IInv, CheckEvent
    PROVE  IInv'
<1>1. Shape /\ TypeOK /\ BatchInv /\ LastInv /\ HandledOncePerMark /\ SkippedIsExplained
  BY DEF IInv, Shape
<1>2. /\ UNCHANGED <<chain, latest, process, cursor, origin, processed, quarantine,
                     logged, effects, unmarked, faults>>
      /\ poll.pc = "check" /\ Busy /\ ~At("finish") /\ ~At("mark")
  BY DEF CheckEvent, tables, At, Busy
<1>3. Current \in DOMAIN chain /\ KindOf(Current) \in Kinds /\ ~At("idle")
      /\ poll.i \in DOMAIN poll.batch /\ BatchOfChain
  BY <1>1, <1>2, CurrentFields DEF BatchInv
<1>4. CASE NextEvent(FALSE) /\ (Current \in processed \/ KindOf(Current) = "ignored")
  <2>1. BatchInv' /\ LastInv'
    BY <1>1, <1>2, <1>4, NextEventKeepsBatch
  <2>2. /\ poll' \in Poll /\ poll'.i \in DOMAIN poll'.batch /\ poll'.latest = poll.latest
        /\ poll'.pc # "mark"
    BY <1>1, <1>3, <1>4, NextEventFields
  <2>3. Shape'
    BY <1>1, <1>2, <1>3, <2>2, PollKeepsShape DEF Shape, TypeOK, RowsOfChain
  <2>4. HandledOncePerMark' /\ SkippedIsExplained'
    BY <1>1, <1>2, <2>2, CountsKept, MarksKeepExplained
  <2> QED BY <2>1, <2>3, <2>4 DEF IInv
<1>5. CASE \E pc \in {"quarantine", "handle"} :
              /\ Goto(pc) /\ Current \notin processed
              /\ KindOf(Current) = IF pc = "handle" THEN "handled" ELSE "quarantined"
  <2>0. PICK pc \in {"quarantine", "handle"} :
              /\ Goto(pc) /\ Current \notin processed
              /\ KindOf(Current) = IF pc = "handle" THEN "handled" ELSE "quarantined"
    BY <1>5
  <2>1. BatchInv' /\ LastInv'
    BY <1>1, <1>2, <2>0, GotoKeepsBatch
  <2>2. /\ poll' \in Poll /\ poll'.i \in DOMAIN poll'.batch /\ poll'.latest = poll.latest
        /\ poll'.pc # "mark"
    BY <1>1, <1>3, <2>0, GotoFields
  <2>3. Shape'
    BY <1>1, <1>2, <1>3, <2>2, PollKeepsShape DEF Shape, TypeOK, RowsOfChain
  <2>4. HandledOncePerMark' /\ SkippedIsExplained'
    BY <1>1, <1>2, <2>2, CountsKept, MarksKeepExplained
  <2> QED BY <2>1, <2>3, <2>4 DEF IInv
<1> QED BY <1>3, <1>4, <1>5 DEF CheckEvent, IsEventProcessed, Kinds

LEMMA QuarantineStep ==
    ASSUME IInv, Quarantine
    PROVE  IInv'
<1>1. Shape /\ TypeOK /\ BatchInv /\ LastInv /\ HandledOncePerMark /\ SkippedIsExplained
  BY DEF IInv, Shape
<1>2. /\ UNCHANGED <<chain, latest, process, cursor, origin, processed, logged,
                     effects, unmarked>>
      /\ Goto("markQuarantined")
      /\ poll.pc = "quarantine" /\ Busy /\ ~At("mark")
  BY DEF Quarantine, At, Busy
<1>3. Current \in EventIds /\ ~At("idle") /\ poll.i \in DOMAIN poll.batch
  BY <1>1, <1>2, CurrentFields
<1>4. faults' \in 0..MaxFaults /\ quarantine' \subseteq EventIds
  BY <1>1, <1>3, FaultBound DEF Quarantine, TypeOK
<1>5. Current \notin processed /\ KindOf(Current) = "quarantined"
  BY <1>1, <1>2 DEF BatchInv, CurrentOpen, At
<1>6. BatchInv' /\ LastInv'
  BY <1>1, <1>2, <1>5, GotoKeepsBatch
<1>7. /\ poll' \in Poll /\ poll'.i \in DOMAIN poll'.batch /\ poll'.latest = poll.latest
      /\ poll'.pc # "mark"
  BY <1>1, <1>2, <1>3, GotoFields
<1>8. Shape'
  BY <1>1, <1>2, <1>3, <1>4, <1>7, PollKeepsShape DEF Shape, TypeOK, RowsOfChain
<1>9. HandledOncePerMark' /\ SkippedIsExplained'
  BY <1>1, <1>2, <1>7, CountsKept, MarksKeepExplained
<1> QED BY <1>6, <1>8, <1>9 DEF IInv

LEMMA MarkQuarantinedStep ==
    ASSUME IInv, MarkQuarantined
    PROVE  IInv'
<1>1. Shape /\ TypeOK /\ BatchInv /\ LastInv /\ HandledOncePerMark /\ SkippedIsExplained
  BY DEF IInv, Shape
<1>2. /\ UNCHANGED <<chain, latest, process, cursor, origin, quarantine, logged,
                     effects, unmarked, faults>>
      /\ NextEvent(FALSE) /\ processed' = processed \cup {Current}
      /\ poll.pc = "markQuarantined" /\ Busy /\ ~At("mark") /\ ~At("finish")
  BY DEF MarkQuarantined, MarkProcessed, At, Busy
<1>3. Current \in DOMAIN chain /\ ~At("idle") /\ BatchOfChain /\ processed \subseteq DOMAIN chain
  BY <1>1, <1>2, CurrentFields DEF BatchInv, Shape, RowsOfChain
<1>4. KindOf(Current) = "quarantined"
  BY <1>1, <1>2 DEF BatchInv, CurrentOpen, At
<1>5. BatchInv' /\ LastInv'
  BY <1>1, <1>2, NextEventKeepsBatch
<1>6. /\ poll' \in Poll /\ poll'.i \in DOMAIN poll'.batch /\ poll'.latest = poll.latest
      /\ poll'.pc # "mark"
  BY <1>1, <1>2, <1>3, NextEventFields
<1>7. Shape'
  BY <1>1, <1>2, <1>3, <1>6, PollKeepsShape DEF Shape, TypeOK, RowsOfChain
<1>8. HandledOncePerMark'
  BY <1>1, <1>2, <1>4, <1>6, CountsKept
<1>9. SkippedIsExplained'
  BY <1>1, <1>2, MarksKeepExplained
<1> QED BY <1>5, <1>7, <1>8, <1>9 DEF IInv

LEMMA HandleStep ==
    ASSUME IInv, Handle
    PROVE  IInv'
<1>1. Shape /\ TypeOK /\ BatchInv /\ LastInv /\ HandledOncePerMark /\ SkippedIsExplained
  BY DEF IInv, Shape
<1>2. /\ UNCHANGED <<chain, latest, process, cursor, origin, processed, quarantine,
                     logged, unmarked, faults>>
      /\ Goto("mark") /\ effects' = [effects EXCEPT ![Current] = @ + 1]
      /\ poll.pc = "handle" /\ Busy
  BY DEF Handle, At, Busy
<1>3. Current \in EventIds /\ ~At("idle") /\ poll.i \in DOMAIN poll.batch
  BY <1>1, <1>2, CurrentFields
<1>4. Current \notin processed /\ KindOf(Current) = "handled"
  BY <1>1, <1>2 DEF BatchInv, CurrentOpen, At
<1>5. BatchInv' /\ LastInv'
  BY <1>1, <1>2, <1>4, GotoKeepsBatch
<1>6. /\ poll' \in Poll /\ poll'.batch = poll.batch /\ poll'.i = poll.i
      /\ poll'.latest = poll.latest /\ poll'.pc = "mark"
  BY <1>1, <1>2, GotoFields
<1>7. effects \in [EventIds -> Nat] /\ unmarked \in [EventIds -> Nat]
      /\ effects' \in [EventIds -> Nat]
  <2>1. effects \in [EventIds -> Nat] /\ unmarked \in [EventIds -> Nat]
    BY <1>1 DEF TypeOK
  <2> QED BY <1>2, <2>1, CountUp
<1>8. Shape'
  BY <1>1, <1>2, <1>3, <1>6, <1>7, PollKeepsShape DEF Shape, TypeOK, RowsOfChain
<1>9. HandledOncePerMark'
  <2> SUFFICES ASSUME NEW e \in EventIds
               PROVE  effects'[e] = unmarked[e]
                        + (IF e \in processed /\ KindOf(e) = "handled" THEN 1 ELSE 0)
                        + (IF Current = e THEN 1 ELSE 0)
    BY <1>2, <1>6 DEF HandledOncePerMark, At, Current, KindOf
  <2>1. effects[e] = unmarked[e]
                     + (IF e \in processed /\ KindOf(e) = "handled" THEN 1 ELSE 0)
    BY <1>1, <1>2, <1>7 DEF HandledOncePerMark, At
  <2>2. effects'[e] = IF e = Current THEN effects[e] + 1 ELSE effects[e]
    BY <1>2, <1>3, <1>7
  <2> QED BY <1>7, <2>1, <2>2
<1>10. SkippedIsExplained'
  BY <1>1, <1>2, MarksKeepExplained
<1> QED BY <1>5, <1>8, <1>9, <1>10 DEF IInv

LEMMA MarkEventProcessedStep ==
    ASSUME IInv, MarkEventProcessed
    PROVE  IInv'
<1>1. Shape /\ TypeOK /\ BatchInv /\ LastInv /\ HandledOncePerMark /\ SkippedIsExplained
  BY DEF IInv, Shape
<1>2. /\ UNCHANGED <<chain, latest, process, cursor, origin, quarantine, logged,
                     effects, unmarked, faults>>
      /\ NextEvent(TRUE) /\ processed' = processed \cup {Current}
      /\ poll.pc = "mark" /\ Busy /\ ~At("finish")
  BY DEF MarkEventProcessed, MarkProcessed, At, Busy
<1>3. Current \in DOMAIN chain /\ ~At("idle") /\ BatchOfChain /\ processed \subseteq DOMAIN chain
  BY <1>1, <1>2, CurrentFields DEF BatchInv, Shape, RowsOfChain
<1>4. Current \notin processed /\ KindOf(Current) = "handled"
  BY <1>1, <1>2 DEF BatchInv, CurrentOpen, At
<1>5. BatchInv' /\ LastInv'
  BY <1>1, <1>2, NextEventKeepsBatch
<1>6. /\ poll' \in Poll /\ poll'.i \in DOMAIN poll'.batch /\ poll'.latest = poll.latest
      /\ poll'.pc # "mark"
  BY <1>1, <1>2, <1>3, NextEventFields
<1>7. Shape'
  BY <1>1, <1>2, <1>3, <1>6, PollKeepsShape DEF Shape, TypeOK, RowsOfChain
<1>8. HandledOncePerMark'
  <2> SUFFICES ASSUME NEW e \in EventIds
               PROVE  effects[e] = unmarked[e]
                        + (IF e \in processed' /\ KindOf(e) = "handled" THEN 1 ELSE 0)
    BY <1>1, <1>2, <1>6 DEF HandledOncePerMark, At, KindOf, TypeOK
  <2>1. effects[e] = unmarked[e]
                     + (IF e \in processed /\ KindOf(e) = "handled" THEN 1 ELSE 0)
                     + (IF Current = e THEN 1 ELSE 0)
    BY <1>1, <1>2 DEF HandledOncePerMark, At
  <2>2. unmarked[e] \in Nat
    BY <1>1 DEF TypeOK
  <2> QED BY <1>2, <1>4, <2>1, <2>2
<1>9. SkippedIsExplained'
  BY <1>1, <1>2, MarksKeepExplained
<1> QED BY <1>5, <1>7, <1>8, <1>9 DEF IInv

LEMMA EventThrowsStep ==
    ASSUME IInv, EventThrows
    PROVE  IInv'
<1>1. Shape /\ TypeOK /\ BatchInv /\ LastInv /\ HandledOncePerMark /\ SkippedIsExplained
  BY DEF IInv, Shape
<1>2. /\ UNCHANGED <<chain, latest, process, cursor, origin, processed, quarantine, logged>>
      /\ Goto("log") /\ Fault /\ Busy
  BY DEF EventThrows, At, Busy
<1>3. Current \in EventIds /\ ~At("idle") /\ poll.i \in DOMAIN poll.batch
  BY <1>1, <1>2, CurrentFields
<1>4. BatchInv' /\ LastInv'
  BY <1>1, <1>2, GotoKeepsBatch
<1>5. /\ poll' \in Poll /\ poll'.batch = poll.batch /\ poll'.i = poll.i
      /\ poll'.latest = poll.latest /\ poll'.pc = "log"
  BY <1>1, <1>2, GotoFields
<1>6. effects \in [EventIds -> Nat] /\ unmarked \in [EventIds -> Nat]
  BY <1>1 DEF TypeOK
<1>7. effects' \in [EventIds -> Nat] /\ unmarked' \in [EventIds -> Nat]
  BY <1>6 DEF EventThrows
<1>8. faults' \in 0..MaxFaults
  BY <1>1, <1>2, FaultBound
<1>9. Shape'
  BY <1>1, <1>2, <1>3, <1>5, <1>7, <1>8, PollKeepsShape DEF Shape, TypeOK, RowsOfChain
<1>10. HandledOncePerMark'
  <2> SUFFICES ASSUME NEW e \in EventIds
               PROVE  effects'[e] = unmarked'[e]
                        + (IF e \in processed /\ KindOf(e) = "handled" THEN 1 ELSE 0)
    BY <1>2, <1>5, <1>7 DEF HandledOncePerMark, At, KindOf
  <2>1. effects[e] = unmarked[e]
                     + (IF e \in processed /\ KindOf(e) = "handled" THEN 1 ELSE 0)
                     + (IF At("mark") /\ Current = e THEN 1 ELSE 0)
    BY <1>1 DEF HandledOncePerMark
  <2>2. effects[e] \in Nat /\ unmarked[e] \in Nat
    BY <1>6
  <2>3. CASE ~At("mark") /\ UNCHANGED <<effects, unmarked>>
    BY <2>1, <2>2, <2>3
  <2>4. CASE /\ At("handle")
             /\ effects' = [effects EXCEPT ![Current] = @ + 1]
             /\ unmarked' = [unmarked EXCEPT ![Current] = @ + 1]
    <3>1. ~At("mark")
      BY <2>4 DEF At
    <3>2. /\ effects'[e] = IF e = Current THEN effects[e] + 1 ELSE effects[e]
          /\ unmarked'[e] = IF e = Current THEN unmarked[e] + 1 ELSE unmarked[e]
      BY <1>3, <1>6, <2>4
    <3> QED BY <2>1, <2>2, <3>1, <3>2
  <2>5. CASE /\ At("mark")
             /\ unmarked' = [unmarked EXCEPT ![Current] = @ + 1]
             /\ UNCHANGED effects
    <3>1. unmarked'[e] = IF e = Current THEN unmarked[e] + 1 ELSE unmarked[e]
      BY <1>3, <1>6, <2>5
    <3> QED BY <2>1, <2>2, <2>5, <3>1
  <2> QED BY <2>3, <2>4, <2>5 DEF EventThrows, At
<1>11. SkippedIsExplained'
  BY <1>1, <1>2, MarksKeepExplained
<1> QED BY <1>4, <1>9, <1>10, <1>11 DEF IInv

LEMMA LogErrorStep ==
    ASSUME IInv, LogError
    PROVE  IInv'
<1>1. Shape /\ TypeOK /\ BatchInv /\ LastInv /\ HandledOncePerMark /\ SkippedIsExplained
  BY DEF IInv, Shape
<1>2. /\ UNCHANGED <<chain, latest, process, cursor, origin, processed, quarantine,
                     effects, unmarked, faults>>
      /\ NextEvent(FALSE) /\ logged' = logged \cup {Current}
      /\ poll.pc = "log" /\ Busy /\ ~At("mark") /\ ~At("finish")
  BY DEF LogError, At, Busy
<1>3. Current \in DOMAIN chain /\ ~At("idle") /\ BatchOfChain /\ logged \subseteq DOMAIN chain
  BY <1>1, <1>2, CurrentFields DEF BatchInv, Shape, RowsOfChain
<1>4. BatchInv' /\ LastInv'
  BY <1>1, <1>2, NextEventKeepsBatch
<1>5. /\ poll' \in Poll /\ poll'.i \in DOMAIN poll'.batch /\ poll'.latest = poll.latest
      /\ poll'.pc # "mark"
  BY <1>1, <1>2, <1>3, NextEventFields
<1>6. Shape'
  BY <1>1, <1>2, <1>3, <1>5, PollKeepsShape DEF Shape, TypeOK, RowsOfChain
<1>7. HandledOncePerMark' /\ SkippedIsExplained'
  BY <1>1, <1>2, <1>5, CountsKept, MarksKeepExplained
<1> QED BY <1>4, <1>6, <1>7 DEF IInv

LEMMA BeginPollStep ==
    ASSUME IInv, BeginPoll
    PROVE  IInv'
<1>1. Shape /\ TypeOK /\ HandledOncePerMark /\ SkippedIsExplained
  BY DEF IInv, Shape
<1>2. /\ UNCHANGED <<chain, latest, process, cursor, origin, processed, quarantine,
                     logged, effects, unmarked, faults>>
      /\ process = "up" /\ poll.pc = "idle" /\ cursor + 1 <= latest
      /\ poll' = [IdlePoll EXCEPT !.pc = "fetch", !.latest = latest, !.last = cursor]
  BY DEF BeginPoll, tables, At
<1>3. latest \in Nat /\ cursor \in Int
  BY <1>1, ChainFields DEF TypeOK
<1>4. /\ poll' \in Poll /\ poll'.pc = "fetch" /\ poll'.latest = latest
      /\ poll'.last = cursor /\ poll'.batch = <<>>
  <2>1. IdlePoll \in Poll /\ IdlePoll.batch = <<>>
    BY DEF IdlePoll, Poll
  <2> QED BY <1>2, <1>3, <2>1 DEF Poll
<1>5. TypeOK'
  BY <1>1, <1>2, <1>4 DEF TypeOK
<1>6. ChainSorted' /\ RowsOfChain' /\ CursorBehind'
  BY <1>1, <1>2 DEF Shape, ChainSorted, RowsOfChain, CursorBehind, LedgerOf
<1>7. PollAhead'
  BY <1>2, <1>3, <1>4 DEF PollAhead, At
<1>8. BatchInv' /\ LastInv'
  BY <1>2, <1>4 DEF BatchInv, LastInv, Busy, At
<1>9. HandledOncePerMark'
  BY <1>1, <1>2, <1>4, CountsKept DEF At
<1>10. SkippedIsExplained'
  BY <1>1, <1>2, MarksKeepExplained
<1> QED BY <1>5, <1>6, <1>7, <1>8, <1>9, <1>10 DEF IInv, Shape

\* A poll that is over leaves nothing to know of its batch.
LEMMA IdleFields ==
    ASSUME poll' = IdlePoll
    PROVE  /\ poll' \in Poll /\ poll'.pc = "idle" /\ poll'.batch = <<>>
           /\ BatchInv' /\ LastInv'
<1>1. IdlePoll \in Poll /\ IdlePoll.pc = "idle" /\ IdlePoll.batch = <<>>
  BY DEF IdlePoll, Poll
<1> QED BY <1>1 DEF BatchInv, LastInv, Busy, At

LEMMA PollFailsStep ==
    ASSUME IInv, PollFails
    PROVE  IInv'
<1>1. Shape /\ TypeOK /\ HandledOncePerMark /\ SkippedIsExplained
  BY DEF IInv, Shape
<1>2. /\ UNCHANGED <<chain, latest, process, cursor, origin, processed, quarantine,
                     logged, effects, unmarked>>
      /\ Fault /\ poll' = IdlePoll /\ ~At("idle") /\ ~At("mark")
  BY DEF PollFails, tables, At
<1>3. faults' \in 0..MaxFaults
  BY <1>1, <1>2, FaultBound
<1>4. Shape'
  BY <1>1, <1>2, <1>3, IdleFields, PollKeepsShape DEF Shape, TypeOK, RowsOfChain
<1>5. HandledOncePerMark' /\ SkippedIsExplained'
  BY <1>1, <1>2, IdleFields, CountsKept, MarksKeepExplained
<1> QED BY <1>2, <1>4, <1>5, IdleFields DEF IInv

LEMMA CrashStep ==
    ASSUME IInv, Crash
    PROVE  IInv'
<1>1. Shape /\ TypeOK /\ BatchInv /\ HandledOncePerMark /\ SkippedIsExplained
  BY DEF IInv, Shape
<1>2. /\ UNCHANGED <<chain, latest, cursor, origin, processed, quarantine, logged, effects>>
      /\ Fault /\ poll' = IdlePoll /\ process' = "down"
      /\ unmarked' = IF At("mark") THEN [unmarked EXCEPT ![Current] = @ + 1] ELSE unmarked
  BY DEF Crash
<1>3. faults' \in 0..MaxFaults
  BY <1>1, <1>2, FaultBound
<1>4. effects \in [EventIds -> Nat] /\ unmarked \in [EventIds -> Nat]
  BY <1>1 DEF TypeOK
<1>5. unmarked' \in [EventIds -> Nat]
  BY <1>2, <1>4, CountUp
<1>6. TypeOK'
  BY <1>1, <1>2, <1>3, <1>5, IdleFields DEF TypeOK
<1>7. ChainSorted' /\ RowsOfChain' /\ CursorBehind'
  BY <1>1, <1>2 DEF Shape, ChainSorted, RowsOfChain, CursorBehind, LedgerOf
<1>8. PollAhead'
  BY <1>2, IdleFields DEF PollAhead, At
<1>9. HandledOncePerMark'
  <2> SUFFICES ASSUME NEW e \in EventIds
               PROVE  effects[e] = unmarked'[e]
                        + (IF e \in processed /\ KindOf(e) = "handled" THEN 1 ELSE 0)
    BY <1>2, <1>5, IdleFields DEF HandledOncePerMark, At, KindOf
  <2>1. effects[e] = unmarked[e]
                     + (IF e \in processed /\ KindOf(e) = "handled" THEN 1 ELSE 0)
                     + (IF At("mark") /\ Current = e THEN 1 ELSE 0)
    BY <1>1 DEF HandledOncePerMark
  <2>2. unmarked'[e] = unmarked[e] + (IF At("mark") /\ Current = e THEN 1 ELSE 0)
    BY <1>2, <1>4
  <2>3. unmarked[e] \in Nat
    BY <1>4
  <2> QED BY <2>1, <2>2, <2>3
<1>10. SkippedIsExplained'
  BY <1>1, <1>2, MarksKeepExplained
<1> QED BY <1>2, <1>6, <1>7, <1>8, <1>9, <1>10, IdleFields DEF IInv, Shape

LEMMA ShutdownSteps ==
    ASSUME IInv, BeginShutdown \/ EndShutdown
    PROVE  IInv'
<1>1. Shape /\ TypeOK /\ BatchInv /\ LastInv /\ HandledOncePerMark /\ SkippedIsExplained
  BY DEF IInv, Shape
<1>2. /\ UNCHANGED <<chain, latest, poll, cursor, origin, processed, quarantine, logged,
                     effects, unmarked>>
      /\ process \in {"up", "stopping"} /\ process' \in {"stopping", "down"}
      /\ process' = "down" => At("idle")
      /\ faults' = faults \/ Fault
  BY DEF BeginShutdown, EndShutdown, tables
<1>3. faults' \in 0..MaxFaults
  BY <1>1, <1>2, FaultBound DEF TypeOK
<1>4. TypeOK'
  BY <1>1, <1>2, <1>3 DEF TypeOK
<1>5. ChainSorted' /\ RowsOfChain'
  BY <1>1, <1>2 DEF Shape, ChainSorted, RowsOfChain, LedgerOf
<1>6. CursorBehind' /\ PollAhead'
  BY <1>1, <1>2 DEF Shape, CursorBehind, PollAhead, At
<1>7. BatchInv' /\ LastInv'
  BY <1>1, <1>2 DEF BatchInv, LastInv, Busy, BatchOfChain, BatchComplete, BatchSettled,
                    CurrentOpen, At, Current, LedgerOf, KindOf
<1>8. HandledOncePerMark'
  BY <1>1, <1>2 DEF HandledOncePerMark, At, Current, KindOf
<1>9. SkippedIsExplained'
  BY <1>1, <1>2, MarksKeepExplained
<1> QED BY <1>4, <1>5, <1>6, <1>7, <1>8, <1>9 DEF IInv, Shape

LEMMA StartProcessStep ==
    ASSUME IInv, StartProcess
    PROVE  IInv'
<1>1. Shape /\ TypeOK /\ CursorBehind /\ HandledOncePerMark /\ SkippedIsExplained
  BY DEF IInv, Shape
<1>2. /\ UNCHANGED <<chain, latest, poll, processed, quarantine, logged, effects,
                     unmarked, faults>>
      /\ process' = "up" /\ latest > 0 /\ poll.pc = "idle"
  BY <1>1 DEF StartProcess, Shape, PollAhead, At
<1>3. latest \in Nat /\ cursor \in Int /\ origin \in Int /\ ConfiguredStart \in Nat
  BY <1>1, ChainFields, LimitsAssumption DEF TypeOK, LimitsAssumption
<1>4. \/ cursor # NoCursor /\ cursor' = cursor /\ origin' = origin
      \/ /\ cursor = NoCursor /\ origin' = cursor'
         /\ cursor' \in Int /\ cursor' >= 0
  BY <1>2, <1>3 DEF StartProcess, GetStartLedger, InitializeCursor
<1>5. TypeOK'
  BY <1>1, <1>2, <1>3, <1>4 DEF TypeOK
<1>6. ChainSorted' /\ RowsOfChain'
  BY <1>1, <1>2 DEF Shape, ChainSorted, RowsOfChain, LedgerOf
<1>7. CursorBehind'
  BY <1>1, <1>2, <1>3, <1>4 DEF CursorBehind, NoCursor
<1>8. PollAhead' /\ BatchInv' /\ LastInv'
  BY <1>2 DEF PollAhead, BatchInv, LastInv, Busy, At
<1>9. HandledOncePerMark'
  BY <1>1, <1>2 DEF HandledOncePerMark, At, Current, KindOf
<1>10. SkippedIsExplained'
  <2>1. CASE cursor' = cursor /\ origin' = origin
    BY <1>1, <1>2, <2>1, MarksKeepExplained
  <2>2. CASE origin' = cursor' /\ cursor' \in Int
    <3>1. \A k : k \notin (origin' + 1)..cursor'
      BY <2>2
    <3> QED BY <3>1 DEF SkippedIsExplained, Skipped
  <2> QED BY <1>4, <2>1, <2>2
<1> QED BY <1>5, <1>6, <1>7, <1>8, <1>9, <1>10 DEF IInv, Shape

\* A closed ledger extends the chain by events of its own.
LEMMA ClosedLedger ==
    ASSUME TypeOK, CloseLedger
    PROVE  /\ chain' \in Seq([ledger: 1..MaxLedger, kind: Kinds])
           /\ Len(chain') <= MaxEvents /\ latest' \in 0..MaxLedger
           /\ DOMAIN chain \subseteq DOMAIN chain'
           /\ \A e \in DOMAIN chain : chain'[e] = chain[e]
           /\ \A e \in DOMAIN chain' \ DOMAIN chain :
                 chain'[e].ledger = latest + 1 /\ \A d \in DOMAIN chain : d < e
<1> DEFINE Ev == [ledger: 1..MaxLedger, kind: Kinds]
<1>1. /\ Len(chain) \in Nat /\ DOMAIN chain = 1..Len(chain) /\ latest \in Nat
      /\ MaxLedger \in Nat /\ MaxEvents \in Nat /\ Len(chain) <= MaxEvents
  BY ChainFields DEF TypeOK
<1>2. latest < MaxLedger /\ latest' = latest + 1
  BY DEF CloseLedger
<1>0. PICK n \in 0..(MaxEvents - Len(chain)) : \E kinds \in [1..n -> Kinds] :
          chain' = chain \o [i \in DOMAIN kinds |-> [ledger |-> latest + 1, kind |-> kinds[i]]]
  BY DEF CloseLedger
<1>3. PICK kinds \in [1..n -> Kinds] :
          chain' = chain \o [i \in DOMAIN kinds |-> [ledger |-> latest + 1, kind |-> kinds[i]]]
  BY <1>0
<1> DEFINE more == [i \in 1..n |-> [ledger |-> latest + 1, kind |-> kinds[i]]]
<1>4. chain' = chain \o more
  BY <1>3
<1>5. n \in Nat /\ n <= MaxEvents - Len(chain)
  BY <1>1, <1>3
<1>6. \A i \in 1..n : [ledger |-> latest + 1, kind |-> kinds[i]] \in Ev
  BY <1>1, <1>2, <1>3
<1>7. more \in [1..n -> Ev] /\ \A i \in 1..n : more[i].ledger = latest + 1
  BY <1>6
<1>8. more \in Seq(Ev) /\ Len(more) = n
  <2> HIDE DEF more, Ev
  <2> QED BY <1>5, <1>7
<1>9. chain \in Seq(Ev)
  BY DEF TypeOK
<1>10. /\ chain' \in Seq(Ev) /\ Len(chain') = Len(chain) + n
       /\ \A e \in 1..(Len(chain) + n) :
             chain'[e] = IF e <= Len(chain) THEN chain[e] ELSE more[e - Len(chain)]
  <2> HIDE DEF more, Ev
  <2> QED BY <1>4, <1>8, <1>9, ConcatProperties
<1>11. DOMAIN chain' = 1..(Len(chain) + n)
  <2> HIDE DEF Ev
  <2> QED BY <1>10
<1>12. \A e \in DOMAIN chain : e \in DOMAIN chain' /\ chain'[e] = chain[e]
  <2> HIDE DEF more, Ev
  <2> QED BY <1>1, <1>5, <1>10, <1>11
<1>13. ASSUME NEW e \in DOMAIN chain' \ DOMAIN chain
       PROVE  chain'[e].ledger = latest + 1 /\ \A d \in DOMAIN chain : d < e
  <2>1. e \in 1..(Len(chain) + n) /\ e > Len(chain) /\ e - Len(chain) \in 1..n
    BY <1>1, <1>5, <1>11
  <2> HIDE DEF more, Ev
  <2> QED BY <1>1, <1>7, <1>10, <2>1
<1>14. Len(chain') <= MaxEvents /\ latest' \in 0..MaxLedger
  BY <1>1, <1>2, <1>5, <1>10
<1> QED BY <1>10, <1>12, <1>13, <1>14

LEMMA CloseLedgerStep ==
    ASSUME IInv, CloseLedger
    PROVE  IInv'
<1>1. /\ TypeOK /\ ChainSorted /\ RowsOfChain /\ CursorBehind /\ PollAhead
      /\ BatchInv /\ LastInv /\ HandledOncePerMark /\ SkippedIsExplained
  BY DEF IInv, Shape
<1>2. /\ UNCHANGED <<process, poll, cursor, origin, processed, quarantine, logged,
                     effects, unmarked, faults>>
      /\ latest' = latest + 1
  BY DEF CloseLedger, tables
<1>3. /\ DOMAIN chain \subseteq DOMAIN chain' /\ DOMAIN chain \subseteq Nat /\ latest \in Nat
      /\ DOMAIN chain' \subseteq Nat /\ cursor \in Int /\ origin \in Int /\ poll.latest \in Nat
      /\ \A e \in DOMAIN chain : LedgerOf(e) \in Nat
  <2>1. chain' \in Seq([ledger: 1..MaxLedger, kind: Kinds])
    BY <1>1, ClosedLedger
  <2>2. DOMAIN chain' \subseteq Nat
    BY <2>1
  <2>3. DOMAIN chain \subseteq DOMAIN chain' /\ poll.latest \in Nat
    BY <1>1, ClosedLedger, PollFields
  <2>4. cursor \in Int /\ origin \in Int
    BY <1>1 DEF TypeOK
  <2> QED BY <1>1, <2>2, <2>3, <2>4, ChainFields
<1>4. \A e \in DOMAIN chain : chain'[e] = chain[e]
  BY <1>1, ClosedLedger
<1>5. \A e \in DOMAIN chain' \ DOMAIN chain :
         chain'[e].ledger = latest + 1 /\ \A d \in DOMAIN chain : d < e
  BY <1>1, ClosedLedger
<1>6. TypeOK'
  BY <1>1, <1>2, ClosedLedger DEF TypeOK
<1>7. ChainSorted'
  <2>1. ASSUME NEW e \in DOMAIN chain' PROVE chain'[e].ledger <= latest'
    BY <1>1, <1>2, <1>3, <1>4, <1>5 DEF ChainSorted, LedgerOf
  <2>2. ASSUME NEW d \in DOMAIN chain', NEW e \in DOMAIN chain', d < e
        PROVE  chain'[d].ledger <= chain'[e].ledger
    <3>1. CASE e \in DOMAIN chain /\ d \in DOMAIN chain
      BY <1>1, <1>4, <2>2, <3>1 DEF ChainSorted, LedgerOf
    <3>2. CASE e \notin DOMAIN chain
      <4>1. chain'[e].ledger = latest'
        BY <1>2, <1>5, <3>2
      <4> QED BY <2>1, <4>1
    <3>3. CASE e \in DOMAIN chain /\ d \notin DOMAIN chain
      <4>1. e < d /\ d \in Nat /\ e \in Nat
        BY <1>3, <1>5, <3>3
      <4> QED BY <2>2, <4>1
    <3> QED BY <3>1, <3>2, <3>3
  <2> QED BY <2>1, <2>2 DEF ChainSorted, LedgerOf
<1>8. RowsOfChain' /\ CursorBehind' /\ PollAhead'
  BY <1>1, <1>2, <1>3 DEF RowsOfChain, CursorBehind, PollAhead, At
<1>9. BatchInv'
  <2> SUFFICES ASSUME Busy PROVE (BatchOfChain /\ BatchComplete /\ BatchSettled /\ CurrentOpen)'
    BY <1>2 DEF BatchInv, Busy
  <2>1. BatchOfChain /\ BatchComplete /\ BatchSettled /\ CurrentOpen
    BY <1>1 DEF BatchInv
  <2>2. \A j \in DOMAIN poll.batch : poll.batch[j] \in DOMAIN chain
    BY <2>1 DEF BatchOfChain
  <2>3. BatchOfChain'
    BY <1>2, <1>3, <1>4, <2>1 DEF BatchOfChain, LedgerOf
  <2>4. BatchComplete'
    <3> SUFFICES ASSUME NEW e \in DOMAIN chain', chain'[e].ledger > cursor
                 PROVE  \/ \E j \in DOMAIN poll.batch : e = poll.batch[j]
                        \/ \A j \in DOMAIN poll.batch :
                              /\ poll.batch[j] < e
                              /\ e > FetchLimit \/ chain'[poll.batch[j]].ledger < chain'[e].ledger
      BY <1>2 DEF BatchComplete, LedgerOf
    <3>1. CASE e \in DOMAIN chain
      BY <1>4, <2>1, <2>2, <3>1 DEF BatchComplete, LedgerOf
    <3>2. CASE e \notin DOMAIN chain
      <4> SUFFICES ASSUME NEW j \in DOMAIN poll.batch
                   PROVE  poll.batch[j] < e /\ chain'[poll.batch[j]].ledger < chain'[e].ledger
        OBVIOUS
      <4>1. LedgerOf(poll.batch[j]) <= latest
        BY <1>1, <2>2 DEF ChainSorted
      <4> QED BY <1>3, <1>4, <1>5, <2>2, <3>2, <4>1 DEF LedgerOf
    <3> QED BY <3>1, <3>2
  <2>5. BatchSettled'
    BY <1>2, <1>4, <2>1, <2>2 DEF BatchSettled, KindOf, At
  <2>6. CurrentOpen'
    <3>1. Current \in DOMAIN chain
      BY <2>1 DEF BatchOfChain, Current
    <3> QED BY <1>2, <1>4, <2>1, <3>1 DEF CurrentOpen, Current, KindOf, At
  <2> QED BY <2>3, <2>4, <2>5, <2>6
<1>10. LastInv'
  BY <1>1, <1>2, <1>4 DEF LastInv, RowsOfChain, LedgerOf, At, Busy
<1>11. HandledOncePerMark'
  BY <1>1, <1>2, <1>4 DEF HandledOncePerMark, RowsOfChain, KindOf, At, Current
<1>12. SkippedIsExplained'
  <2> SUFFICES ASSUME NEW e \in DOMAIN chain',
                      chain'[e].ledger \in (origin + 1)..cursor,
                      chain'[e].kind # "ignored", e \notin processed
               PROVE  e \in logged \cup CutOff'
    BY <1>2 DEF SkippedIsExplained, Skipped, LedgerOf, KindOf
  <2>1. e \in DOMAIN chain
    <3>1. CASE cursor = origin
      BY <1>3, <3>1
    <3>2. CASE cursor <= latest /\ e \notin DOMAIN chain
      BY <1>3, <1>5, <3>2
    <3> QED BY <1>1, <3>1, <3>2 DEF CursorBehind
  <2>2. e \in logged \cup CutOff
    BY <1>1, <1>4, <2>1 DEF SkippedIsExplained, Skipped, LedgerOf, KindOf
  <2>3. CASE e \in CutOff
    BY <1>1, <1>2, <1>4, <2>1, <2>3 DEF CutOff, RowsOfChain, LedgerOf
  <2> QED BY <2>2, <2>3
<1> QED BY <1>6, <1>7, <1>8, <1>9, <1>10, <1>11, <1>12 DEF IInv, Shape

\* The cursor moves only past events that are explained.
LEMMA CursorMoves ==
    ASSUME Shape, SkippedIsExplained, ~At("idle"), poll' = IdlePoll,
           cursor' \in Int, cursor' >= cursor, cursor' <= latest,
           UNCHANGED <<chain, latest, process, origin, processed, quarantine, logged,
                       effects, unmarked, faults>>,
           \A e \in DOMAIN chain :
              LedgerOf(e) > cursor /\ LedgerOf(e) <= cursor' /\ e \notin processed
                 => KindOf(e) = "ignored" \/ e \in logged \cup CutOff'
    PROVE  Shape' /\ SkippedIsExplained'
<1>1. TypeOK /\ ChainSorted /\ RowsOfChain /\ CursorBehind /\ PollAhead
  BY DEF Shape
<1>2. cursor \in Int /\ origin \in Int /\ latest \in Nat
      /\ \A e \in DOMAIN chain : LedgerOf(e) \in Nat
  BY <1>1, ChainFields DEF TypeOK
<1>3. TypeOK'
  BY <1>1, IdleFields DEF TypeOK
<1>4. ChainSorted' /\ RowsOfChain'
  BY <1>1 DEF ChainSorted, RowsOfChain, LedgerOf
<1>5. PollAhead'
  BY IdleFields DEF PollAhead, At
<1>6. CursorBehind'
  <2>1. process # "down" /\ origin # NoCursor
    BY <1>1 DEF PollAhead, CursorBehind
  <2> QED BY <1>1, <1>2, <2>1 DEF CursorBehind, NoCursor
<1>7. SkippedIsExplained'
  <2> SUFFICES ASSUME NEW e \in DOMAIN chain,
                      LedgerOf(e) \in (origin + 1)..cursor',
                      KindOf(e) # "ignored", e \notin processed
               PROVE  e \in logged \cup CutOff'
    BY DEF SkippedIsExplained, Skipped, LedgerOf, KindOf
  <2>1. CASE LedgerOf(e) <= cursor
    <3>1. e \in Skipped
      BY <1>2, <2>1 DEF Skipped
    <3>2. e \in logged \cup CutOff
      BY <3>1 DEF SkippedIsExplained
    <3>3. CutOff \subseteq CutOff'
      BY <1>2 DEF CutOff, LedgerOf
    <3> QED BY <3>2, <3>3
  <2>2. CASE LedgerOf(e) > cursor
    BY <1>2, <2>2
  <2> QED BY <1>2, <2>1, <2>2
<1> QED BY <1>3, <1>4, <1>5, <1>6, <1>7 DEF Shape

LEMMA FetchStep ==
    ASSUME IInv, Fetch
    PROVE  IInv'
<1>1. /\ Shape /\ TypeOK /\ ChainSorted /\ PollAhead /\ LastInv
      /\ HandledOncePerMark /\ SkippedIsExplained
  BY DEF IInv, Shape
<1>2. /\ UNCHANGED <<chain, latest, process, origin, processed, quarantine, logged,
                     effects, unmarked, faults>>
      /\ poll.pc = "fetch" /\ ~At("idle") /\ ~At("mark")
  BY DEF Fetch, At
<1>3. /\ Len(chain) \in Nat /\ DOMAIN chain = 1..Len(chain) /\ latest \in Nat
      /\ DOMAIN chain \subseteq EventIds
      /\ \A e \in DOMAIN chain : LedgerOf(e) \in Nat
      /\ cursor \in Int /\ FetchLimit \in Nat \ {0} /\ poll.latest \in Nat
  BY <1>1, ChainFields, PollFields, LimitsAssumption DEF TypeOK, LimitsAssumption
<1> DEFINE batch == FetchEvents(cursor + 1)
<1>4. PICK m \in 1..(Len(chain) + 1), size \in 0..FetchLimit :
          /\ batch = [i \in 1..size |-> m - 1 + i]
          /\ m - 1 + size <= Len(chain)
          /\ size = FetchLimit \/ m - 1 + size = Len(chain)
          /\ \A e \in DOMAIN chain : LedgerOf(e) >= cursor + 1 <=> e >= m
  <2>1. cursor + 1 \in Int
    BY <1>3
  <2> QED BY ONLY <1>1, <2>1, FetchedBatch
<1>5. \/ batch = <<>> /\ cursor' = poll.latest /\ poll' = IdlePoll
      \/ /\ batch # <<>> /\ cursor' = cursor
         /\ poll' = [poll EXCEPT !.pc = "check", !.batch = batch, !.i = 1]
  BY DEF Fetch, UpdateCursor
<1> HIDE DEF batch
<1>6. m \in Nat /\ size \in Nat /\ size <= FetchLimit /\ m >= 1
  BY <1>3, <1>4
<1>7. CASE batch = <<>> /\ cursor' = poll.latest /\ poll' = IdlePoll
  <2>1. size = 0
    <3>1. DOMAIN batch = 1..size /\ DOMAIN batch = {}
      BY <1>4, <1>7
    <3> QED BY <1>6, <3>1
  <2>2. \A e \in DOMAIN chain : ~(LedgerOf(e) > cursor)
    BY <1>3, <1>4, <1>6, <2>1
  <2>3. cursor' \in Int /\ cursor' >= cursor /\ cursor' <= latest
    BY <1>1, <1>2, <1>3, <1>7 DEF PollAhead
  <2>4. Shape' /\ SkippedIsExplained'
    BY <1>1, <1>2, <1>7, <2>2, <2>3, CursorMoves
  <2>5. HandledOncePerMark'
    BY <1>1, <1>2, <1>7, IdleFields, CountsKept
  <2> QED BY <1>7, <2>4, <2>5, IdleFields DEF IInv
<1>8. CASE /\ batch # <<>> /\ cursor' = cursor
           /\ poll' = [poll EXCEPT !.pc = "check", !.batch = batch, !.i = 1]
  <2>1. DOMAIN batch = 1..size /\ \A j \in 1..size : batch[j] = m - 1 + j
    BY <1>4
  <2>2. \A j \in 1..size : batch[j] \in DOMAIN chain
    BY <1>3, <1>4, <1>6, <2>1
  <2>3. batch \in Seq(EventIds) /\ Len(batch) = size
    <3>1. batch \in [1..size -> EventIds]
      BY <1>3, <1>4, <2>1, <2>2
    <3> QED BY <1>6, <3>1
  <2>4. size >= 1
    <3>1. CASE size = 0
      BY <1>8, <2>3, <3>1, EmptySeq
    <3> QED BY <1>6, <3>1
  <2>5. /\ poll' \in Poll /\ poll'.pc = "check" /\ poll'.batch = batch /\ poll'.i = 1
        /\ poll'.latest = poll.latest /\ poll'.last = poll.last
    <3>1. poll \in Poll
      BY <1>1 DEF TypeOK
    <3> QED BY <1>8, <2>3, <3>1 DEF Poll
  <2>6. Shape'
    <3>1. poll'.i \in DOMAIN poll'.batch
      BY <1>6, <2>1, <2>4, <2>5
    <3> QED BY <1>1, <1>2, <1>8, <2>5, <3>1, PollKeepsShape DEF Shape, TypeOK, RowsOfChain
  <2>7. BatchOfChain'
    <3>1. 1 \in 1..size
      BY <1>6, <2>4
    <3>2. \A j \in 1..size : batch[j] \in DOMAIN chain /\ LedgerOf(batch[j]) > cursor
      BY <1>3, <1>4, <1>6, <2>1, <2>2
    <3>3. \A j, k \in 1..size : j < k => batch[j] < batch[k]
      BY <1>6, <2>1
    <3> QED BY <1>2, <1>8, <2>1, <2>5, <3>1, <3>2, <3>3 DEF BatchOfChain, LedgerOf
  <2>8. BatchComplete'
    <3> SUFFICES ASSUME NEW e \in DOMAIN chain, LedgerOf(e) > cursor
                 PROVE  \/ \E j \in 1..size : e = batch[j]
                        \/ \A j \in 1..size : batch[j] < e /\ e > FetchLimit
      BY <1>2, <1>8, <2>1, <2>5 DEF BatchComplete, LedgerOf
    <3>1. e \in Nat /\ e >= m
      BY <1>3, <1>4
    <3>2. CASE e <= m - 1 + size
      <4>1. e - m + 1 \in 1..size /\ e = m - 1 + (e - m + 1)
        BY <1>6, <3>1, <3>2
      <4> QED BY <2>1, <4>1
    <3>3. CASE e > m - 1 + size
      <4>1. size = FetchLimit
        BY <1>3, <1>4, <1>6, <3>3
      <4>2. \A j \in 1..size : m - 1 + j < e /\ e > FetchLimit
        BY <1>6, <3>1, <3>3, <4>1
      <4> QED BY <2>1, <4>2
    <3> QED BY <1>6, <3>1, <3>2, <3>3
  <2>9. BatchSettled' /\ CurrentOpen'
    BY <1>6, <2>1, <2>5 DEF BatchSettled, CurrentOpen, At
  <2>10. LastInv'
    BY <1>1, <1>2, <1>8, <2>5 DEF LastInv, Busy, At
  <2>11. HandledOncePerMark' /\ SkippedIsExplained'
    BY <1>1, <1>2, <1>8, <2>5, CountsKept, MarksKeepExplained
  <2> QED BY <2>6, <2>7, <2>8, <2>9, <2>10, <2>11 DEF IInv, BatchInv
<1> QED BY <1>5, <1>7, <1>8

LEMMA FinishPollStep ==
    ASSUME IInv, FinishPoll
    PROVE  IInv'
<1>1. /\ Shape /\ TypeOK /\ ChainSorted /\ CursorBehind /\ PollAhead /\ LastInv
      /\ HandledOncePerMark /\ SkippedIsExplained
  BY DEF IInv, Shape
<1>2. /\ UNCHANGED <<chain, latest, process, origin, processed, quarantine, logged,
                     effects, unmarked, faults>>
      /\ poll' = IdlePoll /\ cursor' = (IF poll.last > cursor THEN poll.last ELSE cursor)
      /\ At("finish") /\ ~At("idle") /\ ~At("mark") /\ Busy
  BY DEF FinishPoll, UpdateCursor, At, Busy
<1>3. BatchOfChain /\ BatchComplete /\ BatchSettled
  BY <1>2 DEF IInv, BatchInv
<1>4. /\ cursor \in Int /\ poll.last \in Int /\ latest \in Nat /\ DOMAIN chain \subseteq Nat
      /\ \A e \in DOMAIN chain : LedgerOf(e) \in Nat
      /\ origin \in Int /\ origin <= cursor /\ FetchLimit \in Nat
  <2>1. poll.last \in Int /\ latest \in Nat
    BY <1>1, PollFields, ChainFields
  <2>2. DOMAIN chain \subseteq Nat /\ \A e \in DOMAIN chain : LedgerOf(e) \in Nat
    BY <1>1, ChainFields
  <2>3. cursor \in Int /\ origin \in Int /\ origin <= cursor
    BY <1>1 DEF TypeOK, CursorBehind
  <2>4. FetchLimit \in Nat
    BY LimitsAssumption DEF LimitsAssumption
  <2> QED BY <2>1, <2>2, <2>3, <2>4
<1>5. cursor' \in Int /\ cursor' >= cursor
  BY <1>2, <1>4
<1>6. cursor' = cursor \/ \E j \in DOMAIN poll.batch :
         poll.batch[j] \in processed /\ cursor' = LedgerOf(poll.batch[j])
  BY <1>1, <1>2 DEF LastInv
<1>7. cursor' <= latest
  <2>1. CASE cursor' = cursor
    BY <1>1, <1>2, <1>4, <2>1, PollFields DEF PollAhead
  <2>2. CASE \E j \in DOMAIN poll.batch : cursor' = LedgerOf(poll.batch[j])
    BY <1>1, <1>3, <2>2 DEF BatchOfChain, ChainSorted
  <2> QED BY <1>6, <2>1, <2>2
<1>8. ASSUME NEW e \in DOMAIN chain, LedgerOf(e) > cursor, LedgerOf(e) <= cursor',
             e \notin processed
      PROVE  KindOf(e) = "ignored" \/ e \in logged \cup CutOff'
  <2>1. CASE \E j \in DOMAIN poll.batch : e = poll.batch[j]
    BY <1>2, <1>3, <1>8, <2>1 DEF BatchSettled
  <2>2. CASE \A j \in DOMAIN poll.batch :
                /\ poll.batch[j] < e
                /\ e > FetchLimit \/ LedgerOf(poll.batch[j]) < LedgerOf(e)
    <3>1. cursor' # cursor
      BY <1>4, <1>8
    <3>2. PICK j \in DOMAIN poll.batch :
             poll.batch[j] \in processed /\ cursor' = LedgerOf(poll.batch[j])
      BY <1>6, <3>1
    <3>3. poll.batch[j] \in DOMAIN chain /\ poll.batch[j] < e
      BY <1>3, <2>2 DEF BatchOfChain
    <3>4. LedgerOf(poll.batch[j]) = LedgerOf(e)
      <4>1. LedgerOf(poll.batch[j]) <= LedgerOf(e)
        BY <1>1, <3>3 DEF ChainSorted
      <4> QED BY <1>4, <1>8, <3>2, <3>3, <4>1
    <3>5. e > FetchLimit
      BY <1>4, <2>2, <3>3, <3>4
    <3>6. LedgerOf(e) \in (origin + 1)..cursor'
      BY <1>4, <1>5, <1>8
    <3>7. e \in CutOff'
      BY <1>2, <3>2, <3>3, <3>4, <3>5, <3>6 DEF CutOff, LedgerOf
    <3> QED BY <3>7
  <2> QED BY <1>3, <1>8, <2>1, <2>2 DEF BatchComplete
<1>9. Shape' /\ SkippedIsExplained'
  BY <1>1, <1>2, <1>5, <1>7, <1>8, CursorMoves
<1>10. HandledOncePerMark'
  BY <1>1, <1>2, IdleFields, CountsKept
<1> QED BY <1>2, <1>9, <1>10, IdleFields DEF IInv

-----------------------------------------------------------------------------
\* The invariant is inductive.

LEMMA InitInv == Init => IInv
<1> SUFFICES ASSUME Init PROVE IInv
  OBVIOUS
<1>1. chain = <<>> /\ DOMAIN chain = {} /\ Len(chain) = 0
  BY DEF Init
<1>2. IdlePoll \in Poll /\ IdlePoll.pc = "idle" /\ IdlePoll.batch = <<>>
  BY DEF IdlePoll, Poll
<1>3. TypeOK
  <2>1. MaxLedger \in Nat /\ MaxEvents \in Nat /\ MaxFaults \in Nat
    BY LimitsAssumption DEF LimitsAssumption
  <2>2. chain \in Seq([ledger: 1..MaxLedger, kind: Kinds])
    BY <1>1
  <2> QED BY <1>1, <1>2, <2>1, <2>2 DEF Init, TypeOK, NoCursor
<1>4. ChainSorted /\ RowsOfChain
  BY <1>1 DEF Init, ChainSorted, RowsOfChain
<1>5. CursorBehind
  BY DEF Init, CursorBehind, NoCursor
<1>6. PollAhead /\ BatchInv /\ LastInv
  BY <1>2 DEF Init, PollAhead, BatchInv, LastInv, Busy, At
<1>7. HandledOncePerMark
  BY <1>2 DEF Init, HandledOncePerMark, At
<1>8. SkippedIsExplained
  BY <1>1 DEF SkippedIsExplained, Skipped
<1> QED BY <1>3, <1>4, <1>5, <1>6, <1>7, <1>8 DEF IInv, Shape

LEMMA StutterInv ==
    ASSUME IInv, UNCHANGED vars
    PROVE  IInv'
<1>1. UNCHANGED <<chain, latest, process, poll, cursor, origin, processed, quarantine,
                  logged, effects, unmarked, faults>>
  BY DEF vars
<1> QED BY <1>1 DEF IInv, Shape, TypeOK, ChainSorted, RowsOfChain, CursorBehind, PollAhead,
       BatchInv, LastInv, HandledOncePerMark, SkippedIsExplained, Busy, BatchOfChain,
       BatchComplete, BatchSettled, CurrentOpen, Skipped, CutOff, At, Current,
       LedgerOf, KindOf

LEMMA NextInv == IInv /\ [Next]_vars => IInv'
<1> SUFFICES ASSUME IInv, [Next]_vars PROVE IInv'
  OBVIOUS
<1>1. CASE CloseLedger         BY <1>1, CloseLedgerStep
<1>2. CASE StartProcess        BY <1>2, StartProcessStep
<1>3. CASE BeginShutdown       BY <1>3, ShutdownSteps
<1>4. CASE EndShutdown         BY <1>4, ShutdownSteps
<1>5. CASE Crash               BY <1>5, CrashStep
<1>6. CASE BeginPoll           BY <1>6, BeginPollStep
<1>7. CASE Fetch               BY <1>7, FetchStep
<1>8. CASE CheckEvent          BY <1>8, CheckEventStep
<1>9. CASE Quarantine          BY <1>9, QuarantineStep
<1>10. CASE MarkQuarantined    BY <1>10, MarkQuarantinedStep
<1>11. CASE Handle             BY <1>11, HandleStep
<1>12. CASE MarkEventProcessed BY <1>12, MarkEventProcessedStep
<1>13. CASE LogError           BY <1>13, LogErrorStep
<1>14. CASE FinishPoll         BY <1>14, FinishPollStep
<1>15. CASE EventThrows        BY <1>15, EventThrowsStep
<1>16. CASE PollFails          BY <1>16, PollFailsStep
<1>17. CASE UNCHANGED vars     BY <1>17, StutterInv
<1> QED BY <1>1, <1>2, <1>3, <1>4, <1>5, <1>6, <1>7, <1>8, <1>9, <1>10, <1>11, <1>12,
           <1>13, <1>14, <1>15, <1>16, <1>17 DEF Next, PollStep

LEMMA Invariance == Spec => []IInv
BY InitInv, NextInv, PTL DEF Spec

\* Rows, chain and poll keep their types whatever fetch limit and start ledger
\* are configured, and pollEvents never indexes past the batch it fetched.
THEOREM TypeCorrect == Spec => []TypeOK
<1>1. IInv => TypeOK
  BY DEF IInv, Shape
<1> QED BY <1>1, Invariance, PTL

\* However crashes, restarts and failing queries fall between the handler's
\* writes and markEventProcessed, the writes are repeated only for a mark that
\* was lost: processEvent never runs the handler of a marked event.
THEOREM HandledOnce == Spec => []HandledOncePerMark
<1>1. IInv => HandledOncePerMark
  BY DEF IInv
<1> QED BY <1>1, Invariance, PTL

\* The cursor that pollEvents saves never passes an event that is neither
\* processed, nor ignored, nor logged as failed, nor cut off by the fetch limit.
THEOREM SkippedExplained == Spec => []SkippedIsExplained
<1>1. IInv => SkippedIsExplained
  BY DEF IInv
<1> QED BY <1>1, Invariance, PTL

-----------------------------------------------------------------------------
\* The refinement of EventDelivery.

Done == {e \in processed : KindOf(e) = "handled"}
Passed == {e \in DOMAIN chain : \/ KindOf(e) # "handled"
                                \/ e \in logged \cup CutOff
                                \/ origin # NoCursor /\ LedgerOf(e) <= origin}

\* A step that runs no handler and marks none may only pass events over.
LEMMA PassRefines ==
    ASSUME UNCHANGED effects, Done' = Done, Passed \subseteq Passed', Passed' \subseteq EventIds
    PROVE  Delivery!DeliveryNext
<1>1. PICK S \in SUBSET EventIds : Passed' = Passed \cup S
  OBVIOUS
<1>2. Delivery!Pass(S)
  BY <1>1 DEF Delivery!Pass, Done, Passed
<1> QED BY <1>2 DEF Delivery!DeliveryNext

\* Events once passed over stay so: the chain, the rows and the cursor only grow.
LEMMA PassedGrows ==
    ASSUME IInv, DOMAIN chain \subseteq DOMAIN chain',
           \A e \in DOMAIN chain : chain'[e] = chain[e],
           processed \subseteq processed', logged \subseteq logged',
           cursor' \in Int, cursor' >= cursor,
           origin' = origin \/ (origin = NoCursor /\ cursor = NoCursor)
    PROVE  Passed \subseteq Passed'
<1>1. cursor \in Int /\ origin \in Int /\ \A e \in DOMAIN chain : LedgerOf(e) \in Nat
  BY ChainFields DEF IInv, Shape, TypeOK
<1>2. processed \subseteq DOMAIN chain
  BY DEF IInv, Shape, RowsOfChain
<1>3. CASE origin' = origin
  <2>1. CutOff \subseteq CutOff'
    BY <1>1, <1>2, <1>3 DEF CutOff, LedgerOf
  <2> QED BY <1>3, <2>1 DEF Passed, LedgerOf, KindOf
<1>4. CASE origin = NoCursor /\ cursor = NoCursor
  <2>1. CutOff = {}
    BY <1>1, <1>4 DEF CutOff, NoCursor
  <2> QED BY <1>4, <2>1 DEF Passed, KindOf
<1> QED BY <1>3, <1>4

\* The same, of a step that leaves the chain alone.
LEMMA QuietRefines ==
    ASSUME IInv, UNCHANGED <<chain, effects>>, Done' = Done,
           processed \subseteq processed', logged \subseteq logged',
           cursor' \in Int, cursor' >= cursor,
           origin' = origin \/ (origin = NoCursor /\ cursor = NoCursor)
    PROVE  Delivery!DeliveryNext
<1>1. Passed \subseteq Passed'
  BY PassedGrows
<1>2. Passed' \subseteq EventIds
  BY ChainFields DEF Passed, IInv, Shape
<1> QED BY <1>1, <1>2, PassRefines

\* When a handler runs, every earlier event is done or was passed over: it is
\* behind the cursor and explained, or before this one in the batch and settled.
LEMMA CurrentReady ==
    ASSUME IInv, At("handle")
    PROVE  Current \in EventIds /\ Current \notin Done
           /\ \A d \in EventIds : d < Current => d \in Done \cup Passed
<1>1. /\ Shape /\ TypeOK /\ BatchInv /\ SkippedIsExplained /\ CursorBehind /\ PollAhead
      /\ Busy /\ ~At("idle")
  BY DEF IInv, Shape, Busy, At
<1>2. BatchOfChain /\ BatchComplete /\ BatchSettled /\ Current \notin processed
  BY <1>1 DEF BatchInv, CurrentOpen
<1>3. Current \in DOMAIN chain /\ Current \in EventIds
  BY <1>1, CurrentFields
<1>4. /\ cursor \in Int /\ origin \in Int
      /\ \A e \in DOMAIN chain : LedgerOf(e) \in Nat
      /\ Len(chain) \in Nat /\ DOMAIN chain = 1..Len(chain) /\ MaxEvents \in Nat
  BY <1>1, ChainFields DEF TypeOK
<1>5. origin # NoCursor
  BY <1>1 DEF PollAhead, CursorBehind
<1>6. ASSUME NEW d \in EventIds, d < Current PROVE d \in Done \cup Passed
  <2>1. d \in DOMAIN chain /\ d \in Nat
    BY <1>3, <1>4, <1>6 DEF EventIds
  <2> SUFFICES ASSUME KindOf(d) = "handled", LedgerOf(d) > origin
               PROVE  d \in processed \cup logged \cup CutOff
    BY <1>4, <1>5, <2>1 DEF Done, Passed
  <2>2. CASE LedgerOf(d) <= cursor
    BY <1>1, <1>4, <2>1, <2>2 DEF SkippedIsExplained, Skipped
  <2>3. CASE LedgerOf(d) > cursor
    <3>1. PICK j \in DOMAIN poll.batch : d = poll.batch[j]
      <4>1. poll.i \in DOMAIN poll.batch /\ Current = poll.batch[poll.i]
        BY <1>2 DEF BatchOfChain, Current
      <4>2. ~(Current < d)
        BY <1>3, <1>4, <1>6, <2>1
      <4> QED BY <1>2, <2>1, <2>3, <4>1, <4>2 DEF BatchComplete
    <3>2. j < poll.i
      <4>1. /\ poll.i \in DOMAIN poll.batch /\ Current = poll.batch[poll.i]
            /\ \A k, l \in DOMAIN poll.batch : k < l => poll.batch[k] < poll.batch[l]
        BY <1>2 DEF BatchOfChain, Current
      <4>2. DOMAIN poll.batch = 1..Len(poll.batch) /\ Len(poll.batch) \in Nat
        BY <1>1, PollFields
      <4>3. ~(poll.i < j) /\ poll.i # j
        BY <1>3, <1>4, <1>6, <2>1, <3>1, <4>1
      <4> QED BY <4>1, <4>2, <4>3
    <3> QED BY <1>2, <3>1, <3>2 DEF BatchSettled
  <2> QED BY <1>4, <2>1, <2>2, <2>3
<1> QED BY <1>2, <1>3, <1>6 DEF Done

LEMMA RunRefines ==
    ASSUME IInv, At("handle"), effects' = [effects EXCEPT ![Current] = @ + 1],
           UNCHANGED <<chain, cursor, origin, processed, logged>>
    PROVE  Delivery!DeliveryNext
<1>1. /\ Current \in EventIds /\ Current \notin Done
      /\ \A d \in EventIds : d < Current => d \in Done \cup Passed
  BY CurrentReady
<1>2. Done' = Done /\ Passed' = Passed
  BY DEF Done, Passed, CutOff, LedgerOf, KindOf
<1>3. Delivery!Run(Current)
  BY <1>1, <1>2 DEF Delivery!Run, Delivery!Ready, Done, Passed
<1> QED BY <1>1, <1>3 DEF Delivery!DeliveryNext

LEMMA MarkRefines ==
    ASSUME IInv, MarkEventProcessed
    PROVE  Delivery!DeliveryNext
<1>1. Shape /\ TypeOK /\ BatchInv /\ HandledOncePerMark /\ Busy /\ At("mark")
  BY DEF IInv, Shape, MarkEventProcessed, Busy, At
<1>2. UNCHANGED <<chain, cursor, origin, logged, effects>>
      /\ processed' = processed \cup {Current}
  BY DEF MarkEventProcessed, MarkProcessed
<1>3. Current \in EventIds /\ Current \in DOMAIN chain /\ LedgerOf(Current) > cursor
  BY <1>1, CurrentFields
<1>4. Current \notin processed /\ KindOf(Current) = "handled"
  BY <1>1 DEF BatchInv, CurrentOpen
<1>5. effects[Current] > 0
  <2>1. effects[Current] = unmarked[Current] + 0 + 1
    BY <1>1, <1>3, <1>4 DEF HandledOncePerMark
  <2>2. unmarked[Current] \in Nat
    BY <1>1, <1>3 DEF TypeOK
  <2> QED BY <2>1, <2>2
<1>6. Done' = Done \cup {Current}
  BY <1>2, <1>4 DEF Done, KindOf
<1>7. Passed' = Passed
  <2>1. cursor \in Int /\ origin \in Int /\ \A e \in DOMAIN chain : LedgerOf(e) \in Nat
    BY <1>1, ChainFields DEF TypeOK
  <2>2. CutOff' = CutOff
    BY <1>2, <1>3, <2>1 DEF CutOff, LedgerOf
  <2> QED BY <1>2, <2>2 DEF Passed, LedgerOf, KindOf
<1>8. Delivery!Finish(Current)
  BY <1>2, <1>4, <1>5, <1>6, <1>7 DEF Delivery!Finish, Done, Passed
<1> QED BY <1>3, <1>8 DEF Delivery!DeliveryNext

LEMMA CloseRefines ==
    ASSUME IInv, CloseLedger
    PROVE  Delivery!DeliveryNext
<1>1. TypeOK /\ processed \subseteq DOMAIN chain /\ cursor \in Int
  BY DEF IInv, Shape, RowsOfChain, TypeOK
<1>2. UNCHANGED <<cursor, origin, processed, logged, effects>>
  BY DEF CloseLedger, tables
<1>3. /\ DOMAIN chain \subseteq DOMAIN chain'
      /\ \A e \in DOMAIN chain : chain'[e] = chain[e]
  BY <1>1, ClosedLedger
<1>4. Passed \subseteq Passed'
  BY <1>1, <1>2, <1>3, PassedGrows
<1>5. DOMAIN chain' \subseteq EventIds
  <2>1. chain' \in Seq([ledger: 1..MaxLedger, kind: Kinds]) /\ Len(chain') <= MaxEvents
    BY <1>1, ClosedLedger
  <2>2. Len(chain') \in Nat /\ DOMAIN chain' = 1..Len(chain')
    BY <2>1
  <2>3. MaxEvents \in Nat
    BY LimitsAssumption DEF LimitsAssumption
  <2> QED BY <2>1, <2>2, <2>3 DEF EventIds
<1>6. Passed' \subseteq EventIds
  BY <1>5 DEF Passed
<1>7. Done' = Done
  BY <1>1, <1>2, <1>3 DEF Done, KindOf
<1> QED BY <1>2, <1>4, <1>6, <1>7, PassRefines

LEMMA StepRefines == IInv /\ [Next]_vars => [Delivery!DeliveryNext]_(Delivery!delivery)
<1> SUFFICES ASSUME IInv, [Next]_vars PROVE [Delivery!DeliveryNext]_(Delivery!delivery)
  OBVIOUS
<1>1. cursor \in Int /\ origin \in Int /\ latest \in Nat /\ TypeOK
  BY ChainFields DEF IInv, Shape, TypeOK
<1>2. CASE CloseLedger
  BY <1>2, CloseRefines
<1>3. CASE StartProcess
  <2>1. UNCHANGED <<chain, processed, logged, effects>> /\ latest > 0
    BY <1>3 DEF StartProcess
  <2>2. Done' = Done
    BY <2>1 DEF Done, KindOf
  <2>3. CASE cursor # NoCursor
    BY <1>1, <1>3, <2>1, <2>2, <2>3, QuietRefines DEF StartProcess, GetStartLedger
  <2>4. CASE cursor = NoCursor
    <3>1. cursor' \in Int /\ cursor' >= cursor
      BY <1>1, <1>3, <2>1, <2>4, LimitsAssumption
         DEF StartProcess, GetStartLedger, InitializeCursor, LimitsAssumption, NoCursor
    <3>2. origin = NoCursor
      BY <1>1, <2>4 DEF IInv, Shape, CursorBehind, NoCursor
    <3> QED BY <2>1, <2>2, <2>4, <3>1, <3>2, QuietRefines
  <2> QED BY <2>3, <2>4
<1>4. CASE \/ BeginShutdown \/ EndShutdown \/ Crash \/ BeginPoll \/ CheckEvent \/ Quarantine
           \/ LogError \/ PollFails
  <2>1. UNCHANGED <<chain, cursor, origin, processed, effects>> /\ logged \subseteq logged'
    BY <1>4 DEF BeginShutdown, EndShutdown, Crash, BeginPoll, CheckEvent, Quarantine,
                LogError, PollFails, tables
  <2>2. Done' = Done
    BY <2>1 DEF Done, KindOf
  <2> QED BY <1>1, <2>1, <2>2, QuietRefines
<1>5. CASE MarkQuarantined
  <2>1. UNCHANGED <<chain, cursor, origin, logged, effects>>
        /\ processed' = processed \cup {Current}
    BY <1>5 DEF MarkQuarantined, MarkProcessed
  <2>2. KindOf(Current) = "quarantined"
    BY <1>5 DEF IInv, BatchInv, CurrentOpen, MarkQuarantined, At, Busy
  <2>3. Done' = Done
    BY <2>1, <2>2 DEF Done, KindOf
  <2> QED BY <1>1, <2>1, <2>3, QuietRefines
<1>6. CASE Fetch \/ FinishPoll
  <2>1. UNCHANGED <<chain, origin, processed, logged, effects>>
    BY <1>6 DEF Fetch, FinishPoll
  <2>2. cursor' \in Int /\ cursor' >= cursor
    <3>1. (poll.last \in Int /\ poll.latest \in Nat /\ poll.latest > cursor) \/ At("idle")
      BY <1>1, PollFields DEF IInv, Shape, PollAhead
    <3> QED BY <1>1, <1>6, <3>1 DEF Fetch, FinishPoll, UpdateCursor, At
  <2>3. Done' = Done
    BY <2>1 DEF Done, KindOf
  <2> QED BY <2>1, <2>2, <2>3, QuietRefines
<1>7. CASE Handle
  BY <1>7, RunRefines DEF Handle
<1>8. CASE MarkEventProcessed
  BY <1>8, MarkRefines
<1>9. CASE EventThrows
  <2>1. UNCHANGED <<chain, cursor, origin, processed, logged>>
    BY <1>9 DEF EventThrows
  <2>2. CASE UNCHANGED effects
    <3>1. Done' = Done
      BY <2>1 DEF Done, KindOf
    <3> QED BY <1>1, <2>1, <2>2, <3>1, QuietRefines
  <2>3. CASE At("handle") /\ effects' = [effects EXCEPT ![Current] = @ + 1]
    BY <2>1, <2>3, RunRefines
  <2> QED BY <1>9, <2>2, <2>3 DEF EventThrows
<1>10. CASE UNCHANGED vars
  <2>1. UNCHANGED <<chain, cursor, origin, processed, logged, effects>>
    BY <1>10 DEF vars
  <2>2. Done' = Done
    BY <2>1 DEF Done, KindOf
  <2> QED BY <1>1, <2>1, <2>2, QuietRefines
<1> QED BY <1>2, <1>3, <1>4, <1>5, <1>6, <1>7, <1>8, <1>9, <1>10 DEF Next, PollStep

\* What the indexer does to the handlers is EventDelivery: events of the chain
\* run in order, a run is recorded at most once, and nothing runs after that.
THEOREM Implements == Spec => DeliversInOrder
<1>1. Init => Delivery!DeliveryInit
  <2> SUFFICES ASSUME Init PROVE Delivery!DeliveryInit
    OBVIOUS
  <2>1. DOMAIN chain = {} /\ processed = {} /\ effects = [e \in EventIds |-> 0]
    BY DEF Init
  <2> QED BY <2>1 DEF Delivery!DeliveryInit
<1> QED BY <1>1, Invariance, StepRefines, PTL DEF Spec, DeliversInOrder, Delivery!DeliverySpec
=============================================================================
