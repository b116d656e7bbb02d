------------------------------ MODULE Indexer ------------------------------
(***************************************************************************)
(* The blockchain indexer of src/src/indexer/: one process polls contract  *)
(* events from Soroban RPC, runs a handler for each, remembers the events  *)
(* it handled in ProcessedEvent and how far it came in LedgerCursor.       *)
(*                                                                         *)
(* An event is its position in the chain.  The kinds stand for what        *)
(* parseEvent and the handler registry make of it: "handled" has a         *)
(* registered handler that accepts it, "quarantined" does not decode, and  *)
(* "ignored" has no topic, an unknown type, no handler or invalid data.    *)
(* The writes of a handler are one count, effects; a handler that throws   *)
(* may have made them or not.  detectReorg and handleReorg have no caller. *)
(***************************************************************************)
EXTENDS Integers, Sequences, FiniteSets

CONSTANTS
    FetchLimit,         \* maxEventsPerFetch * 5: where fetchEvents stops
    ConfiguredStart,    \* INDEXER_START_LEDGER, 0 when it is not set
    MaxLedger,          \* bound: ledgers closed
    MaxEvents,          \* bound: events in the chain
    MaxFaults           \* bound: crashes and failed calls

ASSUME LimitsAssumption ==
    /\ FetchLimit \in Nat \ {0}
    /\ ConfiguredStart \in Nat
    /\ MaxLedger \in Nat /\ MaxEvents \in Nat /\ MaxFaults \in Nat

VARIABLES
    chain,          \* events in chain order: ledger and kind
    latest,         \* latest ledger of the network
    process,        \* the indexer process: "down", "up" or "stopping"
    poll,           \* where pollEvents stands, with its local variables
    cursor,         \* LedgerCursor.lastLedgerSeq, NoCursor before the first start
    origin,         \* the value the cursor was created with
    processed,      \* ProcessedEvent rows
    quarantine,     \* QuarantinedEvent rows
    logged,         \* events with an error row in IndexerLog
    effects,        \* how often the handler's writes were made for an event
    unmarked,       \* how many of those were not followed by the processed mark
    faults          \* crashes and failed calls so far

tables == <<cursor, origin, processed, quarantine, logged, effects, unmarked>>
vars == <<chain, latest, process, poll, cursor, origin, processed, quarantine,
          logged, effects, unmarked, faults>>

Kinds == {"handled", "ignored", "quarantined"}
EventIds == 1..MaxEvents
NoCursor == -1

IdlePoll == [pc |-> "idle", latest |-> 0, batch |-> <<>>, i |-> 0, last |-> 0]
Poll == [pc: {"idle", "fetch", "check", "quarantine", "markQuarantined", "handle",
              "mark", "log", "finish"},
         latest: Nat, batch: Seq(EventIds), i: Nat, last: Int]

LedgerOf(e) == chain[e].ledger
KindOf(e) == chain[e].kind
Current == poll.batch[poll.i]

At(pc) == poll.pc = pc
Goto(pc) == poll' = [poll EXCEPT !.pc = pc]

\* The poll counts one fault more.
Fault == faults < MaxFaults /\ faults' = faults + 1

-----------------------------------------------------------------------------
\* The network

CloseLedger ==
    /\ latest < MaxLedger
    /\ \E kinds \in UNION {[1..n -> Kinds] : n \in 0..(MaxEvents - Len(chain))} :
          chain' = chain \o [i \in DOMAIN kinds |-> [ledger |-> latest + 1, kind |-> kinds[i]]]
    /\ latest' = latest + 1
    /\ UNCHANGED <<process, poll, tables, faults>>

\* getEvents, paged until no event is left or the limit is reached.  The end
\* ledger of the poll is not part of the request.
FetchEvents(startLedger) ==
    LET found == {e \in DOMAIN chain : LedgerOf(e) >= startLedger}
        before == Len(chain) - Cardinality(found)
        size == IF Cardinality(found) > FetchLimit THEN FetchLimit ELSE Cardinality(found)
    IN [i \in 1..size |-> before + i]

-----------------------------------------------------------------------------
\* LedgerTrackerService

IsEventProcessed(e) == e \in processed
MarkProcessed(e) == processed' = processed \cup {e}
UpdateCursor(ledger) == cursor' = ledger

InitializeCursor(ledger) == cursor' = ledger /\ origin' = ledger

\* getStartLedger resumes after the cursor or creates it.
GetStartLedger ==
    IF cursor # NoCursor THEN UNCHANGED <<cursor, origin>>
    ELSE InitializeCursor((IF ConfiguredStart # 0 THEN ConfiguredStart ELSE latest) - 1)

-----------------------------------------------------------------------------
\* The process

\* initializeIndexer.
StartProcess ==
    /\ process = "down"
    /\ latest > 0
    /\ process' = "up"
    /\ GetStartLedger
    /\ UNCHANGED <<chain, latest, poll, processed, quarantine, logged, effects,
                   unmarked, faults>>

\* onModuleDestroy stops the interval and waits for the running poll.
BeginShutdown ==
    /\ process = "up"
    /\ Fault
    /\ process' = "stopping"
    /\ UNCHANGED <<chain, latest, poll, tables>>

EndShutdown ==
    /\ process = "stopping"
    /\ At("idle")
    /\ process' = "down"
    /\ UNCHANGED <<chain, latest, poll, tables, faults>>

\* The poll is lost; the writes of a handler may have been made.
Crash ==
    /\ process # "down"
    /\ Fault
    /\ process' = "down"
    /\ poll' = IdlePoll
    /\ unmarked' = IF At("mark") THEN [unmarked EXCEPT ![Current] = @ + 1] ELSE unmarked
    /\ UNCHANGED <<chain, latest, cursor, origin, processed, quarantine, logged,
                   effects>>

-----------------------------------------------------------------------------
\* Mutant: off by one, the newest ledger waits for another one.
BeginPollBehind ==
    /\ process = "up"
    /\ At("idle")
    /\ cursor + 1 < latest
    /\ poll' = [IdlePoll EXCEPT !.pc = "fetch", !.latest = latest, !.last = cursor]
    /\ UNCHANGED <<chain, latest, process, tables, faults>>

\* pollEvents.  isRunning is ~At("idle").
BeginPoll ==
    /\ process = "up"
    /\ At("idle")
    /\ cursor + 1 <= latest
    /\ poll' = [IdlePoll EXCEPT !.pc = "fetch", !.latest = latest, !.last = cursor]
    /\ UNCHANGED <<chain, latest, process, tables, faults>>

\* An empty answer moves the cursor to the ledger read before the fetch.
Fetch ==
    /\ At("fetch")
    /\ LET batch == FetchEvents(cursor + 1) IN
          IF batch = <<>>
          THEN /\ UpdateCursor(poll.latest)
               /\ poll' = IdlePoll
          ELSE /\ poll' = [poll EXCEPT !.pc = "check", !.batch = batch, !.i = 1]
               /\ UNCHANGED cursor
    /\ UNCHANGED <<chain, latest, process, origin, processed, quarantine,
                   logged, effects, unmarked, faults>>

\* Mutant: the index runs past the batch.
NextEventPastEnd(success) ==
    poll' = [poll EXCEPT !.pc = IF poll.i = Len(poll.batch) THEN "finish" ELSE "check",
                         !.i = @ + 1,
                         !.last = IF success /\ LedgerOf(Current) > @
                                  THEN LedgerOf(Current) ELSE @]

\* The next event of the batch, after one that processEvent returned success for.
NextEvent(success) ==
    poll' = [poll EXCEPT !.pc = IF poll.i = Len(poll.batch) THEN "finish" ELSE "check",
                         !.i = IF poll.i = Len(poll.batch) THEN @ ELSE @ + 1,
                         !.last = IF success /\ LedgerOf(Current) > @
                                  THEN LedgerOf(Current) ELSE @]

\* Mutant: the lookup in ProcessedEvent is missing.
CheckEventAgain ==
    /\ At("check")
    /\ CASE KindOf(Current) = "ignored" -> NextEvent(FALSE)
         [] KindOf(Current) = "quarantined" -> Goto("quarantine")
         [] OTHER -> Goto("handle")
    /\ UNCHANGED <<chain, latest, process, tables, faults>>

CheckEvent ==
    /\ At("check")
    /\ IF IsEventProcessed(Current) THEN NextEvent(FALSE)
       ELSE CASE KindOf(Current) = "ignored"     -> NextEvent(FALSE)
              [] KindOf(Current) = "quarantined" -> Goto("quarantine")
              [] KindOf(Current) = "handled"     -> Goto("handle")
    /\ UNCHANGED <<chain, latest, process, tables, faults>>

\* A failing upsert is logged and swallowed.
Quarantine ==
    /\ At("quarantine")
    /\ \/ quarantine' = quarantine \cup {Current} /\ UNCHANGED faults
       \/ Fault /\ UNCHANGED quarantine
    /\ Goto("markQuarantined")
    /\ UNCHANGED <<chain, latest, process, cursor, origin, processed, logged,
                   effects, unmarked>>

MarkQuarantined ==
    /\ At("markQuarantined")
    /\ MarkProcessed(Current)
    /\ NextEvent(FALSE)
    /\ UNCHANGED <<chain, latest, process, cursor, origin, quarantine, logged,
                   effects, unmarked, faults>>

Handle ==
    /\ At("handle")
    /\ effects' = [effects EXCEPT ![Current] = @ + 1]
    /\ Goto("mark")
    /\ UNCHANGED <<chain, latest, process, cursor, origin, processed,
                   quarantine, logged, unmarked, faults>>

\* Mutant: a failed insert into ProcessedEvent is swallowed.
MarkEventSwallowed ==
    /\ At("mark")
    /\ \/ processed' = processed \cup {Current} /\ UNCHANGED faults
       \/ Fault /\ UNCHANGED processed
    /\ NextEvent(TRUE)
    /\ UNCHANGED <<chain, latest, process, cursor, origin, quarantine, logged,
                   effects, unmarked>>

MarkEventProcessed ==
    /\ At("mark")
    /\ MarkProcessed(Current)
    /\ NextEvent(TRUE)
    /\ UNCHANGED <<chain, latest, process, cursor, origin, quarantine, logged,
                   effects, unmarked, faults>>

\* The event throws: a query fails, or the handler does, with or without some
\* of its writes made.
EventThrows ==
    /\ Fault
    /\ \/ /\ At("check") \/ At("markQuarantined") \/ At("handle")
          /\ UNCHANGED <<effects, unmarked>>
       \/ /\ At("handle")
          /\ effects' = [effects EXCEPT ![Current] = @ + 1]
          /\ unmarked' = [unmarked EXCEPT ![Current] = @ + 1]
       \/ /\ At("mark")
          /\ unmarked' = [unmarked EXCEPT ![Current] = @ + 1]
          /\ UNCHANGED effects
    /\ Goto("log")
    /\ UNCHANGED <<chain, latest, process, cursor, origin, processed,
                   quarantine, logged>>

\* The catch block of the loop: the error goes to IndexerLog, the loop goes on.
LogError ==
    /\ At("log")
    /\ logged' = logged \cup {Current}
    /\ NextEvent(FALSE)
    /\ UNCHANGED <<chain, latest, process, cursor, origin, processed,
                   quarantine, effects, unmarked, faults>>

\* Mutant: the cursor goes to the ledger that the poll asked for.
FinishPollLatest ==
    /\ At("finish")
    /\ cursor' = poll.latest
    /\ poll' = IdlePoll
    /\ UNCHANGED <<chain, latest, process, origin, processed, quarantine,
                   logged, effects, unmarked, faults>>

FinishPoll ==
    /\ At("finish")
    /\ UpdateCursor(IF poll.last > cursor THEN poll.last ELSE cursor)
    /\ poll' = IdlePoll
    /\ UNCHANGED <<chain, latest, process, origin, processed, quarantine,
                   logged, effects, unmarked, faults>>

\* The outer catch: the RPC, the cursor or IndexerLog fails, the poll is over.
PollFails ==
    /\ At("fetch") \/ At("log") \/ At("finish")
    /\ Fault
    /\ poll' = IdlePoll
    /\ UNCHANGED <<chain, latest, process, tables>>

-----------------------------------------------------------------------------
Init ==
    /\ chain = <<>>
    /\ latest = 0
    /\ process = "down"
    /\ poll = IdlePoll
    /\ cursor = NoCursor
    /\ origin = NoCursor
    /\ processed = {}
    /\ quarantine = {}
    /\ logged = {}
    /\ effects = [e \in EventIds |-> 0]
    /\ unmarked = [e \in EventIds |-> 0]
    /\ faults = 0

PollStep ==
    \/ BeginPoll
    \/ Fetch
    \/ CheckEvent
    \/ Quarantine
    \/ MarkQuarantined
    \/ Handle
    \/ MarkEventProcessed
    \/ LogError
    \/ FinishPoll

Next ==
    \/ CloseLedger
    \/ StartProcess
    \/ BeginShutdown
    \/ EndShutdown
    \/ Crash
    \/ PollStep
    \/ EventThrows
    \/ PollFails

Spec == Init /\ [][Next]_vars

\* setInterval calls pollEvents again and again and no call of a poll hangs (the
\* breaker times RPC calls out), a process that stopped is started again.
Fairness == WF_vars(PollStep) /\ WF_vars(StartProcess) /\ WF_vars(EndShutdown)

FairSpec == Spec /\ Fairness

-----------------------------------------------------------------------------
\* Properties

\* The rows, the chain and the poll's local variables have their types, and a
\* poll works on an event of its batch.
TypeOK ==
    /\ chain \in Seq([ledger: 1..MaxLedger, kind: Kinds])
    /\ Len(chain) <= MaxEvents
    /\ latest \in 0..MaxLedger
    /\ process \in {"down", "up", "stopping"}
    /\ poll \in Poll
    /\ poll.batch = <<>> \/ poll.i \in DOMAIN poll.batch
    /\ cursor \in Int /\ origin \in Int
    /\ processed \subseteq EventIds
    /\ quarantine \subseteq EventIds
    /\ logged \subseteq EventIds
    /\ effects \in [EventIds -> Nat]
    /\ unmarked \in [EventIds -> Nat]
    /\ faults \in 0..MaxFaults

\* The handler's writes are made once for an event, and once more for every time
\* they were made and the mark in ProcessedEvent was not: a retry after a crash,
\* and nothing else, repeats them.
HandledOncePerMark ==
    \A e \in EventIds :
        effects[e] = unmarked[e]
                     + (IF e \in processed /\ KindOf(e) = "handled" THEN 1 ELSE 0)
                     + (IF At("mark") /\ Current = e THEN 1 ELSE 0)

\* The events between the ledger the indexer began at and the cursor that it
\* could have processed and has not.
Skipped ==
    {e \in DOMAIN chain : /\ LedgerOf(e) \in (origin + 1)..cursor
                          /\ KindOf(e) # "ignored"
                          /\ e \notin processed}

\* The events that a full batch cut off from the rest of their ledger: an
\* earlier one of the ledger succeeded and took the cursor past it.
CutOff ==
    {e \in DOMAIN chain : /\ e > FetchLimit
                          /\ LedgerOf(e) \in (origin + 1)..cursor
                          /\ \E d \in processed : d < e /\ LedgerOf(d) = LedgerOf(e)}

\* An event behind the cursor is processed, or an error row in IndexerLog says
\* that it failed, or the fetch limit split its ledger: a crash, a failing
\* fetch or a failing log never lets the cursor pass an event silently.
SkippedIsExplained == Skipped \subseteq logged \cup CutOff

\* The indexer delivers events as EventDelivery says: a handler runs again only
\* until its mark is written, and before it every earlier event was marked,
\* logged as failed, cut off, left out at the first start, or has no handler.
Delivery == INSTANCE EventDelivery
    WITH Event  <- EventIds,
         runs   <- effects,
         done   <- {e \in processed : KindOf(e) = "handled"},
         passed <- {e \in DOMAIN chain : \/ KindOf(e) # "handled"
                                         \/ e \in logged \cup CutOff
                                         \/ origin # NoCursor /\ LedgerOf(e) <= origin}

\* Refinement: what the indexer does to the handlers is EventDelivery.
DeliversInOrder == Delivery!DeliverySpec

\* A full batch in which nothing can succeed any more: processEvent reports no
\* success for an event that is ignored, quarantined or processed already, so
\* the cursor stays and every poll fetches the same batch.
Starved ==
    LET batch == FetchEvents(cursor + 1) IN
    /\ Len(batch) = FetchLimit
    /\ \A i \in DOMAIN batch : batch[i] \in processed \/ KindOf(batch[i]) = "ignored"

\* The indexer began before the event, and the event has a handler.
Awaited(e) ==
    /\ e \in DOMAIN chain
    /\ KindOf(e) = "handled"
    /\ origin # NoCursor
    /\ LedgerOf(e) > origin

\* Every event that has a handler is in the end processed or logged as failed,
\* however polls fail and the process stops and restarts in between, unless
\* the fetch limit split its ledger or a full batch of dead events is before it.
EventuallySettled ==
    \A e \in EventIds :
        Awaited(e) ~> (e \in processed \cup logged \cup CutOff \/ Starved)
=============================================================================
