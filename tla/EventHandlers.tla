--------------------------- MODULE EventHandlers ---------------------------
(***************************************************************************)
(* EventHandlerService: what the handlers do with the events that the      *)
(* indexer delivers (EventDelivery) and the decoder decodes (XdrDecoder).  *)
(*                                                                         *)
(* A handler is a list of steps, one for every await that writes or that   *)
(* decides; it may throw before each.  One row stands for all milestones   *)
(* of a project, which the handlers only update together; the rows come    *)
(* from outside.  The close time of an event's ledger is its position in   *)
(* the chain.  notify catches its errors and is modelled in EmailOutbox.   *)
(***************************************************************************)
EXTENDS EventDelivery, XdrDecoder, Reputation, Sequences

CONSTANTS Chains,       \* the chains to deliver, sequences of events
          ProjectIds,   \* contract ids of projects, as decoded
          Milestones,   \* of a project: how many rows, and their createdAt
          MaxRuns,      \* bound on the runs of an event
          MaxFaults     \* bound on failing calls and events passed over

ASSUME HandlersAssumption == MaxRuns \in Nat \ {0} /\ MaxFaults \in Nat /\ ProjectIds \subseteq Nat
                             /\ Milestones \in [ProjectIds -> [count: Nat, createdAt: Nat]]

\* A chain holds events of the declared types, and ProjectIds all ids they name.
ASSUME ChainsAssumption ==
    /\ Event \subseteq Nat \ {0}
    /\ \A c \in Chains :
          /\ DOMAIN c \subseteq Event
          /\ \A e \in DOMAIN c :
                LET t == c[e].type  value == c[e].value  o == AsObject(value) IN
                /\ t \in ContractEventType /\ value.shape \in Shapes
                /\ \A k \in DOMAIN o : o[k] \in NativeValue
                /\ "projectId" \in DOMAIN Decode(t, value) => Decode(t, value).projectId.v \in ProjectIds

VARIABLES chain,        \* the chain
          run,          \* the event being handled and the steps to do
          live, gone,   \* wallets of users, live and soft-deleted
          project,      \* by contract id
          contribution, \* rows, unique by transaction hash
          milestone,    \* status and completionDate of the milestones of a project
          trust,        \* trustScore by wallet
          rewards,      \* history: reputation changes for an event
          faults

tables == <<live, gone, project, contribution, milestone, trust>>
handlerVars == <<chain, delivery, run, tables, rewards, faults>>

Events == DOMAIN chain
NoRun == [event |-> 0, todo |-> <<>>]
NoProject == [status |-> "none", goal |-> 0, funds |-> 0, deadline |-> 0, creator |-> Empty]
Statuses == {"none", "ACTIVE", "COMPLETED", "CANCELLED"}

Data(e) == Decode(chain[e].type, chain[e].value)
Id(e) == Data(e).projectId.v
Present(p) == project[p] # NoProject
Fault == faults < MaxFaults /\ faults' = faults + 1

\* BigInt(s) throws for a text that is no number, and BigInt('') is 0.
BigIntThrows(s) == s.form \notin {"digits", "empty"}
Truthy(x) == IF x.type = "number" THEN x.v # 0 ELSE x.form # "empty"

-----------------------------------------------------------------------------
\* The handlers: validate, the wallet they upsert and their steps

ValidateProjectCreated(d) ==
    Truthy(d.creator) /\ Truthy(d.fundingGoal) /\ Truthy(d.deadline) /\ Truthy(d.token)
ValidateContributionMade(d) == Truthy(d.contributor) /\ Truthy(d.amount)
ValidateFundsReleased(d) == Truthy(d.amount)
ValidateDividendClaimed(d) == Truthy(d.poolId) /\ Truthy(d.claimer) /\ Truthy(d.amount)

\* projectId and milestoneId are numbers once decoded, so never undefined.
Validate(t, d) ==
    CASE t = "proj_new" -> ValidateProjectCreated(d)
      [] t = "contrib"  -> ValidateContributionMade(d)
      [] t = "release"  -> ValidateFundsReleased(d)
      [] t = "claim"    -> ValidateDividendClaimed(d)
      [] OTHER          -> TRUE

ProjectCreatedHandler == <<"upsertUser", "upsertProject">>
ContributionMadeHandler ==
    <<"upsertUser", "findProject", "upsertContribution", "updateFunds", "adjustReputation">>
MilestoneApprovedHandler == <<"findProject", "updateMilestones", "updateTrustScore", "adjustReputation">>
\* Mutant: the score is computed before the milestones are updated.
MilestoneRejectedScoreFirst == <<"findProject", "updateTrustScore", "updateMilestones", "adjustReputation">>

MilestoneRejectedHandler == <<"findProject", "updateMilestones", "updateTrustScore", "adjustReputation">>
FundsReleasedHandler == <<"findProject", "updateMilestones">>
ProjectCompletedHandler == <<"updateStatus">>
ProjectFailedHandler == <<"updateStatus">>
DividendClaimedHandler == <<"upsertUser", "updateTrustScore">>

\* registerHandlers.
Handlers ==
    [proj_new |-> ProjectCreatedHandler, contrib |-> ContributionMadeHandler,
     m_apprv |-> MilestoneApprovedHandler, m_reject |-> MilestoneRejectedHandler,
     release |-> FundsReleasedHandler, proj_done |-> ProjectCompletedHandler,
     proj_fail |-> ProjectFailedHandler, claim |-> DividendClaimedHandler]

\* processEvent finds a handler that accepts the event.
Handled(e) ==
    /\ ~IsQuarantined(Data(e))
    /\ chain[e].type \in DOMAIN Handlers
    /\ Validate(chain[e].type, Data(e))

Wallet(e) ==
    CASE chain[e].type = "proj_new" -> Data(e).creator
      [] chain[e].type = "contrib"  -> Data(e).contributor
      [] chain[e].type = "claim"    -> Data(e).claimer

\* Whose trust score and reputation the event changes.
Subject(e) == IF chain[e].type \in {"m_apprv", "m_reject"} THEN project[Id(e)].creator ELSE Wallet(e)

MilestoneStatus == [m_apprv |-> "APPROVED", m_reject |-> "REJECTED", release |-> "FUNDED"]

ProjectStatus == [proj_done |-> "COMPLETED", proj_fail |-> "CANCELLED"]

-----------------------------------------------------------------------------
\* Delivery

\* An event of the chain is delivered; the indexer handles one at a time.
Begin(e) ==
    /\ run = NoRun
    /\ Handled(e) /\ runs[e] < MaxRuns
    /\ Run(e)
    /\ run' = [event |-> e, todo |-> Handlers[chain[e].type]]
    /\ UNCHANGED <<chain, tables, rewards, faults>>

\* processEvent returned, and the indexer marked the event.
End(e) ==
    /\ run.event = e /\ run.todo = <<>>
    /\ Finish(e)
    /\ run' = NoRun
    /\ UNCHANGED <<chain, tables, rewards, faults>>

\* The next step needs a BigInt of a text that is no number.
BadNumber(e) ==
    \/ Head(run.todo) = "upsertProject" /\ BigIntThrows(Data(e).fundingGoal)
    \/ Head(run.todo) = "upsertContribution" /\ BigIntThrows(Data(e).amount)
    \/ Head(run.todo) = "updateFunds" /\ BigIntThrows(Data(e).totalRaised)

\* An update of a soft-deleted user matches no row.
NoSubject(e) == Head(run.todo) = "updateTrustScore" /\ Subject(e) \notin live

MustThrow(e) == run.todo # <<>> /\ (BadNumber(e) \/ NoSubject(e))

\* The handler throws or its mark fails; the writes it made stay.
Throw(e) ==
    /\ run.event = e
    /\ \/ MustThrow(e) /\ UNCHANGED faults
       \/ ~MustThrow(e) /\ Fault
    /\ run' = NoRun
    /\ UNCHANGED <<chain, delivery, tables, rewards>>

\* The indexer goes on without the event: always when it has no handler.
PassOver(e) ==
    /\ run = NoRun /\ e \notin passed
    /\ IF Handled(e) THEN Fault ELSE UNCHANGED faults
    /\ Pass({e})
    /\ UNCHANGED <<chain, run, tables, rewards>>

-----------------------------------------------------------------------------
\* The steps

Doing(e, step) ==
    /\ run.event = e /\ run.todo # <<>>
    /\ Head(run.todo) = step
    /\ ~MustThrow(e)

Proceed == run' = [run EXCEPT !.todo = Tail(@)]

\* Mutant: the row that the upsert creates has no score.
UpsertUserUnscored(e) ==
    /\ Doing(e, "upsertUser")
    /\ live' = live \cup {Wallet(e)}
    /\ gone' = gone \ {Wallet(e)}
    /\ Proceed
    /\ UNCHANGED <<chain, delivery, project, contribution, milestone, trust, rewards, faults>>

\* upsertByWallet makes the user live, also a soft-deleted one.
UpsertUser(e) ==
    /\ Doing(e, "upsertUser")
    /\ live' = live \cup {Wallet(e)}
    /\ gone' = gone \ {Wallet(e)}
    /\ trust' = [w \in DOMAIN trust \cup {Wallet(e)} |-> IF w \in DOMAIN trust THEN trust[w] ELSE 500]
    /\ Proceed
    /\ UNCHANGED <<chain, delivery, project, contribution, milestone, rewards, faults>>

\* Mutant: the update branch starts the project afresh.
UpsertProjectAfresh(e) ==
    /\ Doing(e, "upsertProject")
    /\ project' = [project EXCEPT ![Id(e)] =
                      [status |-> "ACTIVE", goal |-> Data(e).fundingGoal.v, funds |-> 0,
                       deadline |-> Data(e).deadline.v, creator |-> Wallet(e)]]
    /\ Proceed
    /\ UNCHANGED <<chain, delivery, live, gone, contribution, milestone, trust, rewards, faults>>

\* The update branch sets the status too, and leaves funds and creator.
UpsertProject(e) ==
    LET row == IF Present(Id(e)) THEN project[Id(e)]
               ELSE [NoProject EXCEPT !.creator = Wallet(e)]
    IN
    /\ Doing(e, "upsertProject")
    /\ project' = [project EXCEPT ![Id(e)] =
                      [row EXCEPT !.status = "ACTIVE", !.goal = Data(e).fundingGoal.v,
                                  !.deadline = Data(e).deadline.v]]
    /\ Proceed
    /\ UNCHANGED <<chain, delivery, live, gone, contribution, milestone, trust, rewards, faults>>

\* Mutant: only projects that still collect are found.
FindProjectActive(e) ==
    /\ Doing(e, "findProject")
    /\ IF project[Id(e)].status = "ACTIVE" THEN Proceed ELSE run' = [run EXCEPT !.todo = <<>>]
    /\ UNCHANGED <<chain, delivery, tables, rewards, faults>>

\* A missing project is logged, and the handler returns as if it were done.
FindProject(e) ==
    /\ Doing(e, "findProject")
    /\ IF Present(Id(e)) THEN Proceed ELSE run' = [run EXCEPT !.todo = <<>>]
    /\ UNCHANGED <<chain, delivery, tables, rewards, faults>>

\* upsertByTxHash with an empty update.
UpsertContribution(e) ==
    LET row == [tx |-> chain[e].tx, project |-> Id(e), investor |-> Wallet(e),
                amount |-> Data(e).amount.v]
    IN
    /\ Doing(e, "upsertContribution")
    /\ contribution' = IF \E c \in contribution : c.tx = row.tx THEN contribution
                       ELSE contribution \cup {row}
    /\ Proceed
    /\ UNCHANGED <<chain, delivery, live, gone, project, milestone, trust, rewards, faults>>

UpdateFunds(e) ==
    /\ Doing(e, "updateFunds")
    /\ project' = [project EXCEPT ![Id(e)].funds = Data(e).totalRaised.v]
    /\ Proceed
    /\ UNCHANGED <<chain, delivery, live, gone, contribution, milestone, trust, rewards, faults>>

\* The completion date is written by a release and stays afterwards.
UpdateMilestones(e) ==
    /\ Doing(e, "updateMilestones")
    /\ milestone' = [milestone EXCEPT
          ![Id(e)].status = MilestoneStatus[chain[e].type],
          ![Id(e)].completion = IF chain[e].type = "release" THEN e ELSE @]
    /\ Proceed
    /\ UNCHANGED <<chain, delivery, live, gone, project, contribution, trust, rewards, faults>>

\* The rows that calculateTrustScore reads for the creator w.
OwnedBy(w) == {p \in ProjectIds : Present(p) /\ project[p].creator = w}
ProjectsOf(w) ==
    {[id |-> p, status |-> project[p].status, goal |-> project[p].goal, funds |-> project[p].funds] :
        p \in OwnedBy(w)}
MilestonesOf(w) ==
    {[id |-> p, status |-> milestone[p].status, completion |-> milestone[p].completion,
      count |-> Milestones[p].count, createdAt |-> Milestones[p].createdAt] : p \in OwnedBy(w)}

\* Nothing else writes projects and milestones, so the three reads and the
\* write are one step.
UpdateTrustScore(e) ==
    LET w == Subject(e) IN
    /\ Doing(e, "updateTrustScore")
    /\ trust' = [trust EXCEPT ![w] = CalculateTrustScore(ProjectsOf(w), MilestonesOf(w))]
    /\ Proceed
    /\ UNCHANGED <<chain, delivery, live, gone, project, contribution, milestone, rewards, faults>>

\* Its failure is caught and logged: a deleted user gets nothing.
AdjustReputation(e) ==
    /\ Doing(e, "adjustReputation")
    /\ \/ Subject(e) \in live /\ rewards' = [rewards EXCEPT ![e] = @ + 1] /\ UNCHANGED faults
       \/ Subject(e) \notin live /\ UNCHANGED <<rewards, faults>>
       \/ Fault /\ UNCHANGED rewards
    /\ Proceed
    /\ UNCHANGED <<chain, delivery, tables>>

UpdateStatus(e) ==
    /\ Doing(e, "updateStatus")
    /\ project' = IF Present(Id(e))
                  THEN [project EXCEPT ![Id(e)].status = ProjectStatus[chain[e].type]]
                  ELSE project
    /\ Proceed
    /\ UNCHANGED <<chain, delivery, live, gone, contribution, milestone, trust, rewards, faults>>

\* UserService.delete, by a request.
DeleteUser(w) ==
    /\ live' = live \ {w}
    /\ gone' = gone \cup {w}
    /\ UNCHANGED <<chain, delivery, run, project, contribution, milestone, trust, rewards, faults>>

-----------------------------------------------------------------------------
HandlersInit ==
    /\ chain \in Chains
    /\ DeliveryInit
    /\ run = NoRun
    /\ live = {} /\ gone = {}
    /\ project = [p \in ProjectIds |-> NoProject]
    /\ contribution = {}
    /\ milestone = [p \in ProjectIds |-> [status |-> "PENDING", completion |-> 0]]
    /\ trust = << >>
    /\ rewards = [e \in Event |-> 0]
    /\ faults = 0

HandlerStep(e) ==
    \/ Begin(e) \/ End(e) \/ Throw(e) \/ PassOver(e)
    \/ UpsertUser(e) \/ UpsertProject(e) \/ FindProject(e)
    \/ UpsertContribution(e) \/ UpdateFunds(e) \/ UpdateMilestones(e)
    \/ UpdateTrustScore(e) \/ AdjustReputation(e) \/ UpdateStatus(e)

-----------------------------------------------------------------------------
\* Properties

HandlersTypeOK ==
    /\ runs \in [Event -> 0..MaxRuns] /\ done \subseteq Events /\ passed \subseteq Events
    /\ run.event \in Events \cup {0}
    /\ live \cap gone = {}
    /\ project \in [ProjectIds -> [status: Statuses, goal: Nat, funds: Nat, deadline: Nat,
                                   creator: StringValue]]
    /\ milestone \in [ProjectIds -> [status: {"PENDING", "APPROVED", "REJECTED", "FUNDED"},
                                     completion: Event \cup {0}]]
    /\ DOMAIN trust = live \cup gone /\ \A w \in DOMAIN trust : trust[w] \in 0..1000
    /\ rewards \in [Event -> Nat] /\ faults \in 0..MaxFaults

\* Whatever the payload of an event looks like, the decoded data has the fields
\* and the types of the interface that its handler casts it to, or it is
\* quarantined because it is not XDR.
DecodedAsDeclared ==
    \A e \in Events :
        LET t == chain[e].type  d == Data(e) IN
        \/ chain[e].value.shape = "invalid" /\ IsQuarantined(d)
        \/ /\ DOMAIN d = DOMAIN Declared(t)
           /\ \A f \in DOMAIN d : d[f].type = Declared(t)[f]

\* The project that the payload names, 0 when it names none.
NamedId(e) ==
    LET o == AsObject(chain[e].value)
        keys == {k \in {"project_id", "id"} : Field(o, k).kind \in {"bigint", "number", "digits"}}
    IN IF "project_id" \in keys THEN o["project_id"].v
       ELSE IF Field(o, "project_id") = None /\ "id" \in keys THEN o["id"].v ELSE 0

\* A number d that n above 2^53 may be rounded to.
Rounded(n, d) ==
    /\ n > MaxSafe
    /\ (d - n) * MaxSafe <= n
    /\ (n - d) * MaxSafe <= n

\* A step changes only the project that the event at hand names: an event
\* without an id changes project 0, and one whose id a number cannot hold
\* changes a project no further from it than the 53 bits of num()'s result
\* can tell apart, a relative error of 2^-53.
TouchesNamedProject ==
    [][\A p \in ProjectIds :
          project'[p] # project[p] \/ milestone'[p] # milestone[p] =>
              /\ run.event # 0
              /\ \/ NamedId(run.event) = p
                 \/ Rounded(NamedId(run.event), p)]_handlerVars

\* The recorded events of these types for a project, since its first creation.
Recorded(p, types) ==
    LET ofProject == {e \in done : chain[e].type \notin {"claim"} /\ Id(e) = p}
        created == {e \in ofProject : chain[e].type = "proj_new"}
    IN {e \in ofProject : chain[e].type \in types /\ \E c \in created : c <= e}

Latest(S) == CHOOSE e \in S : \A d \in S : d <= e

\* No handler runs, and no event with a handler was passed over.
Undisturbed == run = NoRun /\ \A e \in passed : ~Handled(e)

\* While no event with a handler was passed over, the row of a project says what
\* the latest recorded events of the chain say, whatever was retried before:
\* an attempt that threw half way leaves no trace that a later one keeps.
ProjectsCurrent ==
    Undisturbed =>
        \A p \in ProjectIds :
            LET S == Recorded(p, {"proj_new", "proj_done", "proj_fail"})
                F == Recorded(p, {"contrib"})
                pending == {e \in Events \ done : runs[e] > 0 /\ Handled(e)
                                                  /\ chain[e].type # "claim" /\ Id(e) = p}
            IN S # {} /\ pending = {} =>
               /\ project[p].status = (CASE chain[Latest(S)].type = "proj_new" -> "ACTIVE"
                                         [] chain[Latest(S)].type = "proj_done" -> "COMPLETED"
                                         [] chain[Latest(S)].type = "proj_fail" -> "CANCELLED")
               /\ project[p].funds = IF F = {} THEN 0 ELSE Data(Latest(F)).totalRaised.v

\* The recorded events that have to do with the projects of w, or with w.
RecordedAbout(w) ==
    {e \in done : IF chain[e].type = "claim" THEN Wallet(e) = w ELSE Id(e) \in OwnedBy(w)}

\* When the latest event about a creator was a milestone decision or a dividend
\* of his, and none was passed over, his trust score is the one that his projects and milestones give now,
\* that decision included: handlers that throw half way and run again, and users
\* who are deleted and come back, do not leave an older score behind.
TrustScoreFresh ==
    (Undisturbed /\ \A e \in Events : runs[e] > 0 => e \in done) =>
        \A w \in live :
            LET S == RecordedAbout(w) IN
            S # {} /\ chain[Latest(S)].type \in {"m_apprv", "m_reject", "claim"} =>
                trust[w] = CalculateTrustScore(ProjectsOf(w), MilestonesOf(w))

\* A recorded contribution to a project whose creation was recorded before it has
\* its row, unless another contribution of the same transaction took the row:
\* nothing else loses one, neither retries nor the state of the project.  And
\* reputation is given only for what is there, a contribution with a row of its
\* transaction or a milestone of a project that exists.
ContributionsKept ==
    /\ \A e \in {d \in done : chain[d].type = "contrib"} :
          (\E d \in done \ passed : d < e /\ chain[d].type = "proj_new" /\ Id(d) = Id(e)) =>
              \E c \in contribution :
                  /\ c.tx = chain[e].tx
                  /\ \/ c = [tx |-> c.tx, project |-> Id(e), investor |-> Wallet(e),
                             amount |-> Data(e).amount.v]
                     \/ \E d \in Events \ {e} : chain[d].tx = c.tx /\ runs[d] > 0
    /\ \A e \in {d \in Events : rewards[d] > 0} :
          IF chain[e].type = "contrib"
          THEN \E c \in contribution : c.tx = chain[e].tx
          ELSE Present(Id(e))
=============================================================================
