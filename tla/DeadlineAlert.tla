--------------------------- MODULE DeadlineAlert ---------------------------
(***************************************************************************)
(* DeadlineAlertTask, which tells the contributors of a project that it is *)
(* about to end, running beside the event handlers that write projects and *)
(* contributions and beside the deletion of users.                         *)
(***************************************************************************)
EXTENDS EventHandlers

CONSTANT MaxDay         \* bound on the days that pass; rounds are hourly

ASSUME MaxDayAssumption == MaxDay \in Nat

VARIABLES day,          \* today; a deadline is a day
          cron,         \* the run of the task
          alerts,       \* live notifications with the title of a project
          \* history:
          asked,        \* investors read by the round that alerted a project
          excused       \* of these, those who miss the alert for a reason

alertVars == <<day, cron, alerts, asked, excused>>
vars == <<handlerVars, alertVars>>

IdleCron == [todo |-> {}, at |-> [project |-> -1, investors |-> {}]]
Alerted(p) == {a \in alerts : a.project = p}
Investors(p) == {c.investor : c \in {d \in contribution : d.project = p}}

\* Projects that end within 24 hours, with their investors; the contributions
\* come with include.
EndingSoon ==
    {[project |-> p, investors |-> Investors(p)] :
        p \in {q \in ProjectIds : project[q].status = "ACTIVE" /\ project[q].deadline = day + 1}}

StartCron ==
    /\ cron = IdleCron
    /\ EndingSoon # {}
    /\ cron' = [cron EXCEPT !.todo = EndingSoon]
    /\ UNCHANGED <<handlerVars, day, alerts, asked, excused>>

\* One live alert for anybody, and the project is skipped.
CheckAlerts(t) ==
    /\ t \in cron.todo /\ cron.at.investors = {}
    /\ IF Alerted(t.project) # {}
       THEN /\ cron' = [cron EXCEPT !.todo = @ \ {t}]
            /\ UNCHANGED asked
       ELSE /\ cron' = [todo |-> cron.todo \ {t}, at |-> t]
            /\ asked' = asked \cup {<<t.project, u>> : u \in t.investors}
    /\ UNCHANGED <<handlerVars, day, alerts, excused>>

\* Mutant: an error of notify ends the loop.
NotifyFailsRound(u) ==
    /\ u \in cron.at.investors
    /\ cron' = [cron EXCEPT !.at.investors = {}]
    /\ Fault
    /\ excused' = excused \cup {<<cron.at.project, u>>}
    /\ UNCHANGED <<chain, delivery, run, tables, rewards, day, alerts, asked>>

\* Each error of notify is caught.
NotifyFails(u) ==
    /\ u \in cron.at.investors
    /\ cron' = [cron EXCEPT !.at.investors = @ \ {u}]
    /\ Fault
    /\ excused' = excused \cup {<<cron.at.project, u>>}
    /\ UNCHANGED <<chain, delivery, run, tables, rewards, day, alerts, asked>>

\* notify does nothing for a deleted user, or one who has notifyDeadlines off: a
\* user may change it at any time and nothing else reads it, so wants is what
\* prepareNotification finds.
NotifyInvestor(u, wants) ==
    LET p == cron.at.project
        nth == Cardinality({a \in Alerted(p) : a.user = u}) + 1
    IN
    /\ u \in cron.at.investors
    /\ cron' = [cron EXCEPT !.at.investors = @ \ {u}]
    /\ IF u \in live /\ wants
       THEN alerts' = alerts \cup {[project |-> p, user |-> u, nth |-> nth]} /\ UNCHANGED excused
       ELSE excused' = excused \cup {<<p, u>>} /\ UNCHANGED alerts
    /\ UNCHANGED <<handlerVars, day, asked>>

FinishCron ==
    /\ cron # IdleCron /\ cron.todo = {} /\ cron.at.investors = {}
    /\ cron' = IdleCron
    /\ UNCHANGED <<handlerVars, day, alerts, asked, excused>>

\* The process stops during a round; who was not reached is not made up for.
CrashCron ==
    /\ cron # IdleCron
    /\ cron' = IdleCron
    /\ Fault
    /\ excused' = excused \cup {<<cron.at.project, u>> : u \in cron.at.investors}
    /\ UNCHANGED <<chain, delivery, run, tables, rewards, day, alerts, asked>>

\* cascadeSoftDelete hides the user's notifications from the task.
DeleteUserAndAlerts(w) ==
    /\ w \in live
    /\ DeleteUser(w)
    /\ alerts' = {a \in alerts : a.user # w}
    /\ excused' = excused \cup (ProjectIds \X {w})
    /\ UNCHANGED <<day, cron, asked>>

NextDay ==
    /\ day < MaxDay
    /\ day' = day + 1
    /\ UNCHANGED <<handlerVars, cron, alerts, asked, excused>>

-----------------------------------------------------------------------------
Init ==
    /\ HandlersInit
    /\ day = 0
    /\ cron = IdleCron
    /\ alerts = {} /\ asked = {} /\ excused = {}

Next ==
    \/ \E e \in Events : HandlerStep(e) /\ UNCHANGED alertVars
    \/ StartCron \/ FinishCron \/ CrashCron \/ NextDay
    \/ \E t \in cron.todo : CheckAlerts(t)
    \/ \E u \in cron.at.investors : NotifyFails(u) \/ \E wants \in BOOLEAN : NotifyInvestor(u, wants)
    \/ \E w \in live : DeleteUserAndAlerts(w)

Spec == Init /\ [][Next]_vars

-----------------------------------------------------------------------------
\* Properties

TypeOK ==
    /\ HandlersTypeOK
    /\ day \in 0..MaxDay
    /\ cron.at.project \in ProjectIds \cup {-1}
    /\ \A t \in cron.todo : t.project \in ProjectIds

\* Once a round has alerted a project, every investor it read has the alert,
\* unless notify failed for him, he had turned deadline alerts off when it came
\* to him, he was deleted or the process stopped before it came to him: a
\* failure in the middle costs nobody else the alert, which no later round makes
\* up for.  And nobody has two of them, though rounds repeat, contributions
\* arrive in between and deleted users come back.
AlertsReachInvestors ==
    /\ \A a \in alerts : a.nth = 1
    /\ \A p \in ProjectIds :
           (cron.at.project # p \/ cron.at.investors = {}) =>
               \A u \in {x \in live : <<p, x>> \in asked \ excused} :
                   \E a \in Alerted(p) : a.user = u
=============================================================================
