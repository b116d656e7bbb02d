------------------------ MODULE DeadlineAlertProofs ------------------------
(***************************************************************************)
(* Proofs about DeadlineAlert and the EventHandlers it runs beside, for    *)
(* every set of chains, events and projects and every bound.               *)
(***************************************************************************)
EXTENDS DeadlineAlert, FiniteSetTheorems, WellFoundedInduction, TLAPS

-----------------------------------------------------------------------------
\* The alert task

\* The run of the task is a record, and so are the projects it has still to see.
CronShape ==
    /\ cron = [todo |-> cron.todo, at |-> cron.at]
    /\ cron.at = [project |-> cron.at.project, investors |-> cron.at.investors]
    /\ \A t \in cron.todo : t = [project |-> t.project, investors |-> t.investors]

\* The investors whom the present round has still to notify.
Waiting(p, u) == cron.at.project = p /\ u \in cron.at.investors

\* Whoever waits for the alert of a project does not have it, and whoever was
\* read and does not wait any more has it or is excused, live or not: a deleted
\* user may come back.
AlertsInv ==
    /\ CronShape
    /\ \A a \in alerts : a.nth = 1 /\ ~Waiting(a.project, a.user)
    /\ \A p \in ProjectIds : \A u :
           <<p, u>> \in asked \ excused => Waiting(p, u) \/ \E a \in Alerted(p) : a.user = u

\* The alert task has not begun.
LEMMA AlertsInit == Init => AlertsInv
BY DEF Init, AlertsInv, CronShape, Waiting, IdleCron

\* What happens to the alerts when only other variables change.
LEMMA AlertsQuiet ==
    ASSUME AlertsInv, UNCHANGED <<cron, alerts, asked, excused>>
    PROVE  AlertsInv'
BY DEF AlertsInv, CronShape, Waiting, Alerted

LEMMA StartCronAlerts ==
    ASSUME AlertsInv, StartCron
    PROVE  AlertsInv'
<1>1. cron' = [todo |-> EndingSoon, at |-> cron.at]
  BY DEF AlertsInv, CronShape, StartCron
<1>2. \A t \in EndingSoon : t = [project |-> t.project, investors |-> t.investors]
  BY DEF EndingSoon
<1>3. CronShape'
  BY <1>1, <1>2 DEF AlertsInv, CronShape
<1>4. cron'.at = cron.at /\ UNCHANGED <<alerts, asked, excused>>
  BY <1>1 DEF StartCron
<1> QED BY <1>3, <1>4 DEF AlertsInv, Waiting, Alerted

\* A project is skipped, or everybody read for it waits.
LEMMA CheckAlertsAlerts ==
    ASSUME AlertsInv, NEW t, CheckAlerts(t)
    PROVE  AlertsInv'
<1>1. t \in cron.todo /\ cron.at.investors = {} /\ UNCHANGED <<alerts, excused>>
  BY DEF CheckAlerts
<1>2. CASE Alerted(t.project) # {}
  <2>1. cron' = [todo |-> cron.todo \ {t}, at |-> cron.at] /\ asked' = asked
    BY <1>2 DEF CheckAlerts, AlertsInv, CronShape
  <2>2. CronShape'
    BY <2>1 DEF AlertsInv, CronShape
  <2> QED BY <1>1, <2>1, <2>2 DEF AlertsInv, Waiting, Alerted
<1>3. CASE Alerted(t.project) = {}
  <2>1. /\ cron' = [todo |-> cron.todo \ {t}, at |-> t]
        /\ asked' = asked \cup {<<t.project, u>> : u \in t.investors}
    BY <1>3 DEF CheckAlerts
  <2>2. CronShape'
    BY <1>1, <2>1 DEF AlertsInv, CronShape
  <2>3. \A p, u : ~Waiting(p, u)
    BY <1>1 DEF Waiting
  <2>4. \A p, u : Waiting(p, u)' <=> t.project = p /\ u \in t.investors
    BY <2>1 DEF Waiting
  <2>5. ASSUME NEW a \in alerts' PROVE a.nth = 1 /\ ~Waiting(a.project, a.user)'
    BY <1>1, <1>3, <2>4, <2>5 DEF AlertsInv, Alerted
  <2>6. ASSUME NEW p \in ProjectIds, NEW u, <<p, u>> \in (asked \ excused)'
        PROVE  Waiting(p, u)' \/ \E a \in Alerted(p)' : a.user = u
    BY <1>1, <2>1, <2>3, <2>4, <2>6 DEF AlertsInv, Alerted
  <2> QED BY <2>2, <2>5, <2>6 DEF AlertsInv, Waiting
<1> QED BY <1>2, <1>3

\* An update of the field of such a record.
LEMMA AtExcept ==
    ASSUME NEW at, at = [project |-> at.project, investors |-> at.investors], NEW S
    PROVE  [at EXCEPT !.investors = S] = [project |-> at.project, investors |-> S]
<1>1. PICK p, I : at = [project |-> p, investors |-> I]
  OBVIOUS
<1> QED BY <1>1

\* What an end of notify for u does to the run of the task.
LEMMA Notified ==
    ASSUME CronShape, NEW u, cron' = [cron EXCEPT !.at.investors = @ \ {u}]
    PROVE  /\ CronShape'
           /\ \A p, w : Waiting(p, w)' <=> Waiting(p, w) /\ w # u
           /\ cron'.todo = cron.todo /\ cron'.at.project = cron.at.project
<1>1. PICK at : at = cron.at
  OBVIOUS
<1>2. [at EXCEPT !.investors = at.investors \ {u}]
        = [project |-> at.project, investors |-> at.investors \ {u}]
  BY <1>1, AtExcept DEF CronShape
<1>3. cron' = [cron EXCEPT !.at = [at EXCEPT !.investors = at.investors \ {u}]]
  BY <1>1, Zenon
<1>4. cron' = [todo |-> cron.todo,
               at |-> [project |-> at.project, investors |-> at.investors \ {u}]]
  BY <1>2, <1>3 DEF CronShape
<1>5. cron'.at = [project |-> at.project, investors |-> at.investors \ {u}]
      /\ cron'.todo = cron.todo
  BY <1>4
<1>6. CronShape'
  BY <1>4, <1>5 DEF CronShape
<1> QED BY <1>1, <1>5, <1>6 DEF Waiting

LEMMA NotifyFailsAlerts ==
    ASSUME AlertsInv, NEW u, NotifyFails(u)
    PROVE  AlertsInv'
<1>1. /\ cron' = [cron EXCEPT !.at.investors = @ \ {u}]
      /\ excused' = excused \cup {<<cron.at.project, u>>}
      /\ UNCHANGED <<alerts, asked>>
  BY DEF NotifyFails
<1>2. CronShape' /\ \A p, w : Waiting(p, w)' <=> Waiting(p, w) /\ w # u
  BY <1>1, Notified DEF AlertsInv
<1>3. \A a \in alerts' : a.nth = 1 /\ ~Waiting(a.project, a.user)'
  BY <1>1, <1>2 DEF AlertsInv
<1>4. ASSUME NEW p \in ProjectIds, NEW w, <<p, w>> \in (asked \ excused)'
      PROVE  Waiting(p, w)' \/ \E a \in Alerted(p)' : a.user = w
  <2>1. <<p, w>> \in asked \ excused /\ ~(Waiting(p, w) /\ w = u)
    BY <1>1, <1>4 DEF Waiting
  <2> QED BY <1>1, <1>2, <2>1 DEF AlertsInv, Alerted
<1> QED BY <1>2, <1>3, <1>4 DEF AlertsInv, Waiting

\* Who waits has no alert yet, so the one written now is the first.
LEMMA NotifyInvestorAlerts ==
    ASSUME AlertsInv, NEW u, NEW wants \in BOOLEAN, NotifyInvestor(u, wants)
    PROVE  AlertsInv'
<1> DEFINE p == cron.at.project
           row == [project |-> p, user |-> u, nth |-> 1]
<1>1. /\ cron' = [cron EXCEPT !.at.investors = @ \ {u}]
      /\ u \in cron.at.investors
      /\ UNCHANGED asked
  BY DEF NotifyInvestor
<1>2. CronShape' /\ \A q, w : Waiting(q, w)' <=> Waiting(q, w) /\ w # u
  BY <1>1, Notified DEF AlertsInv
<1>3. Waiting(p, u)
  BY <1>1 DEF Waiting
<1>4. {a \in Alerted(p) : a.user = u} = {}
  BY <1>3 DEF AlertsInv, Alerted
<1>5. Cardinality({a \in Alerted(p) : a.user = u}) + 1 = 1
  BY <1>4, FS_EmptySet
<1>6. CASE u \in live /\ wants
  <2>1. alerts' = alerts \cup {row} /\ UNCHANGED excused
    BY <1>5, <1>6 DEF NotifyInvestor
  <2>2. \A a \in alerts' : a.nth = 1 /\ ~Waiting(a.project, a.user)'
    BY <1>2, <2>1 DEF AlertsInv
  <2>3. ASSUME NEW q \in ProjectIds, NEW w, <<q, w>> \in (asked \ excused)'
        PROVE  Waiting(q, w)' \/ \E a \in Alerted(q)' : a.user = w
    <3>1. CASE Waiting(q, w) /\ w = u
      <4>1. row \in Alerted(q)' /\ row.user = w
        BY <2>1, <3>1 DEF Alerted, Waiting
      <4> HIDE DEF row
      <4> QED BY <4>1
    <3>2. CASE ~(Waiting(q, w) /\ w = u)
      BY <1>1, <1>2, <2>1, <2>3, <3>2 DEF AlertsInv, Alerted
    <3> QED BY <3>1, <3>2
  <2> QED BY <1>2, <2>2, <2>3 DEF AlertsInv, Waiting
<1>7. CASE ~(u \in live /\ wants)
  <2>1. excused' = excused \cup {<<p, u>>} /\ UNCHANGED alerts
    BY <1>7 DEF NotifyInvestor
  <2>2. \A a \in alerts' : a.nth = 1 /\ ~Waiting(a.project, a.user)'
    BY <1>2, <2>1 DEF AlertsInv
  <2>3. ASSUME NEW q \in ProjectIds, NEW w, <<q, w>> \in (asked \ excused)'
        PROVE  Waiting(q, w)' \/ \E a \in Alerted(q)' : a.user = w
    <3>1. <<q, w>> \in asked \ excused /\ ~(Waiting(q, w) /\ w = u)
      BY <1>1, <2>1, <2>3 DEF Waiting
    <3> QED BY <1>2, <2>1, <3>1 DEF AlertsInv, Alerted
  <2> QED BY <1>2, <2>2, <2>3 DEF AlertsInv, Waiting
<1> QED BY <1>6, <1>7

LEMMA FinishCronAlerts ==
    ASSUME AlertsInv, FinishCron
    PROVE  AlertsInv'
<1>1. CronShape' /\ \A p, u : ~Waiting(p, u)'
  BY DEF FinishCron, CronShape, IdleCron, Waiting
<1>2. \A p, u : ~Waiting(p, u)
  BY DEF FinishCron, Waiting
<1>3. UNCHANGED <<alerts, asked, excused>>
  BY DEF FinishCron
<1> QED BY <1>1, <1>2, <1>3 DEF AlertsInv, Alerted

LEMMA CrashCronAlerts ==
    ASSUME AlertsInv, CrashCron
    PROVE  AlertsInv'
<1>1. CronShape' /\ \A p, u : ~Waiting(p, u)'
  BY DEF CrashCron, CronShape, IdleCron, Waiting
<1>2. /\ excused' = excused \cup {<<cron.at.project, u>> : u \in cron.at.investors}
      /\ UNCHANGED <<alerts, asked>>
  BY DEF CrashCron
<1>3. ASSUME NEW p \in ProjectIds, NEW u, <<p, u>> \in (asked \ excused)'
      PROVE  \E a \in Alerted(p)' : a.user = u
  <2>1. <<p, u>> \in asked \ excused /\ ~Waiting(p, u)
    BY <1>2, <1>3 DEF Waiting
  <2> QED BY <1>2, <2>1 DEF AlertsInv, Alerted
<1>4. \A a \in alerts' : a.nth = 1
  BY <1>2 DEF AlertsInv
<1> QED BY <1>1, <1>3, <1>4 DEF AlertsInv

\* Whoever loses his alerts with his account is excused from all projects.
LEMMA DeleteUserAlerts ==
    ASSUME AlertsInv, NEW w, DeleteUserAndAlerts(w)
    PROVE  AlertsInv'
<1>1. /\ alerts' = {a \in alerts : a.user # w}
      /\ excused' = excused \cup (ProjectIds \X {w})
      /\ UNCHANGED <<cron, asked>>
  BY DEF DeleteUserAndAlerts
<1>2. CronShape' /\ \A p, u : Waiting(p, u)' <=> Waiting(p, u)
  BY <1>1 DEF AlertsInv, CronShape, Waiting
<1>3. \A a \in alerts' : a.nth = 1 /\ ~Waiting(a.project, a.user)'
  BY <1>1, <1>2 DEF AlertsInv
<1>4. ASSUME NEW p \in ProjectIds, NEW u, <<p, u>> \in (asked \ excused)'
      PROVE  Waiting(p, u)' \/ \E a \in Alerted(p)' : a.user = u
  <2>1. <<p, u>> \in asked \ excused /\ u # w
    BY <1>1, <1>4
  <2> QED BY <1>1, <1>2, <2>1 DEF AlertsInv, Alerted
<1> QED BY <1>2, <1>3, <1>4 DEF AlertsInv, Waiting

LEMMA AlertsStep ==
    ASSUME AlertsInv, [Next]_vars
    PROVE  AlertsInv'
<1>1. CASE UNCHANGED vars
  BY <1>1, AlertsQuiet DEF vars, alertVars
<1>2. ASSUME NEW e \in Events, HandlerStep(e) /\ UNCHANGED alertVars PROVE AlertsInv'
  BY <1>2, AlertsQuiet DEF alertVars
<1>3. CASE NextDay
  BY <1>3, AlertsQuiet DEF NextDay
<1> QED BY <1>1, <1>2, <1>3, StartCronAlerts, FinishCronAlerts, CrashCronAlerts, CheckAlertsAlerts,
           NotifyFailsAlerts, NotifyInvestorAlerts, DeleteUserAlerts DEF Next

\* Every investor whom a round of the task read has the alert of the project,
\* unless notify failed for him, he had opted out, he was deleted or the process
\* stopped before it came to him, and nobody has it twice.
THEOREM Alerts == Spec => []AlertsReachInvestors
<1>1. AlertsInv => AlertsReachInvestors
  BY DEF AlertsInv, AlertsReachInvestors, Waiting
<1>2. AlertsInv /\ [Next]_vars => AlertsInv'
  BY AlertsStep
<1> QED BY AlertsInit, <1>1, <1>2, PTL DEF Spec

-----------------------------------------------------------------------------
\* The decoder

NumberValue == [type: {"number"}, form: {"digits"}, v: Nat]

\* Every nonempty set of naturals has a least element.
LEMMA LeastNatural ==
    ASSUME NEW T, T \subseteq Nat, T # {}
    PROVE  \E m \in T : \A k \in T : m <= k
<1> DEFINE R == OpToRel(<, Nat)
<1>1. IsWellFoundedOn(R, Nat)
  BY NatLessThanWellFounded
<1>2. PICK m \in T : \A k \in T : <<k, m>> \notin R
  <2> HIDE DEF R
  <2> QED BY <1>1, WFMin
<1>3. R = {ss \in Nat \X Nat : ss[1] < ss[2]}
  BY Zenon DEF OpToRel
<1>4. ASSUME NEW k \in T PROVE m <= k
  <2> HIDE DEF R
  <2>1. k \in Nat /\ m \in Nat
    OBVIOUS
  <2>2. ~(k < m)
    BY <1>2, <1>3, <2>1
  <2> QED BY <2>1, <2>2
<1> QED BY <1>4

LEMMA Times ==
    ASSUME NEW a \in Nat, NEW b \in Nat, a <= b, NEW m \in Nat
    PROVE  a * m <= b * m /\ a * m \in Nat /\ b * m \in Nat /\ m * a = a * m
<1>1. (b - a) * m >= 0
  OBVIOUS
<1>2. (b - a) * m = b * m - a * m
  OBVIOUS
<1> QED BY <1>1, <1>2

LEMMA Remainder ==
    ASSUME NEW a \in Nat, NEW b \in Nat, b > 0
    PROVE  a % b \in Nat /\ a % b < b /\ a % b <= a
OBVIOUS

\* The spacing at v, and that v is past the range of the narrower one.
LEMMA SpacingAt ==
    ASSUME NEW v \in Content
    PROVE  /\ v \in Nat /\ Spacing(v) \in Nat /\ Spacing(v) > 0
           /\ \/ Spacing(v) = 1
              \/ \E h \in Nat : h > 0 /\ Spacing(v) = 2 * h /\ v > MaxSafe * h
<1> DEFINE T == {s \in Spacings : v <= MaxSafe * s}
<1>1. v \in Nat /\ T # {} /\ T \subseteq Nat
  BY SpacingsAssumption DEF Content, SpacingsAssumption
<1>2. \E s \in T : \A t \in T : s <= t
  <2> HIDE DEF T
  <2> QED BY <1>1, LeastNatural
<1>3. PICK s : s = Spacing(v)
  OBVIOUS
<1>4. s \in Spacings /\ \A t \in Spacings : v <= MaxSafe * t => s <= t
  BY <1>2, <1>3 DEF Spacing
<1>5. s \in Nat /\ s > 0 /\ MaxSafe \in Nat
  BY <1>4, SpacingsAssumption, MaxSafeAssumption DEF SpacingsAssumption, MaxSafeAssumption
<1>6. ASSUME s # 1 PROVE \E h \in Nat : h > 0 /\ s = 2 * h /\ v > MaxSafe * h
  <2>1. PICK h : h = s \div 2
    OBVIOUS
  <2>2. s % 2 = 0 /\ h \in Spacings
    BY <1>4, <1>6, <2>1, SpacingsAssumption DEF SpacingsAssumption
  <2>3. h \in Nat /\ h > 0
    BY <2>2, SpacingsAssumption DEF SpacingsAssumption
  <2>4. s = 2 * h
    BY <1>5, <2>1, <2>2
  <2>5. ~(s <= h)
    BY <2>3, <2>4
  <2>6. ~(v <= MaxSafe * h)
    BY <1>4, <2>2, <2>5
  <2>7. MaxSafe * h \in Nat
    BY <1>5, <2>3
  <2> QED BY <1>1, <2>3, <2>4, <2>6, <2>7
<1> QED BY <1>1, <1>3, <1>5, <1>6

\* A number is rounded to a natural number, no further than Rounded says.
LEMMA ToNumberNear ==
    ASSUME NEW v \in Content
    PROVE  ToNumber(v) \in Nat /\ (ToNumber(v) = v \/ Rounded(v, ToNumber(v)))
<1>1. PICK s : s = Spacing(v)
  OBVIOUS
<1>2. v \in Nat /\ s \in Nat /\ s > 0 /\ MaxSafe \in Nat
  BY <1>1, SpacingAt, MaxSafeAssumption DEF MaxSafeAssumption
<1>3. PICK r : r = v % s
  OBVIOUS
<1>4. r \in Nat /\ r < s /\ r <= v
  BY <1>2, <1>3, Remainder
<1>5. PICK d : d = ToNumber(v)
  OBVIOUS
<1>6. \/ d = v - r /\ 2 * r <= s
      \/ d = v - r + s /\ 2 * r >= s
  <2>1. PICK q : q = (v - r) % (2 * s)
    OBVIOUS
  <2>2. d = IF 2 * r < s \/ (2 * r = s /\ q = 0) THEN v - r ELSE v - r + s
    BY <1>1, <1>3, <1>5, <2>1, Zenon DEF ToNumber
  <2>3. 2 * r \in Nat
    BY <1>4
  <2> QED BY <1>2, <1>4, <2>2, <2>3
<1>7. d \in Nat
  BY <1>2, <1>4, <1>6
<1>8. CASE s = 1
  BY <1>2, <1>4, <1>5, <1>6, <1>7, <1>8
<1>9. CASE s # 1
  <2>1. PICK h \in Nat : h > 0 /\ s = 2 * h /\ v > MaxSafe * h
    BY <1>1, <1>9, SpacingAt
  <2>2. PICK m \in Nat : m = MaxSafe
    BY <1>2
  <2>3. h * m < v /\ h * m \in Nat /\ 1 * m <= h * m
    BY <1>2, <2>1, <2>2, Times
  <2>4. v > m
    BY <1>2, <2>2, <2>3
  <2>5. CASE d = v - r /\ 2 * r <= s
    <3>1. d - v = 0 - r /\ v - d = r /\ r <= h
      BY <1>2, <1>4, <2>1, <2>5
    <3>2. r * m <= h * m /\ r * m \in Nat
      BY <1>4, <2>1, <3>1, Times
    <3>3. (0 - r) * m <= 0
      <4>1. (0 - r) * m = 0 - r * m
        BY <1>4
      <4> QED BY <3>2, <4>1
    <3>4. (v - d) * m <= v /\ (d - v) * m <= v
      <4>1. (v - d) * m = r * m /\ (d - v) * m = (0 - r) * m
        BY <3>1, Zenon
      <4>2. (0 - r) * m \in Int /\ v \in Nat /\ r * m \in Nat
        BY <1>2, <1>4, <3>2
      <4> QED BY <2>3, <3>2, <3>3, <4>1, <4>2
    <3> QED BY <1>5, <1>7, <2>2, <2>4, <3>4 DEF Rounded
  <2>6. CASE d = v - r + s /\ 2 * r >= s
    <3>1. PICK k \in Nat : k = s - r
      BY <1>2, <1>4
    <3>2. d - v = k /\ v - d = 0 - k /\ k <= h
      BY <1>2, <1>4, <2>1, <2>6, <3>1
    <3>3. k * m <= h * m /\ k * m \in Nat
      BY <2>1, <3>1, <3>2, Times
    <3>4. (0 - k) * m <= 0
      <4>1. (0 - k) * m = 0 - k * m
        OBVIOUS
      <4> QED BY <3>3, <4>1
    <3>5. (v - d) * m <= v /\ (d - v) * m <= v
      <4>1. (v - d) * m = (0 - k) * m /\ (d - v) * m = k * m
        BY <3>2, Zenon
      <4>2. (0 - k) * m \in Int /\ v \in Nat /\ k * m \in Nat
        BY <1>2, <3>3
      <4> QED BY <2>3, <3>3, <3>4, <4>1, <4>2
    <3> QED BY <1>5, <1>7, <2>2, <2>4, <3>5 DEF Rounded
  <2> QED BY <1>6, <2>5, <2>6
<1> QED BY <1>8, <1>9

\* Str, Num and BigStr yield strings and numbers, whatever native value they
\* meet or none.
LEMMA NativeTypes ==
    ASSUME NEW x \in NativeValue \cup {None}
    PROVE  /\ Str(x) \in StringValue /\ BigStr(x) \in StringValue /\ Num(x) \in NumberValue
           /\ LengthOr(x) \in NumberValue
<1>0. 0 \in Content
  <2>1. MaxSafe * 1 >= 0
    BY MaxSafeAssumption DEF MaxSafeAssumption
  <2> QED BY <2>1, SpacingsAssumption DEF Content, SpacingsAssumption
<1>1. x.kind \in NativeKinds \cup {"none"} /\ x.v \in Content
  BY <1>0 DEF NativeValue, None, Native
<1>9. x.v \in Nat
  BY <1>1 DEF Content
<1>2. Empty \in StringValue
  BY DEF Empty, String, StringValue, Forms
<1>3. \A v \in Nat : \A f \in Forms : String(f, v) \in StringValue
  BY DEF String, StringValue
<1>4. Str(x) \in StringValue
  BY <1>1, <1>9, <1>2, <1>3 DEF Str, Digits, NativeKinds, Forms
<1>5. BigStr(x) \in StringValue
  BY <1>1, <1>9, <1>2, <1>3 DEF BigStr, Digits, NativeKinds, Forms
<1>6. ToNumber(x.v) \in Nat
  BY <1>1, ToNumberNear
<1>7. Num(x) \in NumberValue
  BY <1>1, <1>9, <1>6 DEF Num, Number, NumberValue
<1>8. LengthOr(x) \in NumberValue
  BY <1>1, <1>9, <1>7 DEF LengthOr, Number, NumberValue
<1> QED BY <1>4, <1>5, <1>7, <1>8

\* What the decoders take from an object of native values.
LEMMA ValueTypes ==
    ASSUME NEW o, \A k \in DOMAIN o : o[k] \in NativeValue, NEW j, NEW k
    PROVE  /\ Str(Field(o, k)) \in StringValue /\ BigStr(Field(o, k)) \in StringValue
           /\ Num(Field(o, k)) \in NumberValue /\ LengthOr(Field(o, k)) \in NumberValue
           /\ OrUnknown(Str(Field(o, k))) \in StringValue
           /\ Str(Either(o, k, j)) \in StringValue /\ BigStr(Either(o, k, j)) \in StringValue
           /\ ProjectId(o) \in NumberValue
<1>1. \A i : Field(o, i) \in NativeValue \cup {None}
  BY DEF Field
<1>2. \A i, h : Either(o, i, h) \in NativeValue \cup {None}
  BY <1>1, Zenon DEF Either
<1>3. OrUnknown(Str(Field(o, k))) \in StringValue
  BY <1>1, NativeTypes DEF OrUnknown, String, StringValue, Forms
<1> QED BY <1>1, <1>2, <1>3, NativeTypes DEF ProjectId

\* Data has the fields of an interface, with the types it declares.
Matches(d, decl) == DOMAIN d = DOMAIN decl /\ \A f \in DOMAIN d : d[f].type = decl[f]

LEMMA DecodersMatch ==
    ASSUME NEW o, \A k \in DOMAIN o : o[k] \in NativeValue, NEW t \in ContractEventType
    PROVE  Matches(Decoders(t, o), Declared(t))
<1>0. /\ \A k : Str(Field(o, k)).type = "string" /\ BigStr(Field(o, k)).type = "string"
      /\ \A k : Num(Field(o, k)).type = "number" /\ LengthOr(Field(o, k)).type = "number"
      /\ \A k : OrUnknown(Str(Field(o, k))).type = "string" /\ IsTrue(Field(o, k)).type = "boolean"
      /\ \A k, j : Str(Either(o, k, j)).type = "string" /\ BigStr(Either(o, k, j)).type = "string"
      /\ ProjectId(o).type = "number"
  <2>1. \A x \in StringValue : x.type = "string"
    BY DEF StringValue
  <2>2. \A x \in NumberValue : x.type = "number"
    BY DEF NumberValue
  <2>3. \A k : IsTrue(Field(o, k)).type = "boolean"
    BY DEF IsTrue
  <2> QED BY <2>1, <2>2, <2>3, ValueTypes
<1>1. CASE t = "proj_new"
  <2>1. Matches(DecodeProjectCreated(o), ProjectCreatedEvent)
    BY <1>0 DEF Matches, DecodeProjectCreated, ProjectCreatedEvent
  <2> QED BY <1>1, <2>1, Zenon DEF Decoders, Declared
<1>2. CASE t = "proj_fund"
  <2>1. Matches(DecodeProjectFunded(o), ProjectFundedEvent)
    BY <1>0 DEF Matches, DecodeProjectFunded, ProjectFundedEvent
  <2> QED BY <1>2, <2>1, Zenon DEF Decoders, Declared
<1>3. CASE t \in {"proj_done", "proj_fail"}
  <2>1. Matches(DecodeProjectStatus(o), ProjectStatusEvent)
    BY <1>0 DEF Matches, DecodeProjectStatus, ProjectStatusEvent
  <2> QED BY <1>3, <2>1, Zenon DEF Decoders, Declared
<1>4. CASE t = "contrib"
  <2>1. Matches(DecodeContributionMade(o), ContributionMadeEvent)
    BY <1>0 DEF Matches, DecodeContributionMade, ContributionMadeEvent
  <2> QED BY <1>4, <2>1, Zenon DEF Decoders, Declared
<1>5. CASE t = "refund"
  <2>1. Matches(DecodeRefundIssued(o), RefundIssuedEvent)
    BY <1>0 DEF Matches, DecodeRefundIssued, RefundIssuedEvent
  <2> QED BY <1>5, <2>1, Zenon DEF Decoders, Declared
<1>6. CASE t = "esc_init"
  <2>1. Matches(DecodeEscrowInitialized(o), EscrowInitializedEvent)
    BY <1>0 DEF Matches, DecodeEscrowInitialized, EscrowInitializedEvent
  <2> QED BY <1>6, <2>1, Zenon DEF Decoders, Declared
<1>7. CASE t = "lock"
  <2>1. Matches(DecodeFundsLocked(o), FundsLockedEvent)
    BY <1>0 DEF Matches, DecodeFundsLocked, FundsLockedEvent
  <2> QED BY <1>7, <2>1, Zenon DEF Decoders, Declared
<1>8. CASE t = "release"
  <2>1. Matches(DecodeFundsReleased(o), FundsReleasedEvent)
    BY <1>0 DEF Matches, DecodeFundsReleased, FundsReleasedEvent
  <2> QED BY <1>8, <2>1, Zenon DEF Decoders, Declared
<1>9. CASE t = "m_create"
  <2>1. Matches(DecodeMilestoneCreated(o), MilestoneCreatedEvent)
    BY <1>0 DEF Matches, DecodeMilestoneCreated, MilestoneCreatedEvent
  <2> QED BY <1>9, <2>1, Zenon DEF Decoders, Declared
<1>10. CASE t = "m_submit"
  <2>1. Matches(DecodeMilestoneSubmitted(o), MilestoneSubmittedEvent)
    BY <1>0 DEF Matches, DecodeMilestoneSubmitted, MilestoneSubmittedEvent
  <2> QED BY <1>10, <2>1, Zenon DEF Decoders, Declared
<1>11. CASE t = "m_apprv"
  <2>1. Matches(DecodeMilestoneApproved(o), MilestoneApprovedEvent)
    BY <1>0 DEF Matches, DecodeMilestoneApproved, MilestoneApprovedEvent
  <2> QED BY <1>11, <2>1, Zenon DEF Decoders, Declared
<1>12. CASE t = "m_reject"
  <2>1. Matches(DecodeMilestoneRejected(o), MilestoneRejectedEvent)
    BY <1>0 DEF Matches, DecodeMilestoneRejected, MilestoneRejectedEvent
  <2> QED BY <1>12, <2>1, Zenon DEF Decoders, Declared
<1>13. CASE t = "milestone"
  <2>1. Matches(DecodeMilestoneCompleted(o), MilestoneCompletedEvent)
    BY <1>0 DEF Matches, DecodeMilestoneCompleted, MilestoneCompletedEvent
  <2> QED BY <1>13, <2>1, Zenon DEF Decoders, Declared
<1>14. CASE t = "v_update"
  <2>1. Matches(DecodeValidatorsUpdated(o), ValidatorsUpdatedEvent)
    BY <1>0 DEF Matches, DecodeValidatorsUpdated, ValidatorsUpdatedEvent
  <2> QED BY <1>14, <2>1, Zenon DEF Decoders, Declared
<1>15. CASE t = "profit"
  <2>1. Matches(DecodeProfitDistributed(o), ProfitDistributedEvent)
    BY <1>0 DEF Matches, DecodeProfitDistributed, ProfitDistributedEvent
  <2> QED BY <1>15, <2>1, Zenon DEF Decoders, Declared
<1>16. CASE t = "claim"
  <2>1. Matches(DecodeDividendClaimed(o), DividendClaimedEvent)
    BY <1>0 DEF Matches, DecodeDividendClaimed, DividendClaimedEvent
  <2> QED BY <1>16, <2>1, Zenon DEF Decoders, Declared
<1>17. CASE t = "proposal"
  <2>1. Matches(DecodeProposalCreated(o), ProposalCreatedEvent)
    BY <1>0 DEF Matches, DecodeProposalCreated, ProposalCreatedEvent
  <2> QED BY <1>17, <2>1, Zenon DEF Decoders, Declared
<1>18. CASE t = "vote"
  <2>1. Matches(DecodeVoteCast(o), VoteCastEvent)
    BY <1>0 DEF Matches, DecodeVoteCast, VoteCastEvent
  <2> QED BY <1>18, <2>1, Zenon DEF Decoders, Declared
<1>19. CASE t = "execute"
  <2>1. Matches(DecodeProposalExecuted(o), ProposalExecutedEvent)
    BY <1>0 DEF Matches, DecodeProposalExecuted, ProposalExecutedEvent
  <2> QED BY <1>19, <2>1, Zenon DEF Decoders, Declared
<1>20. CASE t = "user_reg"
  <2>1. Matches(DecodeUserRegistered(o), UserRegisteredEvent)
    BY <1>0 DEF Matches, DecodeUserRegistered, UserRegisteredEvent
  <2> QED BY <1>20, <2>1, Zenon DEF Decoders, Declared
<1>21. CASE t = "rep_up"
  <2>1. Matches(DecodeReputationUpdated(o), ReputationUpdatedEvent)
    BY <1>0 DEF Matches, DecodeReputationUpdated, ReputationUpdatedEvent
  <2> QED BY <1>21, <2>1, Zenon DEF Decoders, Declared
<1>22. CASE t = "badge"
  <2>1. Matches(DecodeBadgeEarned(o), BadgeEarnedEvent)
    BY <1>0 DEF Matches, DecodeBadgeEarned, BadgeEarnedEvent
  <2> QED BY <1>22, <2>1, Zenon DEF Decoders, Declared
<1>23. CASE t = "pay_setup"
  <2>1. Matches(DecodePaymentSetup(o), PaymentSetupEvent)
    BY <1>0 DEF Matches, DecodePaymentSetup, PaymentSetupEvent
  <2> QED BY <1>23, <2>1, Zenon DEF Decoders, Declared
<1>24. CASE t = "pay_recv"
  <2>1. Matches(DecodePaymentReceived(o), PaymentReceivedEvent)
    BY <1>0 DEF Matches, DecodePaymentReceived, PaymentReceivedEvent
  <2> QED BY <1>24, <2>1, Zenon DEF Decoders, Declared
<1>25. CASE t = "pay_withd"
  <2>1. Matches(DecodePaymentWithdrawn(o), PaymentWithdrawnEvent)
    BY <1>0 DEF Matches, DecodePaymentWithdrawn, PaymentWithdrawnEvent
  <2> QED BY <1>25, <2>1, Zenon DEF Decoders, Declared
<1>26. CASE t = "subscr"
  <2>1. Matches(DecodeSubscriptionCreated(o), SubscriptionCreatedEvent)
    BY <1>0 DEF Matches, DecodeSubscriptionCreated, SubscriptionCreatedEvent
  <2> QED BY <1>26, <2>1, Zenon DEF Decoders, Declared
<1>27. CASE t \in {"sub_cancl", "sub_pause", "sub_resum"}
  <2>1. Matches(DecodeSubscriptionStatus(o), SubscriptionStatusEvent)
    BY <1>0 DEF Matches, DecodeSubscriptionStatus, SubscriptionStatusEvent
  <2> QED BY <1>27, <2>1, Zenon DEF Decoders, Declared
<1>28. CASE t = "sub_mod"
  <2>1. Matches(DecodeSubscriptionModified(o), SubscriptionModifiedEvent)
    BY <1>0 DEF Matches, DecodeSubscriptionModified, SubscriptionModifiedEvent
  <2> QED BY <1>28, <2>1, Zenon DEF Decoders, Declared
<1>29. CASE t = "pay_fail"
  <2>1. Matches(DecodePaymentFailed(o), PaymentFailedEvent)
    BY <1>0 DEF Matches, DecodePaymentFailed, PaymentFailedEvent
  <2> QED BY <1>29, <2>1, Zenon DEF Decoders, Declared
<1>30. CASE t = "deposit"
  <2>1. Matches(DecodeSubscriptionPayment(o), SubscriptionPaymentEvent)
    BY <1>0 DEF Matches, DecodeSubscriptionPayment, SubscriptionPaymentEvent
  <2> QED BY <1>30, <2>1, Zenon DEF Decoders, Declared
<1>31. CASE t = "br_init"
  <2>1. Matches(DecodeBridgeInitialized(o), BridgeInitializedEvent)
    BY <1>0 DEF Matches, DecodeBridgeInitialized, BridgeInitializedEvent
  <2> QED BY <1>31, <2>1, Zenon DEF Decoders, Declared
<1>32. CASE t = "chain_add"
  <2>1. Matches(DecodeChainAdded(o), SupportedChainAddedEvent)
    BY <1>0 DEF Matches, DecodeChainAdded, SupportedChainAddedEvent
  <2> QED BY <1>32, <2>1, Zenon DEF Decoders, Declared
<1>33. CASE t = "chain_rem"
  <2>1. Matches(DecodeChainRemoved(o), SupportedChainRemovedEvent)
    BY <1>0 DEF Matches, DecodeChainRemoved, SupportedChainRemovedEvent
  <2> QED BY <1>33, <2>1, Zenon DEF Decoders, Declared
<1>34. CASE t = "wrap"
  <2>1. Matches(DecodeAssetWrapped(o), AssetWrappedEvent)
    BY <1>0 DEF Matches, DecodeAssetWrapped, AssetWrappedEvent
  <2> QED BY <1>34, <2>1, Zenon DEF Decoders, Declared
<1>35. CASE t = "unwrap"
  <2>1. Matches(DecodeAssetUnwrapped(o), AssetUnwrappedEvent)
    BY <1>0 DEF Matches, DecodeAssetUnwrapped, AssetUnwrappedEvent
  <2> QED BY <1>35, <2>1, Zenon DEF Decoders, Declared
<1>36. CASE t = "br_dep"
  <2>1. Matches(DecodeBridgeDeposit(o), BridgeDepositEvent)
    BY <1>0 DEF Matches, DecodeBridgeDeposit, BridgeDepositEvent
  <2> QED BY <1>36, <2>1, Zenon DEF Decoders, Declared
<1>37. CASE t = "br_wdraw"
  <2>1. Matches(DecodeBridgeWithdraw(o), BridgeWithdrawEvent)
    BY <1>0 DEF Matches, DecodeBridgeWithdraw, BridgeWithdrawEvent
  <2> QED BY <1>37, <2>1, Zenon DEF Decoders, Declared
<1>38. CASE t \in {"br_pause", "br_res"}
  <2>1. Matches(DecodeBridgeLifecycle(o), BridgeLifecycleEvent)
    BY <1>0 DEF Matches, DecodeBridgeLifecycle, BridgeLifecycleEvent
  <2> QED BY <1>38, <2>1, Zenon DEF Decoders, Declared
<1>39. CASE t \in {"rel_add", "rel_rem"}
  <2>1. Matches(DecodeRelayer(o), RelayerEvent)
    BY <1>0 DEF Matches, DecodeRelayer, RelayerEvent
  <2> QED BY <1>39, <2>1, Zenon DEF Decoders, Declared
<1>40. CASE t \in {"tx_conf", "tx_fail"}
  <2>1. Matches(DecodeBridgeTx(o), BridgeTxEvent)
    BY <1>0 DEF Matches, DecodeBridgeTx, BridgeTxEvent
  <2> QED BY <1>40, <2>1, Zenon DEF Decoders, Declared
<1>41. CASE t \in {"esc_pause", "esc_resum"}
  <2>1. Matches(DecodeContractLifecycle(o), ContractLifecycleEvent)
    BY <1>0 DEF Matches, DecodeContractLifecycle, ContractLifecycleEvent
  <2> QED BY <1>41, <2>1, Zenon DEF Decoders, Declared
<1>42. CASE t \in {"upg_sched", "upg_exec", "upg_canc"}
  <2>1. Matches(DecodeUpgrade(o), UpgradeEvent)
    BY <1>0 DEF Matches, DecodeUpgrade, UpgradeEvent
  <2> QED BY <1>42, <2>1, Zenon DEF Decoders, Declared
<1> QED BY <1>1, <1>2, <1>3, <1>4, <1>5, <1>6, <1>7, <1>8, <1>9, <1>10, <1>11, <1>12,
           <1>13, <1>14, <1>15, <1>16, <1>17, <1>18, <1>19, <1>20, <1>21, <1>22, <1>23,
           <1>24, <1>25, <1>26, <1>27, <1>28, <1>29, <1>30, <1>31, <1>32, <1>33, <1>34,
           <1>35, <1>36, <1>37, <1>38, <1>39, <1>40, <1>41, <1>42
        DEF ContractEventType

-----------------------------------------------------------------------------
\* The steps of a handler

Kinds == {"proj_new", "contrib", "m_apprv", "m_reject", "release", "proj_done", "proj_fail", "claim"}
Decisions == {"m_apprv", "m_reject"}

\* What a handler for events of type t may still have to do.
Stages(t) ==
    CASE t = "proj_new" -> {<<"upsertUser", "upsertProject">>, <<"upsertProject">>, <<>>}
      [] t = "contrib" ->
            {<<"upsertUser", "findProject", "upsertContribution", "updateFunds", "adjustReputation">>,
             <<"findProject", "upsertContribution", "updateFunds", "adjustReputation">>,
             <<"upsertContribution", "updateFunds", "adjustReputation">>,
             <<"updateFunds", "adjustReputation">>, <<"adjustReputation">>, <<>>}
      [] t \in Decisions ->
            {<<"findProject", "updateMilestones", "updateTrustScore", "adjustReputation">>,
             <<"updateMilestones", "updateTrustScore", "adjustReputation">>,
             <<"updateTrustScore", "adjustReputation">>, <<"adjustReputation">>, <<>>}
      [] t = "release" -> {<<"findProject", "updateMilestones">>, <<"updateMilestones">>, <<>>}
      [] t \in {"proj_done", "proj_fail"} -> {<<"updateStatus">>, <<>>}
      [] t = "claim" -> {<<"upsertUser", "updateTrustScore">>, <<"updateTrustScore">>, <<>>}

\* The step to do next.
Step(todo) == IF todo = <<>> THEN "end" ELSE Head(todo)

\* In the handler for events of type t, n comes after s.
After(t, s, n) ==
    \/ t = "proj_new" /\ <<s, n>> \in {<<"upsertUser", "upsertProject">>, <<"upsertProject", "end">>}
    \/ t = "contrib" /\ <<s, n>> \in {<<"upsertUser", "findProject">>,
                                      <<"findProject", "upsertContribution">>,
                                      <<"upsertContribution", "updateFunds">>,
                                      <<"updateFunds", "adjustReputation">>,
                                      <<"adjustReputation", "end">>}
    \/ t \in Decisions /\ <<s, n>> \in {<<"findProject", "updateMilestones">>,
                                        <<"updateMilestones", "updateTrustScore">>,
                                        <<"updateTrustScore", "adjustReputation">>,
                                        <<"adjustReputation", "end">>}
    \/ t = "release" /\ <<s, n>> \in {<<"findProject", "updateMilestones">>, <<"updateMilestones", "end">>}
    \/ t \in {"proj_done", "proj_fail"} /\ <<s, n>> = <<"updateStatus", "end">>
    \/ t = "claim" /\ <<s, n>> \in {<<"upsertUser", "updateTrustScore">>, <<"updateTrustScore", "end">>}

LEMMA HandledKinds == DOMAIN Handlers = Kinds
BY DEF Handlers, Kinds

\* A handler begins with all its steps.
LEMMA FirstStage ==
    ASSUME NEW t \in Kinds
    PROVE  Handlers[t] \in Stages(t) /\ Handlers[t] # <<>>
<1>1. CASE t = "proj_new"
  BY <1>1 DEF Handlers, Stages, Decisions, ProjectCreatedHandler
<1>2. CASE t = "contrib"
  BY <1>2 DEF Handlers, Stages, Decisions, ContributionMadeHandler
<1>3. CASE t \in Decisions
  BY <1>3 DEF Handlers, Stages, Decisions, MilestoneApprovedHandler, MilestoneRejectedHandler
<1>4. CASE t = "release"
  BY <1>4 DEF Handlers, Stages, Decisions, FundsReleasedHandler
<1>5. CASE t \in {"proj_done", "proj_fail"}
  BY <1>5 DEF Handlers, Stages, Decisions, ProjectCompletedHandler, ProjectFailedHandler
<1>6. CASE t = "claim"
  BY <1>6 DEF Handlers, Stages, Decisions, DividendClaimedHandler
<1> QED BY <1>1, <1>2, <1>3, <1>4, <1>5, <1>6 DEF Kinds, Decisions

\* A step leaves the steps after it, in the handler's order.
LEMMA NextStage ==
    ASSUME NEW t \in Kinds, NEW todo \in Stages(t), todo # <<>>
    PROVE  /\ Tail(todo) \in Stages(t) /\ <<>> \in Stages(t)
           /\ After(t, Step(todo), Step(Tail(todo)))
<1>1. CASE t = "proj_new"
  <2> DEFINE s2 == <<"upsertUser", "upsertProject">>
             s1 == <<"upsertProject">>
  <2>1. Stages(t) = {s2, s1, <<>>}
    BY <1>1 DEF Stages, Decisions
  <2>2. Tail(s2) = s1 /\ Tail(s1) = <<>>
    OBVIOUS
  <2>3. Step(<<>>) = "end" /\ Step(s2) = "upsertUser" /\ Step(s1) = "upsertProject"
    BY DEF Step
  <2> HIDE DEF s2, s1
  <2> QED BY <1>1, <2>1, <2>2, <2>3 DEF After, Decisions
<1>2. CASE t = "contrib"
  <2> DEFINE s1 == <<"adjustReputation">>
             s2 == <<"updateFunds", "adjustReputation">>
             s3 == <<"upsertContribution", "updateFunds", "adjustReputation">>
             s4 == <<"findProject", "upsertContribution", "updateFunds", "adjustReputation">>
             s5 == <<"upsertUser", "findProject", "upsertContribution", "updateFunds", "adjustReputation">>
  <2>1. Stages("contrib") = {s5, s4, s3, s2, s1, <<>>}
    BY DEF Stages, Decisions
  <2>2. Tail(s1) = <<>> /\ Tail(s2) = s1 /\ Tail(s3) = s2
    OBVIOUS
  <2>3. Tail(s4) = s3 /\ Tail(s5) = s4
    OBVIOUS
  <2>4. /\ Step(<<>>) = "end" /\ Step(s1) = "adjustReputation" /\ Step(s2) = "updateFunds"
        /\ Step(s3) = "upsertContribution" /\ Step(s4) = "findProject" /\ Step(s5) = "upsertUser"
    BY DEF Step
  <2> HIDE DEF s1, s2, s3, s4, s5
  <2>5. todo \in {s5, s4, s3, s2, s1} /\ <<>> \in Stages(t)
    BY <1>2, <2>1
  <2>6. Tail(todo) \in Stages(t)
    BY <1>2, <2>1, <2>2, <2>3, <2>5
  <2>7. <<Step(todo), Step(Tail(todo))>> \in
           {<<"upsertUser", "findProject">>, <<"findProject", "upsertContribution">>,
            <<"upsertContribution", "updateFunds">>, <<"updateFunds", "adjustReputation">>,
            <<"adjustReputation", "end">>}
    BY <2>2, <2>3, <2>4, <2>5
  <2> QED BY <1>2, <2>5, <2>6, <2>7 DEF After
<1>3. CASE t \in Decisions
  <2> DEFINE s1 == <<"adjustReputation">>
             s2 == <<"updateTrustScore", "adjustReputation">>
             s3 == <<"updateMilestones", "updateTrustScore", "adjustReputation">>
             s4 == <<"findProject", "updateMilestones", "updateTrustScore", "adjustReputation">>
  <2>1. Stages(t) = {s4, s3, s2, s1, <<>>}
    BY <1>3 DEF Stages, Decisions
  <2>2. Tail(s1) = <<>> /\ Tail(s2) = s1 /\ Tail(s3) = s2 /\ Tail(s4) = s3
    OBVIOUS
  <2>3. /\ Step(<<>>) = "end" /\ Step(s1) = "adjustReputation" /\ Step(s2) = "updateTrustScore"
        /\ Step(s3) = "updateMilestones" /\ Step(s4) = "findProject"
    BY DEF Step
  <2> HIDE DEF s1, s2, s3, s4
  <2>4. todo \in {s4, s3, s2, s1} /\ <<>> \in Stages(t)
    BY <2>1
  <2>5. Tail(todo) \in Stages(t)
    BY <2>1, <2>2, <2>4
  <2>6. <<Step(todo), Step(Tail(todo))>> \in
           {<<"findProject", "updateMilestones">>, <<"updateMilestones", "updateTrustScore">>,
            <<"updateTrustScore", "adjustReputation">>, <<"adjustReputation", "end">>}
    BY <2>2, <2>3, <2>4
  <2> QED BY <1>3, <2>4, <2>5, <2>6 DEF After
<1>4. CASE t = "release"
  <2> DEFINE s2 == <<"findProject", "updateMilestones">>
             s1 == <<"updateMilestones">>
  <2>1. Stages(t) = {s2, s1, <<>>}
    BY <1>4 DEF Stages, Decisions
  <2>2. Tail(s2) = s1 /\ Tail(s1) = <<>>
    OBVIOUS
  <2>3. Step(<<>>) = "end" /\ Step(s2) = "findProject" /\ Step(s1) = "updateMilestones"
    BY DEF Step
  <2> HIDE DEF s2, s1
  <2> QED BY <1>4, <2>1, <2>2, <2>3 DEF After, Decisions
<1>5. CASE t \in {"proj_done", "proj_fail"}
  <2> DEFINE s1 == <<"updateStatus">>
  <2>1. Stages(t) = {s1, <<>>}
    BY <1>5 DEF Stages, Decisions
  <2>2. Tail(s1) = <<>>
    OBVIOUS
  <2>3. Step(<<>>) = "end" /\ Step(s1) = "updateStatus"
    BY DEF Step
  <2> HIDE DEF s1
  <2> QED BY <1>5, <2>1, <2>2, <2>3 DEF After, Decisions
<1>6. CASE t = "claim"
  <2> DEFINE s2 == <<"upsertUser", "updateTrustScore">>
             s1 == <<"updateTrustScore">>
  <2>1. Stages(t) = {s2, s1, <<>>}
    BY <1>6 DEF Stages, Decisions
  <2>2. Tail(s2) = s1 /\ Tail(s1) = <<>>
    OBVIOUS
  <2>3. Step(<<>>) = "end" /\ Step(s2) = "upsertUser" /\ Step(s1) = "updateTrustScore"
    BY DEF Step
  <2> HIDE DEF s2, s1
  <2> QED BY <1>6, <2>1, <2>2, <2>3 DEF After, Decisions
<1> QED BY <1>1, <1>2, <1>3, <1>4, <1>5, <1>6 DEF Kinds, Decisions

-----------------------------------------------------------------------------
\* The chain

LEMMA ChainTypes ==
    ASSUME chain \in Chains, NEW e \in Events
    PROVE  /\ e \in Event /\ e \in Nat /\ e # 0
           /\ chain[e].type \in ContractEventType /\ chain[e].value.shape \in Shapes
           /\ \A k \in DOMAIN AsObject(chain[e].value) : AsObject(chain[e].value)[k] \in NativeValue
           /\ "projectId" \in DOMAIN Data(e) => Id(e) \in ProjectIds
BY ChainsAssumption, Zenon DEF ChainsAssumption, Events, Data, Id

\* The whole chain is there from the beginning.
LEMMA ChainStays ==
    ASSUME [Next]_vars
    PROVE  UNCHANGED chain
<1>1. ASSUME NEW e \in Events, HandlerStep(e) PROVE UNCHANGED chain
  BY <1>1 DEF HandlerStep, Begin, End, Throw, PassOver, UpsertUser, UpsertProject, FindProject,
              UpsertContribution, UpdateFunds, UpdateMilestones, UpdateTrustScore,
              AdjustReputation, UpdateStatus
<1> QED BY <1>1 DEF Next, vars, handlerVars, StartCron, FinishCron, CrashCron, NextDay, CheckAlerts, NotifyFails,
                    NotifyInvestor, DeleteUserAndAlerts, DeleteUser

\* What the chain says stays, too.
LEMMA SameData ==
    ASSUME UNCHANGED chain
    PROVE  /\ Events' = Events
           /\ \A e : Data(e)' = Data(e) /\ Id(e)' = Id(e) /\ Wallet(e)' = Wallet(e)
           /\ \A e : Handled(e)' = Handled(e)
BY DEF Events, Data, Id, Wallet, Handled

\* Whatever an event carries, the decoded data has the fields and types that the
\* interface of its type declares, or the event is quarantined.
THEOREM Decoded == Spec => []DecodedAsDeclared
<1>1. Init => chain \in Chains
  BY DEF Init, HandlersInit
<1>2. chain \in Chains /\ [Next]_vars => (chain \in Chains)'
  BY ChainStays
<1>3. ASSUME chain \in Chains PROVE DecodedAsDeclared
  <2> SUFFICES ASSUME NEW e \in Events
               PROVE  \/ chain[e].value.shape = "invalid" /\ IsQuarantined(Data(e))
                      \/ Matches(Data(e), Declared(chain[e].type))
    BY Zenon DEF DecodedAsDeclared, Matches
  <2>1. CASE chain[e].value.shape = "invalid"
    BY <2>1 DEF Data, Decode, Quarantined, IsQuarantined
  <2>2. CASE chain[e].value.shape # "invalid"
    <3>1. Data(e) = Decoders(chain[e].type, AsObject(chain[e].value))
      BY <2>2 DEF Data, Decode
    <3> QED BY <1>3, <3>1, ChainTypes, DecodersMatch
  <2> QED BY <2>1, <2>2
<1> QED BY <1>1, <1>2, <1>3, PTL DEF Spec

\* What the handlers take from the data of an event.
LEMMA HandledData ==
    ASSUME chain \in Chains, NEW e \in Events, Handled(e)
    PROVE  /\ chain[e].type \in Kinds
           /\ chain[e].type # "claim" => Id(e) \in ProjectIds
           /\ chain[e].type \in {"proj_new", "contrib", "claim"} => Wallet(e) \in StringValue
           /\ chain[e].type = "proj_new" => Data(e).fundingGoal.v \in Nat /\ Data(e).deadline.v \in Nat
           /\ chain[e].type = "contrib" => Data(e).totalRaised.v \in Nat
<1> DEFINE t == chain[e].type
           o == AsObject(chain[e].value)
<1>1. t \in Kinds
  BY HandledKinds DEF Handled
<1>2. chain[e].value.shape # "invalid"
  BY DEF Handled, IsQuarantined, Data, Decode, Quarantined
<1>3. Data(e) = Decoders(t, o)
  BY <1>2 DEF Data, Decode
<1>4. \A k \in DOMAIN o : o[k] \in NativeValue
  BY ChainTypes
<1>5. \A x \in StringValue \cup NumberValue : x.v \in Nat
  BY DEF StringValue, NumberValue
<1> HIDE DEF t, o
<1>6. CASE t = "proj_new"
  <2>1. Data(e) = DecodeProjectCreated(o)
    BY <1>3, <1>6, Zenon DEF Decoders
  <2>2. /\ Data(e).creator \in StringValue /\ Data(e).fundingGoal \in StringValue
        /\ Data(e).deadline \in NumberValue /\ "projectId" \in DOMAIN Data(e)
    BY <1>4, <2>1, ValueTypes DEF DecodeProjectCreated
  <2>3. Wallet(e) = Data(e).creator
    BY <1>6 DEF Wallet, t
  <2> QED BY <1>1, <1>5, <1>6, <2>2, <2>3, ChainTypes DEF t
<1>7. CASE t = "contrib"
  <2>1. Data(e) = DecodeContributionMade(o)
    BY <1>3, <1>7, Zenon DEF Decoders
  <2>2. /\ Data(e).contributor \in StringValue /\ Data(e).totalRaised \in StringValue
        /\ "projectId" \in DOMAIN Data(e)
    BY <1>4, <2>1, ValueTypes DEF DecodeContributionMade
  <2>3. Wallet(e) = Data(e).contributor
    BY <1>7 DEF Wallet, t
  <2> QED BY <1>1, <1>5, <1>7, <2>2, <2>3, ChainTypes DEF t
<1>8. CASE t = "claim"
  <2>1. Data(e) = DecodeDividendClaimed(o)
    BY <1>3, <1>8, Zenon DEF Decoders
  <2>2. Data(e).claimer \in StringValue
    BY <1>4, <2>1, ValueTypes DEF DecodeDividendClaimed
  <2>3. Wallet(e) = Data(e).claimer
    BY <1>8 DEF Wallet, t
  <2> QED BY <1>1, <1>8, <2>2, <2>3 DEF t
<1>9. CASE t \in {"m_apprv", "m_reject", "release", "proj_done", "proj_fail"}
  <2>1. Data(e) \in {DecodeMilestoneApproved(o), DecodeMilestoneRejected(o), DecodeFundsReleased(o),
                     DecodeProjectStatus(o)}
    <3>1. t = "m_apprv" => Data(e) = DecodeMilestoneApproved(o)
      BY <1>3, Zenon DEF Decoders
    <3>2. t = "m_reject" => Data(e) = DecodeMilestoneRejected(o)
      BY <1>3, Zenon DEF Decoders
    <3>3. t = "release" => Data(e) = DecodeFundsReleased(o)
      BY <1>3, Zenon DEF Decoders
    <3>4. t \in {"proj_done", "proj_fail"} => Data(e) = DecodeProjectStatus(o)
      BY <1>3, Zenon DEF Decoders
    <3> QED BY <1>9, <3>1, <3>2, <3>3, <3>4
  <2>2. "projectId" \in DOMAIN Data(e)
    BY <2>1 DEF DecodeMilestoneApproved, DecodeMilestoneRejected, DecodeFundsReleased, DecodeProjectStatus
  <2> QED BY <1>1, <1>9, <2>2, ChainTypes DEF t
<1> QED BY <1>1, <1>6, <1>7, <1>8, <1>9 DEF Kinds

-----------------------------------------------------------------------------
\* The tables and the running handler

ProjectRow == [status: Statuses, goal: Nat, funds: Nat, deadline: Nat, creator: StringValue]
MilestoneRow == [status: {"PENDING", "APPROVED", "REJECTED", "FUNDED"}, completion: Event \cup {0}]

\* Types, and that the users with a score are those with a row.
Tables ==
    /\ chain \in Chains
    /\ runs \in [Event -> 0..MaxRuns] /\ done \subseteq Events /\ passed \subseteq Events
    /\ project \in [ProjectIds -> ProjectRow]
    /\ milestone \in [ProjectIds -> MilestoneRow]
    /\ live \cap gone = {} /\ DOMAIN trust = live \cup gone
    /\ rewards \in [Event -> Nat] /\ faults \in 0..MaxFaults

\* A handler runs for an event that is not recorded and has steps left to do.
RunInv ==
    run # NoRun =>
        /\ run.event \in Events /\ run.event \notin done
        /\ Handled(run.event) /\ runs[run.event] > 0
        /\ run = [event |-> run.event, todo |-> run.todo]
        /\ run.todo \in Stages(chain[run.event].type)

\* Events run in order: what was before an event that ran is recorded or passed over.
Delivered ==
    /\ \A e \in Events :
          runs[e] > 0 => Handled(e) /\ \A d \in Event : d < e => d \in done \cup passed
    /\ \A e \in done : runs[e] > 0

HandlersInv == Tables /\ RunInv /\ Delivered

\* The steps of the alert task and of requests, as the handlers see them.
Aside ==
    /\ UNCHANGED <<chain, delivery, run, project, contribution, milestone, trust, rewards>>
    /\ (live \cap gone)' = {} /\ (live \cup gone)' = live \cup gone
    /\ faults' \in 0..MaxFaults

LEMMA Asides ==
    ASSUME Tables, [Next]_vars
    PROVE  (\E e \in Events : HandlerStep(e)) \/ Aside
<1>1. CASE UNCHANGED handlerVars
  BY <1>1 DEF Tables, Aside, handlerVars, tables
<1>2. ASSUME NEW u, NotifyFails(u) PROVE Aside
  <2>1. faults' \in 0..MaxFaults
    BY <1>2, HandlersAssumption DEF NotifyFails, Fault, Tables, HandlersAssumption
  <2> QED BY <1>2, <2>1 DEF NotifyFails, Tables, Aside, tables
<1>4. CASE CrashCron
  <2>1. faults' \in 0..MaxFaults
    BY <1>4, HandlersAssumption DEF CrashCron, Fault, Tables, HandlersAssumption
  <2> QED BY <1>4, <2>1 DEF CrashCron, Tables, Aside, tables
<1>3. ASSUME NEW w \in live, DeleteUserAndAlerts(w) PROVE Aside
  BY <1>3 DEF DeleteUserAndAlerts, DeleteUser, Tables, Aside
<1> QED BY <1>1, <1>2, <1>3, <1>4 DEF Next, vars, StartCron, FinishCron, NextDay, CheckAlerts, NotifyInvestor

\* A step of the handler for e.
LEMMA DoingFacts ==
    ASSUME HandlersInv, NEW e \in Events, NEW s, Doing(e, s)
    PROVE  /\ run # NoRun /\ run.event = e /\ run.todo # <<>> /\ ~MustThrow(e)
           /\ e \notin done /\ Handled(e) /\ runs[e] > 0
           /\ chain[e].type \in Kinds /\ Step(run.todo) = s
           /\ Tail(run.todo) \in Stages(chain[e].type) /\ <<>> \in Stages(chain[e].type)
           /\ After(chain[e].type, s, Step(Tail(run.todo)))
<1>1. run.event = e /\ run.todo # <<>> /\ Head(run.todo) = s /\ ~MustThrow(e)
  BY DEF Doing
<1>2. run # NoRun
  BY <1>1 DEF NoRun
<1>3. /\ e \notin done /\ Handled(e) /\ runs[e] > 0 /\ run.todo \in Stages(chain[e].type)
  BY <1>1, <1>2 DEF HandlersInv, RunInv
<1>4. chain[e].type \in Kinds
  BY <1>3, HandledData DEF HandlersInv, Tables
<1>5. Step(run.todo) = s
  BY <1>1 DEF Step
<1> QED BY <1>1, <1>2, <1>3, <1>4, <1>5, NextStage

\* An update of the steps to do.
LEMMA TodoExcept ==
    ASSUME NEW r, NEW e, NEW td, r = [event |-> e, todo |-> td], NEW nx
    PROVE  [r EXCEPT !.todo = nx] = [event |-> e, todo |-> nx]
OBVIOUS

\* ... goes on to the next.
LEMMA Proceeds ==
    ASSUME HandlersInv, NEW e \in Events, NEW s, Doing(e, s), Proceed
    PROVE  run' = [event |-> e, todo |-> Tail(run.todo)]
<1>1. run = [event |-> e, todo |-> run.todo]
  BY DoingFacts DEF HandlersInv, RunInv
<1>2. PICK td : td = run.todo
  OBVIOUS
<1>3. PICK r : r = run
  OBVIOUS
<1>4. r = [event |-> e, todo |-> td]
  BY <1>1, <1>2, <1>3
<1>5. PICK nx : nx = Tail(td)
  OBVIOUS
<1>6. [r EXCEPT !.todo = nx] = [event |-> e, todo |-> nx]
  BY <1>4, TodoExcept
<1>7. run' = [r EXCEPT !.todo = nx]
  BY <1>2, <1>3, <1>5, Zenon DEF Proceed
<1> QED BY <1>2, <1>5, <1>6, <1>7, Zenon

\* The running handler, when a step leaves the delivery alone.
LEMMA RunKept ==
    ASSUME HandlersInv, UNCHANGED <<chain, delivery>>,
           NEW e \in Events, NEW s, Doing(e, s),
           NEW td \in Stages(chain[e].type), run' = [event |-> e, todo |-> td]
    PROVE  RunInv' /\ Delivered'
<1>1. /\ e \notin done /\ Handled(e) /\ runs[e] > 0
  BY DoingFacts
<1>2. run'.event = e /\ run'.todo = td
  OBVIOUS
<1>3. Events' = Events /\ (\A d : Handled(d)' = Handled(d))
  BY SameData
<1>4. runs' = runs /\ done' = done /\ passed' = passed /\ chain' = chain
  BY DEF delivery
<1>5. RunInv'
  <2>1. run'.event \in Events' /\ run'.event \notin done'
    BY <1>1, <1>2, <1>3, <1>4
  <2>2. (Handled(run.event) /\ runs[run.event] > 0)'
    BY <1>1, <1>2, <1>4 DEF Handled, Data
  <2>3. run'.todo \in Stages(chain'[run'.event].type)
    BY <1>2, <1>4
  <2>4. run' = [event |-> run'.event, todo |-> run'.todo]
    BY <1>2
  <2> QED BY <2>1, <2>2, <2>3, <2>4 DEF RunInv
<1>6. Delivered'
  BY <1>3, <1>4 DEF HandlersInv, Delivered
<1> QED BY <1>5, <1>6

LEMMA BeginKept ==
    ASSUME HandlersInv, NEW e \in Events, Begin(e)
    PROVE  HandlersInv'
<1> USE DEF HandlersInv
<1>1. /\ Handled(e) /\ runs[e] < MaxRuns /\ Ready(e)
      /\ runs' = [runs EXCEPT ![e] = @ + 1] /\ done' = done /\ passed' = passed
      /\ run' = [event |-> e, todo |-> Handlers[chain[e].type]]
      /\ UNCHANGED <<chain, tables, rewards, faults>>
  BY DEF Begin, Run
<1>2. e \in Event /\ e \notin done /\ chain[e].type \in Kinds
  BY <1>1, ChainTypes, HandledData DEF Tables, Ready
<1>3. Events' = Events /\ (\A d : Handled(d)' = Handled(d))
  BY <1>1, SameData
<1>4. /\ runs' \in [Event -> 0..MaxRuns] /\ runs'[e] > 0
      /\ \A d \in Event : d # e => runs'[d] = runs[d]
  BY <1>1, <1>2, HandlersAssumption DEF Tables, HandlersAssumption
<1>5. Tables'
  BY <1>1, <1>3, <1>4 DEF Tables, tables
<1>6. PICK td : td = Handlers[chain[e].type]
  OBVIOUS
<1>7. td \in Stages(chain[e].type) /\ run' = [event |-> e, todo |-> td]
  BY <1>1, <1>2, <1>6, FirstStage
<1>8. run'.event = e /\ run'.todo = td
  BY <1>7
<1>9. RunInv'
  <2>1. (Handled(run.event) /\ runs[run.event] > 0)'
    BY <1>1, <1>4, <1>8 DEF Handled, Data
  <2>2. run'.event \in Events' /\ run'.event \notin done' /\ run'.todo \in Stages(chain'[run'.event].type)
    BY <1>1, <1>2, <1>3, <1>7, <1>8
  <2>3. run' = [event |-> run'.event, todo |-> run'.todo]
    BY <1>7, <1>8
  <2> QED BY <2>1, <2>2, <2>3 DEF RunInv
<1>10. Delivered'
  <2>1. ASSUME NEW f \in Events', runs'[f] > 0
        PROVE  Handled(f)' /\ \A d \in Event : d < f => d \in (done \cup passed)'
    <3>1. f \in Event
      BY <1>3, ChainTypes DEF Tables
    <3>2. CASE f = e
      BY <1>1, <1>3, <3>2 DEF Ready
    <3>3. CASE f # e
      BY <1>1, <1>3, <1>4, <2>1, <3>1, <3>3 DEF Delivered
    <3> QED BY <3>2, <3>3
  <2>2. \A f \in done' : runs'[f] > 0
    <3>1. \A f \in done : f \in Event /\ f # e
      BY <1>2, ChainTypes DEF Tables
    <3> QED BY <1>1, <1>4, <3>1 DEF Delivered
  <2> QED BY <2>1, <2>2 DEF Delivered
<1> QED BY <1>5, <1>9, <1>10

LEMMA EndKept ==
    ASSUME HandlersInv, NEW e \in Events, End(e)
    PROVE  HandlersInv'
<1> USE DEF HandlersInv
<1>1. /\ runs[e] > 0 /\ run' = NoRun /\ done' = done \cup {e}
      /\ UNCHANGED <<chain, runs, passed, tables, rewards, faults>>
  BY DEF End, Finish
<1>2. Events' = Events /\ (\A d : Handled(d)' = Handled(d))
  BY <1>1, SameData
<1>3. Tables'
  BY <1>1, <1>2 DEF Tables, tables
<1>4. Delivered'
  BY <1>1, <1>2 DEF Delivered
<1> QED BY <1>1, <1>3, <1>4 DEF RunInv, NoRun

LEMMA ThrowKept ==
    ASSUME HandlersInv, NEW e \in Events, Throw(e)
    PROVE  HandlersInv'
<1> USE DEF HandlersInv
<1>1. run' = NoRun /\ UNCHANGED <<chain, delivery, tables, rewards>>
  BY DEF Throw
<1>2. faults' \in 0..MaxFaults
  BY HandlersAssumption DEF Throw, Fault, Tables, HandlersAssumption
<1>3. Events' = Events /\ (\A d : Handled(d)' = Handled(d))
  BY <1>1, SameData
<1>4. Tables'
  BY <1>1, <1>2, <1>3 DEF Tables, tables, delivery
<1>5. Delivered'
  BY <1>1, <1>3 DEF Delivered, delivery
<1> QED BY <1>1, <1>4, <1>5 DEF RunInv, NoRun

LEMMA PassOverKept ==
    ASSUME HandlersInv, NEW e \in Events, PassOver(e)
    PROVE  HandlersInv'
<1> USE DEF HandlersInv
<1>1. /\ run' = NoRun /\ passed' = passed \cup {e}
      /\ UNCHANGED <<chain, runs, done, tables, rewards>>
  BY DEF PassOver, Pass
<1>2. faults' \in 0..MaxFaults
  BY HandlersAssumption DEF PassOver, Fault, Tables, HandlersAssumption
<1>3. Events' = Events /\ (\A d : Handled(d)' = Handled(d))
  BY <1>1, SameData
<1>4. Tables'
  BY <1>1, <1>2, <1>3 DEF Tables, tables
<1>5. Delivered'
  BY <1>1, <1>3 DEF Delivered
<1> QED BY <1>1, <1>4, <1>5 DEF RunInv, NoRun

LEMMA AsideKept ==
    ASSUME HandlersInv, Aside
    PROVE  HandlersInv'
<1> USE DEF HandlersInv
<1>1. Events' = Events /\ (\A d : Handled(d)' = Handled(d))
  BY SameData DEF Aside
<1>2. Tables'
  BY <1>1 DEF Tables, Aside, delivery
<1>3. Delivered'
  BY <1>1 DEF Delivered, Aside, delivery
<1>4. RunInv'
  <2>1. (Handled(run.event))' = Handled(run.event)
    BY DEF Aside, Handled, Data
  <2> QED BY <1>1, <2>1 DEF RunInv, Aside, delivery, NoRun
<1> QED BY <1>2, <1>3, <1>4

-----------------------------------------------------------------------------
\* What the steps of the handlers write

\* A step goes on to the next one of its handler.
Proceeded(e) == run' = [event |-> e, todo |-> Tail(run.todo)] /\ UNCHANGED <<chain, delivery>>

LEMMA UpsertUserWrites ==
    ASSUME HandlersInv, NEW e \in Events, UpsertUser(e)
    PROVE  /\ Doing(e, "upsertUser") /\ Proceeded(e)
           /\ chain[e].type \in {"proj_new", "contrib", "claim"}
           /\ live' = live \cup {Wallet(e)} /\ gone' = gone \ {Wallet(e)}
           /\ DOMAIN trust' = DOMAIN trust \cup {Wallet(e)}
           /\ \A w \in DOMAIN trust : trust'[w] = trust[w]
           /\ UNCHANGED <<project, contribution, milestone, rewards, faults>>
<1>1. Doing(e, "upsertUser") /\ Proceed
  BY DEF UpsertUser
<1>2. PICK w : w = Wallet(e)
  OBVIOUS
<1>3. trust' = [x \in DOMAIN trust \cup {w} |-> IF x \in DOMAIN trust THEN trust[x] ELSE 500]
  BY <1>2 DEF UpsertUser
<1>5. DOMAIN trust' = DOMAIN trust \cup {w} /\ \A x \in DOMAIN trust : trust'[x] = trust[x]
  BY <1>3
<1>6. chain[e].type \in {"proj_new", "contrib", "claim"}
  BY <1>1, DoingFacts DEF After
<1> QED BY <1>1, <1>2, <1>5, <1>6, Proceeds DEF UpsertUser, Proceeded

\* The row of one project is written.
ProjectWritten(p) ==
    /\ project' \in [ProjectIds -> ProjectRow]
    /\ \A q \in ProjectIds : q # p => project'[q] = project[q]

LEMMA UpsertProjectWrites ==
    ASSUME HandlersInv, NEW e \in Events, UpsertProject(e)
    PROVE  /\ Doing(e, "upsertProject") /\ Proceeded(e)
           /\ chain[e].type = "proj_new" /\ Id(e) \in ProjectIds
           /\ ProjectWritten(Id(e))
           /\ project'[Id(e)].status = "ACTIVE"
           /\ project'[Id(e)].funds = project[Id(e)].funds
           /\ project'[Id(e)].creator = IF Present(Id(e)) THEN project[Id(e)].creator ELSE Wallet(e)
           /\ UNCHANGED <<live, gone, contribution, milestone, trust, rewards, faults>>
<1>1. Doing(e, "upsertProject") /\ Proceed
  BY DEF UpsertProject
<1>2. chain[e].type = "proj_new" /\ Handled(e)
  BY <1>1, DoingFacts DEF After
<1>3. PICK p, g, d, w : p = Id(e) /\ g = Data(e).fundingGoal.v /\ d = Data(e).deadline.v /\ w = Wallet(e)
  OBVIOUS
<1>4. p \in ProjectIds /\ g \in Nat /\ d \in Nat /\ w \in StringValue
  BY <1>2, <1>3, HandledData DEF HandlersInv, Tables
<1>5. NoProject \in ProjectRow /\ NoProject.funds = 0
  BY DEF NoProject, ProjectRow, Statuses, StringValue, Empty, String, Forms
<1>6. [NoProject EXCEPT !.creator = w] \in ProjectRow
      /\ [NoProject EXCEPT !.creator = w].funds = 0 /\ [NoProject EXCEPT !.creator = w].creator = w
  BY <1>4, <1>5 DEF ProjectRow
<1>7. PICK row : row = IF Present(p) THEN project[p] ELSE [NoProject EXCEPT !.creator = w]
  OBVIOUS
<1>8. /\ row \in ProjectRow /\ row.funds = project[p].funds
      /\ row.creator = IF Present(p) THEN project[p].creator ELSE w
  <2>1. CASE Present(p)
    BY <1>4, <1>7, <2>1 DEF HandlersInv, Tables
  <2>2. CASE ~Present(p)
    BY <1>5, <1>6, <1>7, <2>2 DEF Present
  <2> QED BY <2>1, <2>2
<1>9. PICK new : new = [row EXCEPT !.status = "ACTIVE", !.goal = g, !.deadline = d]
  OBVIOUS
<1>10. new \in ProjectRow /\ new.status = "ACTIVE" /\ new.funds = row.funds /\ new.creator = row.creator
  BY <1>4, <1>8, <1>9 DEF ProjectRow, Statuses
<1>11. project' = [project EXCEPT ![p] = new]
  BY <1>3, <1>7, <1>9, Zenon DEF UpsertProject
<1>12. ProjectWritten(p) /\ project'[p] = new
  BY <1>4, <1>10, <1>11 DEF HandlersInv, Tables, ProjectWritten
<1> QED BY <1>1, <1>2, <1>3, <1>4, <1>8, <1>10, <1>12, Proceeds DEF UpsertProject, Proceeded

LEMMA FindProjectWrites ==
    ASSUME HandlersInv, NEW e \in Events, FindProject(e)
    PROVE  /\ Doing(e, "findProject") /\ chain[e].type \in {"contrib", "release"} \cup Decisions
           /\ Id(e) \in ProjectIds
           /\ \/ Present(Id(e)) /\ Proceeded(e)
              \/ ~Present(Id(e)) /\ run' = [event |-> e, todo |-> <<>>]
           /\ UNCHANGED <<chain, delivery, tables, rewards, faults>>
<1>1. Doing(e, "findProject")
  BY DEF FindProject
<1>2. chain[e].type \in {"contrib", "release"} \cup Decisions /\ Handled(e)
  BY <1>1, DoingFacts DEF After
<1>3. Id(e) \in ProjectIds
  BY <1>2, HandledData DEF HandlersInv, Tables, Decisions
<1>4. CASE Present(Id(e))
  BY <1>1, <1>2, <1>3, <1>4, Proceeds DEF FindProject, Proceeded
<1>5. CASE ~Present(Id(e))
  <2>1. PICK r : r = run
    OBVIOUS
  <2>2. r = [event |-> e, todo |-> r.todo]
    BY <1>1, <2>1, DoingFacts DEF HandlersInv, RunInv
  <2>3. run' = [r EXCEPT !.todo = <<>>]
    BY <1>5, <2>1 DEF FindProject
  <2>4. run' = [event |-> e, todo |-> <<>>]
    BY <2>2, <2>3, TodoExcept
  <2> QED BY <1>1, <1>2, <1>3, <1>5, <2>4 DEF FindProject
<1> QED BY <1>4, <1>5

Row(e) == [tx |-> chain[e].tx, project |-> Id(e), investor |-> Wallet(e), amount |-> Data(e).amount.v]

LEMMA UpsertContributionWrites ==
    ASSUME HandlersInv, NEW e \in Events, UpsertContribution(e)
    PROVE  /\ Doing(e, "upsertContribution") /\ Proceeded(e) /\ chain[e].type = "contrib"
           /\ contribution' = IF \E c \in contribution : c.tx = chain[e].tx THEN contribution
                              ELSE contribution \cup {Row(e)}
           /\ UNCHANGED <<live, gone, project, milestone, trust, rewards, faults>>
<1>1. Doing(e, "upsertContribution") /\ Proceed
  BY DEF UpsertContribution
<1>2. chain[e].type = "contrib"
  BY <1>1, DoingFacts DEF After
<1>3. contribution' = IF \E c \in contribution : c.tx = chain[e].tx THEN contribution
                      ELSE contribution \cup {Row(e)}
  BY DEF UpsertContribution, Row
<1> QED BY <1>1, <1>2, <1>3, Proceeds DEF UpsertContribution, Proceeded

LEMMA UpdateFundsWrites ==
    ASSUME HandlersInv, NEW e \in Events, UpdateFunds(e)
    PROVE  /\ Doing(e, "updateFunds") /\ Proceeded(e) /\ chain[e].type = "contrib"
           /\ Id(e) \in ProjectIds /\ ProjectWritten(Id(e))
           /\ project'[Id(e)].status = project[Id(e)].status
           /\ project'[Id(e)].creator = project[Id(e)].creator
           /\ project'[Id(e)].funds = Data(e).totalRaised.v
           /\ UNCHANGED <<live, gone, contribution, milestone, trust, rewards, faults>>
<1>1. Doing(e, "updateFunds") /\ Proceed
  BY DEF UpdateFunds
<1>2. chain[e].type = "contrib" /\ Handled(e)
  BY <1>1, DoingFacts DEF After
<1>3. PICK p, x : p = Id(e) /\ x = Data(e).totalRaised.v
  OBVIOUS
<1>4. p \in ProjectIds /\ x \in Nat
  BY <1>2, <1>3, HandledData DEF HandlersInv, Tables
<1>5. PICK row : row = project[p]
  OBVIOUS
<1>6. row \in ProjectRow
  BY <1>4, <1>5 DEF HandlersInv, Tables
<1>7. PICK new : new = [row EXCEPT !.funds = x]
  OBVIOUS
<1>8. new \in ProjectRow /\ new.status = row.status /\ new.creator = row.creator /\ new.funds = x
  BY <1>4, <1>6, <1>7 DEF ProjectRow
<1>9. project' = [project EXCEPT ![p] = new]
  BY <1>3, <1>5, <1>7, Zenon DEF UpdateFunds
<1>10. ProjectWritten(p) /\ project'[p] = new
  BY <1>4, <1>8, <1>9 DEF HandlersInv, Tables, ProjectWritten
<1> QED BY <1>1, <1>2, <1>3, <1>4, <1>5, <1>8, <1>10, Proceeds DEF UpdateFunds, Proceeded

LEMMA UpdateMilestonesWrites ==
    ASSUME HandlersInv, NEW e \in Events, UpdateMilestones(e)
    PROVE  /\ Doing(e, "updateMilestones") /\ Proceeded(e) /\ chain[e].type \in {"release"} \cup Decisions
           /\ Id(e) \in ProjectIds
           /\ milestone' \in [ProjectIds -> MilestoneRow]
           /\ \A q \in ProjectIds : q # Id(e) => milestone'[q] = milestone[q]
           /\ UNCHANGED <<live, gone, project, contribution, trust, rewards, faults>>
<1>1. Doing(e, "updateMilestones") /\ Proceed
  BY DEF UpdateMilestones
<1>2. chain[e].type \in {"release"} \cup Decisions /\ Handled(e)
  BY <1>1, DoingFacts DEF After
<1>3. PICK p, st : p = Id(e) /\ st = MilestoneStatus[chain[e].type]
  OBVIOUS
<1>4. p \in ProjectIds
  BY <1>2, <1>3, HandledData DEF HandlersInv, Tables, Decisions
<1>5. st \in {"APPROVED", "REJECTED", "FUNDED"}
  BY <1>2, <1>3 DEF MilestoneStatus, Decisions
<1>6. PICK row : row = milestone[p]
  OBVIOUS
<1>7. row \in MilestoneRow /\ e \in Event
  BY <1>4, <1>6, ChainTypes DEF HandlersInv, Tables
<1>8. PICK c : c = IF chain[e].type = "release" THEN e ELSE row.completion
  OBVIOUS
<1>9. c \in Event \cup {0}
  BY <1>7, <1>8 DEF MilestoneRow
<1>10. PICK mid : mid = [row EXCEPT !.status = st]
  OBVIOUS
<1>11. mid \in MilestoneRow /\ mid.completion = row.completion
  BY <1>5, <1>7, <1>10 DEF MilestoneRow
<1>12. PICK new : new = [mid EXCEPT !.completion = c]
  OBVIOUS
<1>13. new \in MilestoneRow
  BY <1>9, <1>11, <1>12 DEF MilestoneRow
<1>14. milestone' = [milestone EXCEPT ![p] = new]
  BY <1>3, <1>4, <1>6, <1>8, <1>10, <1>11, <1>12 DEF UpdateMilestones, HandlersInv, Tables
<1>15. /\ milestone' \in [ProjectIds -> MilestoneRow]
       /\ \A q \in ProjectIds : q # p => milestone'[q] = milestone[q]
  BY <1>4, <1>13, <1>14 DEF HandlersInv, Tables
<1> QED BY <1>1, <1>2, <1>3, <1>4, <1>15, Proceeds DEF UpdateMilestones, Proceeded

LEMMA UpdateTrustScoreWrites ==
    ASSUME HandlersInv, NEW e \in Events, UpdateTrustScore(e)
    PROVE  /\ Doing(e, "updateTrustScore") /\ Proceeded(e) /\ chain[e].type \in {"claim"} \cup Decisions
           /\ Subject(e) \in live /\ DOMAIN trust' = DOMAIN trust
           /\ trust'[Subject(e)] = CalculateTrustScore(ProjectsOf(Subject(e)), MilestonesOf(Subject(e)))
           /\ \A w \in DOMAIN trust : w # Subject(e) => trust'[w] = trust[w]
           /\ UNCHANGED <<live, gone, project, contribution, milestone, rewards, faults>>
<1>1. Doing(e, "updateTrustScore") /\ Proceed
  BY DEF UpdateTrustScore
<1>2. chain[e].type \in {"claim"} \cup Decisions
  BY <1>1, DoingFacts DEF After
<1>3. Subject(e) \in live
  BY <1>1 DEF Doing, MustThrow, NoSubject
<1>4. PICK w, n : w = Subject(e) /\ n = CalculateTrustScore(ProjectsOf(w), MilestonesOf(w))
  OBVIOUS
<1>5. trust' = [trust EXCEPT ![w] = n]
  BY <1>4, Zenon DEF UpdateTrustScore
<1>6. w \in DOMAIN trust
  BY <1>3, <1>4 DEF HandlersInv, Tables
<1>7. DOMAIN trust' = DOMAIN trust /\ trust'[w] = n /\ \A x \in DOMAIN trust : x # w => trust'[x] = trust[x]
  BY <1>5, <1>6
<1> QED BY <1>1, <1>2, <1>3, <1>4, <1>7, Proceeds, Zenon DEF UpdateTrustScore, Proceeded

LEMMA AdjustReputationWrites ==
    ASSUME HandlersInv, NEW e \in Events, AdjustReputation(e)
    PROVE  /\ Doing(e, "adjustReputation") /\ Proceeded(e) /\ chain[e].type \in {"contrib"} \cup Decisions
           /\ rewards' \in [Event -> Nat] /\ \A d \in Event : d # e => rewards'[d] = rewards[d]
           /\ faults' \in 0..MaxFaults
           /\ UNCHANGED tables
<1>1. Doing(e, "adjustReputation") /\ Proceed
  BY DEF AdjustReputation
<1>2. chain[e].type \in {"contrib"} \cup Decisions
  BY <1>1, DoingFacts DEF After
<1>3. rewards' = rewards \/ rewards' = [rewards EXCEPT ![e] = @ + 1]
  BY DEF AdjustReputation
<1>4. faults' \in 0..MaxFaults
  BY HandlersAssumption DEF AdjustReputation, Fault, HandlersInv, Tables, HandlersAssumption
<1>5. rewards' \in [Event -> Nat] /\ \A d \in Event : d # e => rewards'[d] = rewards[d]
  BY <1>3, ChainTypes DEF HandlersInv, Tables
<1> QED BY <1>1, <1>2, <1>4, <1>5, Proceeds DEF AdjustReputation, Proceeded

LEMMA UpdateStatusWrites ==
    ASSUME HandlersInv, NEW e \in Events, UpdateStatus(e)
    PROVE  /\ Doing(e, "updateStatus") /\ Proceeded(e) /\ chain[e].type \in {"proj_done", "proj_fail"}
           /\ Id(e) \in ProjectIds /\ ProjectWritten(Id(e))
           /\ project'[Id(e)].creator = project[Id(e)].creator
           /\ project'[Id(e)].funds = project[Id(e)].funds
           /\ Present(Id(e)) => project'[Id(e)].status = ProjectStatus[chain[e].type]
           /\ ~Present(Id(e)) => project' = project
           /\ UNCHANGED <<live, gone, contribution, milestone, trust, rewards, faults>>
<1>1. Doing(e, "updateStatus") /\ Proceed
  BY DEF UpdateStatus
<1>2. chain[e].type \in {"proj_done", "proj_fail"} /\ Handled(e)
  BY <1>1, DoingFacts DEF After
<1>3. PICK p, st : p = Id(e) /\ st = ProjectStatus[chain[e].type]
  OBVIOUS
<1>4. p \in ProjectIds
  BY <1>2, <1>3, HandledData DEF HandlersInv, Tables
<1>5. st \in Statuses
  BY <1>2, <1>3 DEF ProjectStatus, Statuses
<1>6. PICK row : row = project[p]
  OBVIOUS
<1>7. row \in ProjectRow
  BY <1>4, <1>6 DEF HandlersInv, Tables
<1>8. PICK new : new = [row EXCEPT !.status = st]
  OBVIOUS
<1>9. new \in ProjectRow /\ new.status = st /\ new.creator = row.creator /\ new.funds = row.funds
  BY <1>5, <1>7, <1>8 DEF ProjectRow
<1>10. project' = IF Present(p) THEN [project EXCEPT ![p] = new] ELSE project
  BY <1>3, <1>6, <1>8, Zenon DEF UpdateStatus
<1>11. ProjectWritten(p) /\ (Present(p) => project'[p] = new)
  BY <1>4, <1>9, <1>10 DEF HandlersInv, Tables, ProjectWritten
<1> QED BY <1>1, <1>2, <1>3, <1>4, <1>6, <1>9, <1>10, <1>11, Proceeds DEF UpdateStatus, Proceeded

\* A step that proceeds keeps the delivery and the order of the steps.
LEMMA ProceededKept ==
    ASSUME HandlersInv, NEW e \in Events, NEW s, Doing(e, s), Proceeded(e)
    PROVE  RunInv' /\ Delivered'
<1>1. PICK td : td = Tail(run.todo)
  OBVIOUS
<1>2. td \in Stages(chain[e].type) /\ run' = [event |-> e, todo |-> td]
  BY <1>1, DoingFacts DEF Proceeded
<1> QED BY <1>2, RunKept DEF Proceeded

LEMMA HandlerStepKept ==
    ASSUME HandlersInv, NEW e \in Events, HandlerStep(e)
    PROVE  HandlersInv'
<1> USE DEF HandlersInv, Proceeded
<1>0. Events' = Events
  BY ChainStays DEF HandlerStep, Begin, End, Throw, PassOver, UpsertUser, UpsertProject, FindProject,
        UpsertContribution, UpdateFunds, UpdateMilestones, UpdateTrustScore, AdjustReputation,
        UpdateStatus, Events
<1>1. CASE UpsertUser(e)
  <2>1. Tables'
    BY <1>0, <1>1, UpsertUserWrites DEF Tables, delivery
  <2> QED BY <1>1, <2>1, UpsertUserWrites, ProceededKept
<1>2. CASE UpsertProject(e)
  <2>1. Tables'
    BY <1>0, <1>2, UpsertProjectWrites DEF Tables, delivery, ProjectWritten
  <2> QED BY <1>2, <2>1, UpsertProjectWrites, ProceededKept
<1>3. CASE FindProject(e)
  <2>1. Tables'
    BY <1>0, <1>3, FindProjectWrites DEF Tables, delivery, tables
  <2>2. CASE Present(Id(e))
    BY <1>3, <2>1, <2>2, FindProjectWrites, ProceededKept
  <2>3. CASE ~Present(Id(e))
    <3>1. PICK td : td = <<>>
      OBVIOUS
    <3>2. Doing(e, "findProject") /\ run' = [event |-> e, todo |-> td] /\ UNCHANGED <<chain, delivery>>
      BY <1>3, <2>3, <3>1, FindProjectWrites
    <3>3. td \in Stages(chain[e].type)
      BY <3>1, <3>2, DoingFacts
    <3> QED BY <2>1, <3>2, <3>3, RunKept
  <2> QED BY <2>2, <2>3
<1>4. CASE UpsertContribution(e)
  <2>1. Tables'
    BY <1>0, <1>4, UpsertContributionWrites DEF Tables, delivery
  <2> QED BY <1>4, <2>1, UpsertContributionWrites, ProceededKept
<1>5. CASE UpdateFunds(e)
  <2>1. Tables'
    BY <1>0, <1>5, UpdateFundsWrites DEF Tables, delivery, ProjectWritten
  <2> QED BY <1>5, <2>1, UpdateFundsWrites, ProceededKept
<1>6. CASE UpdateMilestones(e)
  <2>1. Tables'
    BY <1>0, <1>6, UpdateMilestonesWrites DEF Tables, delivery
  <2> QED BY <1>6, <2>1, UpdateMilestonesWrites, ProceededKept
<1>7. CASE UpdateTrustScore(e)
  <2>1. Tables'
    BY <1>0, <1>7, UpdateTrustScoreWrites DEF Tables, delivery
  <2> QED BY <1>7, <2>1, UpdateTrustScoreWrites, ProceededKept
<1>8. CASE AdjustReputation(e)
  <2>1. Tables'
    BY <1>0, <1>8, AdjustReputationWrites DEF Tables, delivery, tables
  <2> QED BY <1>8, <2>1, AdjustReputationWrites, ProceededKept
<1>9. CASE UpdateStatus(e)
  <2>1. Tables'
    BY <1>0, <1>9, UpdateStatusWrites DEF Tables, delivery, ProjectWritten
  <2> QED BY <1>9, <2>1, UpdateStatusWrites, ProceededKept
<1> QED BY <1>1, <1>2, <1>3, <1>4, <1>5, <1>6, <1>7, <1>8, <1>9,
           BeginKept, EndKept, ThrowKept, PassOverKept DEF HandlerStep

LEMMA HandlersInitInv == Init => HandlersInv
<1> SUFFICES ASSUME Init PROVE HandlersInv
  OBVIOUS
<1>1. NoProject \in ProjectRow
  BY DEF NoProject, ProjectRow, Statuses, StringValue, Empty, String, Forms
<1>2. [status |-> "PENDING", completion |-> 0] \in MilestoneRow
  BY DEF MilestoneRow
<1>3. Tables
  BY <1>1, <1>2, HandlersAssumption DEF Init, HandlersInit, DeliveryInit, Tables, HandlersAssumption
<1>4. RunInv
  BY DEF Init, HandlersInit, RunInv
<1>5. Delivered
  BY ChainsAssumption DEF Init, HandlersInit, DeliveryInit, Delivered, Events, ChainsAssumption
<1> QED BY <1>3, <1>4, <1>5 DEF HandlersInv

LEMMA HandlersStepInv ==
    ASSUME HandlersInv, [Next]_vars
    PROVE  HandlersInv'
BY Asides, HandlerStepKept, AsideKept DEF HandlersInv

\* The first step of a handler.
LEMMA FirstStep ==
    ASSUME NEW t \in Kinds
    PROVE  \/ Step(Handlers[t]) = "upsertUser" /\ t \in {"proj_new", "contrib", "claim"}
           \/ Step(Handlers[t]) = "findProject" /\ t \in {"release"} \cup Decisions
           \/ Step(Handlers[t]) = "updateStatus" /\ t \in {"proj_done", "proj_fail"}
BY DEF Kinds, Step, Handlers, Decisions, ProjectCreatedHandler, ContributionMadeHandler,
       MilestoneApprovedHandler, MilestoneRejectedHandler, FundsReleasedHandler,
       ProjectCompletedHandler, ProjectFailedHandler, DividendClaimedHandler

\* Where the handler is after a step.
LEMMA AfterStep ==
    ASSUME HandlersInv, NEW e \in Events, NEW s, Doing(e, s), Proceeded(e)
    PROVE  /\ run.event = e /\ Step(run.todo) = s
           /\ run'.event = e /\ After(chain[e].type, s, Step(run'.todo))
<1>1. PICK td : td = Tail(run.todo)
  OBVIOUS
<1>2. run' = [event |-> e, todo |-> td]
  BY <1>1 DEF Proceeded
<1>3. run'.event = e /\ run'.todo = td
  BY <1>2
<1>4. After(chain[e].type, s, Step(td)) /\ run.event = e /\ Step(run.todo) = s
  BY <1>1, DoingFacts
<1> QED BY <1>3, <1>4

-----------------------------------------------------------------------------
\* Projects stay

\* A row without a status is no row; a recorded creation has its row, and so has
\* the project that a handler has found.
PresenceInv ==
    /\ \A p \in ProjectIds : project[p].status = "none" => ~Present(p)
    /\ \A e \in done : chain[e].type = "proj_new" => Present(Id(e))
    /\ \A e \in Events : run.event = e =>
          /\ chain[e].type = "proj_new" /\ Step(run.todo) = "end" => Present(Id(e))
          /\ chain[e].type \in {"contrib", "release"} \cup Decisions
             /\ Step(run.todo) \notin {"upsertUser", "findProject", "end"} => Present(Id(e))

\* The rows of projects are kept by steps that do not change them, and so is what
\* the invariant says, unless another step of the handler comes next.
LEMMA PresenceQuiet ==
    ASSUME HandlersInv, PresenceInv, UNCHANGED <<chain, done, project>>,
           run' = NoRun \/ run' = run
    PROVE  PresenceInv'
<1>1. Events' = Events /\ \A e : Id(e)' = Id(e)
  BY SameData
<1>2. \A e \in Events : e # 0
  BY ChainTypes DEF HandlersInv, Tables
<1>3. \A p : Present(p)' = Present(p)
  BY DEF Present
<1> QED BY <1>1, <1>2, <1>3 DEF PresenceInv, NoRun

\* A step that writes no project.
LEMMA PresenceProceeds ==
    ASSUME HandlersInv, PresenceInv, NEW e \in Events, NEW s, Doing(e, s), Proceeded(e),
           UNCHANGED project, s # "findProject"
    PROVE  s # "upsertProject" => PresenceInv'
<1> SUFFICES ASSUME s # "upsertProject" PROVE PresenceInv'
  OBVIOUS
<1>1. Events' = Events /\ (\A d : Id(d)' = Id(d)) /\ chain' = chain /\ done' = done
  BY SameData DEF Proceeded, delivery
<1>2. \A p : Present(p)' = Present(p)
  BY DEF Present
<1>3. /\ run.event = e /\ Step(run.todo) = s
      /\ run'.event = e /\ After(chain[e].type, s, Step(run'.todo))
  BY AfterStep
<1>4. \A p \in ProjectIds : project'[p].status = "none" => ~Present(p)'
  BY <1>2 DEF PresenceInv
<1>5. \A d \in done' : chain'[d].type = "proj_new" => Present(Id(d))'
  BY <1>1, <1>2 DEF PresenceInv, Present
<1>6. ~(chain[e].type = "proj_new" /\ Step(run'.todo) = "end")
  BY <1>3 DEF After, Decisions
<1>7. chain[e].type \in {"contrib", "release"} \cup Decisions
      /\ Step(run'.todo) \notin {"upsertUser", "findProject", "end"} => Present(Id(e))
  <2>1. chain[e].type \in {"contrib", "release"} \cup Decisions
        /\ Step(run'.todo) \notin {"upsertUser", "findProject", "end"}
        => Step(run.todo) \notin {"upsertUser", "findProject", "end"}
    BY <1>3 DEF After, Decisions
  <2> QED BY <1>3, <2>1 DEF PresenceInv
<1>8. Present(Id(e))' = Present(Id(e))
  BY <1>1 DEF Present
<1> QED BY <1>1, <1>3, <1>4, <1>5, <1>6, <1>7, <1>8 DEF PresenceInv

\* A step that writes the row of the project of its event and leaves it there.
LEMMA PresenceWritten ==
    ASSUME HandlersInv, PresenceInv, NEW e \in Events, NEW s, Doing(e, s), Proceeded(e),
           Id(e) \in ProjectIds, ProjectWritten(Id(e)), project'[Id(e)].status # "none"
    PROVE  PresenceInv'
<1>1. Events' = Events /\ (\A d : Id(d)' = Id(d)) /\ chain' = chain /\ done' = done
  BY SameData DEF Proceeded, delivery
<1>2. /\ run.event = e /\ Step(run.todo) = s
      /\ run'.event = e /\ After(chain[e].type, s, Step(run'.todo))
  BY AfterStep
<1>3. NoProject.status = "none"
  BY DEF NoProject
<1>4. PICK p : p = Id(e)
  OBVIOUS
<1>5. Present(p)'
  BY <1>3, <1>4 DEF Present
<1>6. \A q \in ProjectIds : Present(q) => Present(q)'
  BY <1>4, <1>5 DEF Present, ProjectWritten
<1>7. \A q \in ProjectIds : project'[q].status = "none" => ~Present(q)'
  BY <1>4 DEF Present, ProjectWritten, PresenceInv
<1>8. \A d \in done' : chain'[d].type = "proj_new" => Present(Id(d))'
  <2> SUFFICES ASSUME NEW d \in done', chain'[d].type = "proj_new" PROVE Present(Id(d))'
    OBVIOUS
  <2>1. d \in Events /\ Handled(d)
    BY <1>1 DEF HandlersInv, Tables, Delivered
  <2>2. PICK q : q = Id(d)
    OBVIOUS
  <2>3. q \in ProjectIds
    BY <1>1, <2>1, <2>2, HandledData DEF HandlersInv, Tables
  <2>4. Present(q)
    BY <1>1, <2>2 DEF PresenceInv
  <2>5. Present(q)'
    BY <1>6, <2>3, <2>4
  <2> QED BY <1>1, <2>2, <2>5 DEF Present
<1>9. Present(Id(e))'
  BY <1>1, <1>4, <1>5 DEF Present
<1> QED BY <1>1, <1>2, <1>7, <1>8, <1>9 DEF PresenceInv

LEMMA PresenceBegin ==
    ASSUME HandlersInv, PresenceInv, NEW e \in Events, Begin(e)
    PROVE  PresenceInv'
<1>1. Handled(e) /\ UNCHANGED <<chain, done, project>>
      /\ run' = [event |-> e, todo |-> Handlers[chain[e].type]]
  BY DEF Begin, Run, tables
<1>2. Events' = Events /\ \A d : Id(d)' = Id(d)
  BY <1>1, SameData
<1>3. \A p : Present(p)' = Present(p)
  BY <1>1 DEF Present
<1>4. PICK td : td = Handlers[chain[e].type]
  OBVIOUS
<1>5. run' = [event |-> e, todo |-> td]
  BY <1>1, <1>4
<1>6. run'.event = e /\ run'.todo = td
  BY <1>5
<1>7. chain[e].type \in Kinds
  BY <1>1, HandledData DEF HandlersInv, Tables
<1>8. /\ chain[e].type = "proj_new" => Step(td) # "end"
      /\ chain[e].type \in {"contrib", "release"} \cup Decisions => Step(td) \in {"upsertUser", "findProject"}
  BY <1>4, <1>7, FirstStep DEF Decisions
<1> QED BY <1>1, <1>2, <1>3, <1>6, <1>8 DEF PresenceInv

LEMMA PresenceEnd ==
    ASSUME HandlersInv, PresenceInv, NEW e \in Events, End(e)
    PROVE  PresenceInv'
<1>1. /\ run.event = e /\ run.todo = <<>> /\ run' = NoRun /\ done' = done \cup {e}
      /\ UNCHANGED <<chain, project>>
  BY DEF End, Finish, tables
<1>2. Events' = Events /\ \A d : Id(d)' = Id(d)
  BY <1>1, SameData
<1>3. \A p : Present(p)' = Present(p)
  BY <1>1 DEF Present
<1>4. chain[e].type = "proj_new" => Present(Id(e))
  BY <1>1 DEF PresenceInv, Step
<1>5. \A d \in Events : d # 0
  BY ChainTypes DEF HandlersInv, Tables
<1> QED BY <1>1, <1>2, <1>3, <1>4, <1>5 DEF PresenceInv, NoRun

LEMMA PresenceFind ==
    ASSUME HandlersInv, PresenceInv, NEW e \in Events, FindProject(e)
    PROVE  PresenceInv'
<1>1. /\ Doing(e, "findProject") /\ chain[e].type \in {"contrib", "release"} \cup Decisions
      /\ \/ Present(Id(e)) /\ Proceeded(e)
         \/ ~Present(Id(e)) /\ run' = [event |-> e, todo |-> <<>>]
      /\ UNCHANGED <<chain, done, project>>
  BY FindProjectWrites DEF tables, delivery
<1>2. Events' = Events /\ \A d : Id(d)' = Id(d)
  BY <1>1, SameData
<1>3. \A p : Present(p)' = Present(p)
  BY <1>1 DEF Present
<1>4. chain[e].type # "proj_new"
  BY <1>1 DEF Decisions
<1>5. run'.event = e /\ (Present(Id(e)) \/ Step(run'.todo) = "end")
  <2>1. CASE Present(Id(e))
    BY <1>1, <2>1, AfterStep
  <2>2. CASE ~Present(Id(e))
    BY <1>1, <2>2 DEF Step
  <2> QED BY <2>1, <2>2
<1> QED BY <1>1, <1>2, <1>3, <1>4, <1>5 DEF PresenceInv

LEMMA PresenceStep ==
    ASSUME HandlersInv, PresenceInv, [Next]_vars
    PROVE  PresenceInv'
<1>1. CASE Aside
  BY <1>1, PresenceQuiet DEF Aside, delivery
<1>2. ASSUME NEW e \in Events, HandlerStep(e) PROVE PresenceInv'
  <2>1. CASE Throw(e) \/ PassOver(e)
    BY <2>1, PresenceQuiet DEF Throw, PassOver, Pass, delivery, tables
  <2>2. CASE UpsertUser(e)
    BY <2>2, UpsertUserWrites, PresenceProceeds
  <2>3. CASE UpsertProject(e)
    BY <2>3, UpsertProjectWrites, PresenceWritten
  <2>4. CASE UpsertContribution(e)
    BY <2>4, UpsertContributionWrites, PresenceProceeds
  <2>5. CASE UpdateFunds(e)
    <3>1. Present(Id(e))
      BY <2>5, UpdateFundsWrites, DoingFacts DEF PresenceInv
    <3>2. project'[Id(e)].status # "none"
      BY <2>5, <3>1, UpdateFundsWrites DEF PresenceInv
    <3> QED BY <2>5, <3>2, UpdateFundsWrites, PresenceWritten
  <2>6. CASE UpdateMilestones(e)
    BY <2>6, UpdateMilestonesWrites, PresenceProceeds
  <2>7. CASE UpdateTrustScore(e)
    BY <2>7, UpdateTrustScoreWrites, PresenceProceeds
  <2>8. CASE AdjustReputation(e)
    BY <2>8, AdjustReputationWrites, PresenceProceeds DEF tables
  <2>9. CASE UpdateStatus(e)
    <3>1. CASE Present(Id(e))
      <4>1. project'[Id(e)].status # "none"
        BY <2>9, <3>1, UpdateStatusWrites DEF ProjectStatus
      <4> QED BY <2>9, <4>1, UpdateStatusWrites, PresenceWritten
    <3>2. CASE ~Present(Id(e))
      BY <2>9, <3>2, UpdateStatusWrites, PresenceProceeds
    <3> QED BY <3>1, <3>2
  <2> QED BY <1>2, <2>1, <2>2, <2>3, <2>4, <2>5, <2>6, <2>7, <2>8, <2>9,
             PresenceBegin, PresenceEnd, PresenceFind DEF HandlerStep
<1> QED BY <1>1, <1>2, Asides DEF HandlersInv

\* A project that is there stays.
LEMMA PresentStays ==
    ASSUME HandlersInv, PresenceInv, [Next]_vars, NEW p \in ProjectIds, Present(p)
    PROVE  Present(p)'
<1>1. project[p].status # "none"
  BY DEF PresenceInv
<1>2. NoProject.status = "none"
  BY DEF NoProject
<1>3. CASE Aside
  BY <1>3 DEF Aside, Present
<1>4. ASSUME NEW e \in Events, HandlerStep(e) PROVE Present(p)'
  <2>1. CASE UpsertProject(e)
    BY <1>2, <2>1, UpsertProjectWrites DEF ProjectWritten, Present
  <2>2. CASE UpdateFunds(e)
    BY <1>1, <1>2, <2>2, UpdateFundsWrites DEF ProjectWritten, Present
  <2>3. CASE UpdateStatus(e)
    <3>1. chain[e].type \in {"proj_done", "proj_fail"} /\ ProjectWritten(Id(e))
          /\ (Present(Id(e)) => project'[Id(e)].status = ProjectStatus[chain[e].type])
      BY <2>3, UpdateStatusWrites
    <3>2. ProjectStatus[chain[e].type] # "none"
      BY <3>1 DEF ProjectStatus
    <3> QED BY <1>2, <3>1, <3>2 DEF ProjectWritten, Present
  <2>4. CASE project' = project
    BY <2>4 DEF Present
  <2> QED BY <1>4, <2>1, <2>2, <2>3, <2>4
      DEF HandlerStep, Begin, End, Throw, PassOver, UpsertUser, FindProject, UpsertContribution,
          UpdateMilestones, UpdateTrustScore, AdjustReputation, tables
<1> QED BY <1>3, <1>4, Asides DEF HandlersInv

-----------------------------------------------------------------------------
\* Contributions and rewards

HasRow(e) == \E c \in contribution : c.tx = chain[e].tx

\* No creation of the project of e that came before e counts on being handled.
AllPassed(e) ==
    \A d \in Events : d < e /\ chain[d].type = "proj_new" /\ Id(d) = Id(e) => d \in passed

\* Every row is the one of a contribution that ran.
RowsOfEvents ==
    \A c \in contribution : \E d \in Events : chain[d].type = "contrib" /\ runs[d] > 0 /\ c = Row(d)

\* A contribution has its row once its handler has passed the upsert, and when it
\* is recorded, unless the project was not there.
RowsWritten ==
    \A e \in Events : chain[e].type = "contrib" =>
        /\ run.event = e /\ Step(run.todo) \in {"updateFunds", "adjustReputation"} => HasRow(e)
        /\ e \in done \/ (run.event = e /\ Step(run.todo) = "end") => HasRow(e) \/ AllPassed(e)

RewardsEarned ==
    \A e \in Events : rewards[e] > 0 =>
        /\ runs[e] > 0 /\ chain[e].type \in {"contrib"} \cup Decisions
        /\ IF chain[e].type = "contrib" THEN HasRow(e) ELSE Present(Id(e))

ContribInv == RowsOfEvents /\ RowsWritten /\ RewardsEarned

\* What only grows.
LEMMA Growing ==
    ASSUME HandlersInv, [Next]_vars
    PROVE  /\ contribution \subseteq contribution' /\ passed \subseteq passed' /\ done \subseteq done'
           /\ \A d \in Event : runs[d] > 0 => runs'[d] > 0
<1>1. CASE Aside
  BY <1>1 DEF Aside, delivery
<1>2. ASSUME NEW e \in Events, HandlerStep(e)
      PROVE  /\ contribution \subseteq contribution' /\ passed \subseteq passed' /\ done \subseteq done'
             /\ runs' = runs \/ runs' = [runs EXCEPT ![e] = @ + 1]
  <2>1. CASE UpsertContribution(e)
    BY <2>1, UpsertContributionWrites DEF Proceeded, delivery
  <2>2. CASE contribution' = contribution
    BY <1>2, <2>2 DEF HandlerStep, Begin, End, Throw, PassOver, UpsertUser, UpsertProject, FindProject,
        UpsertContribution, UpdateFunds, UpdateMilestones, UpdateTrustScore, AdjustReputation,
        UpdateStatus, Run, Finish, Pass, delivery
  <2> QED BY <1>2, <2>1, <2>2 DEF HandlerStep, Begin, End, Throw, PassOver, UpsertUser, UpsertProject,
        FindProject, UpdateFunds, UpdateMilestones, UpdateTrustScore, AdjustReputation,
        UpdateStatus, tables
<1>3. ASSUME NEW e \in Events, runs' = [runs EXCEPT ![e] = @ + 1]
      PROVE  \A d \in Event : runs[d] > 0 => runs'[d] > 0
  BY <1>3, HandlersAssumption DEF HandlersInv, Tables, HandlersAssumption
<1> QED BY <1>1, <1>2, <1>3, Asides DEF HandlersInv

\* Rows and passed events stay.
LEMMA RowStays ==
    ASSUME HandlersInv, [Next]_vars, NEW e \in Events
    PROVE  /\ HasRow(e) => HasRow(e)'
           /\ AllPassed(e) => AllPassed(e)'
<1>1. chain' = chain
  BY ChainStays
<1>2. Events' = Events /\ \A d : Id(d)' = Id(d)
  BY <1>1, SameData
<1>3. contribution \subseteq contribution' /\ passed \subseteq passed'
  BY Growing
<1> QED BY <1>1, <1>2, <1>3 DEF HasRow, AllPassed

LEMMA RowsOfEventsStep ==
    ASSUME HandlersInv, RowsOfEvents, [Next]_vars
    PROVE  RowsOfEvents'
<1>1. chain' = chain
  BY ChainStays
<1>2. Events' = Events /\ \A d : Row(d)' = Row(d)
  BY <1>1, SameData DEF Row
<1>3. \A d \in Events : runs[d] > 0 => runs'[d] > 0
  BY Growing, ChainTypes DEF HandlersInv, Tables
<1>4. \A c \in contribution : \E d \in Events : chain[d].type = "contrib" /\ runs'[d] > 0 /\ c = Row(d)
  BY <1>3 DEF RowsOfEvents
<1>5. ASSUME NEW e \in Events, UpsertContribution(e)
      PROVE  \A c \in contribution' : \E d \in Events : chain[d].type = "contrib" /\ runs'[d] > 0 /\ c = Row(d)
  <2>1. Doing(e, "upsertContribution") /\ chain[e].type = "contrib"
        /\ contribution' \subseteq contribution \cup {Row(e)}
    BY <1>5, UpsertContributionWrites
  <2>2. runs'[e] > 0
    BY <1>3, <2>1, DoingFacts
  <2> QED BY <1>4, <2>1, <2>2
<1>6. CASE contribution' = contribution
  BY <1>1, <1>2, <1>4, <1>6 DEF RowsOfEvents
<1>7. ASSUME NEW e \in Events, HandlerStep(e) PROVE UpsertContribution(e) \/ contribution' = contribution
  BY <1>7 DEF HandlerStep, Begin, End, Throw, PassOver, UpsertUser, UpsertProject, FindProject,
              UpdateFunds, UpdateMilestones, UpdateTrustScore, AdjustReputation, UpdateStatus, tables
<1>8. Aside => contribution' = contribution
  BY DEF Aside
<1> QED BY <1>1, <1>2, <1>5, <1>6, <1>7, <1>8, Asides DEF RowsOfEvents, HandlersInv

\* A project that is missing was not created before by an event that counts.
LEMMA MissingMeansPassed ==
    ASSUME HandlersInv, PresenceInv, NEW e \in Events, runs[e] > 0, ~Present(Id(e))
    PROVE  AllPassed(e)
<1> SUFFICES ASSUME NEW d \in Events, d < e, chain[d].type = "proj_new", Id(d) = Id(e), d \notin passed
             PROVE  FALSE
  BY DEF AllPassed
<1>1. d \in done
  BY ChainTypes DEF HandlersInv, Tables, Delivered
<1> QED BY <1>1 DEF PresenceInv

\* How a step moves the running handler.
LEMMA RunMoves ==
    ASSUME HandlersInv, [Next]_vars
    PROVE  \/ run' \in {run, NoRun} /\ done' = done
           \/ \E e \in Events : End(e)
           \/ \E e \in Events : Begin(e)
           \/ \E e \in Events : /\ Doing(e, "findProject") /\ ~Present(Id(e))
                                /\ run' = [event |-> e, todo |-> <<>>]
                                /\ done' = done /\ runs' = runs
           \/ \E e \in Events : \E s : /\ Doing(e, s) /\ Proceeded(e)
                                       /\ s = "upsertUser" => UpsertUser(e)
                                       /\ s = "upsertContribution" => UpsertContribution(e)
                                       /\ s = "findProject" => Present(Id(e))
<1>1. CASE Aside
  BY <1>1 DEF Aside, delivery
<1>2. ASSUME NEW e \in Events, HandlerStep(e)
      PROVE  \/ run' \in {run, NoRun} /\ done' = done
             \/ End(e) \/ Begin(e)
             \/ /\ Doing(e, "findProject") /\ ~Present(Id(e)) /\ run' = [event |-> e, todo |-> <<>>]
                /\ done' = done /\ runs' = runs
             \/ \E s : /\ Doing(e, s) /\ Proceeded(e)
                       /\ s = "upsertUser" => UpsertUser(e)
                       /\ s = "upsertContribution" => UpsertContribution(e)
                       /\ s = "findProject" => Present(Id(e))
  <2>1. CASE Throw(e) \/ PassOver(e)
    BY <2>1 DEF Throw, PassOver, Pass, delivery
  <2>2. CASE FindProject(e)
    BY <2>2, FindProjectWrites DEF delivery
  <2>3. CASE UpsertUser(e)
    <3>1. Doing(e, "upsertUser") /\ Proceeded(e)
      BY <2>3, UpsertUserWrites
    <3> QED BY <2>3, <3>1
  <2>4. CASE UpsertProject(e)
    <3>1. Doing(e, "upsertProject") /\ Proceeded(e)
      BY <2>4, UpsertProjectWrites
    <3> QED BY <2>4, <3>1
  <2>5. CASE UpsertContribution(e)
    <3>1. Doing(e, "upsertContribution") /\ Proceeded(e)
      BY <2>5, UpsertContributionWrites
    <3> QED BY <2>5, <3>1
  <2>6. CASE UpdateFunds(e)
    <3>1. Doing(e, "updateFunds") /\ Proceeded(e)
      BY <2>6, UpdateFundsWrites
    <3> QED BY <2>6, <3>1
  <2>7. CASE UpdateMilestones(e)
    <3>1. Doing(e, "updateMilestones") /\ Proceeded(e)
      BY <2>7, UpdateMilestonesWrites
    <3> QED BY <2>7, <3>1
  <2>8. CASE UpdateTrustScore(e)
    <3>1. Doing(e, "updateTrustScore") /\ Proceeded(e)
      BY <2>8, UpdateTrustScoreWrites
    <3> QED BY <2>8, <3>1
  <2>9. CASE AdjustReputation(e)
    <3>1. Doing(e, "adjustReputation") /\ Proceeded(e)
      BY <2>9, AdjustReputationWrites
    <3> QED BY <2>9, <3>1
  <2>10. CASE UpdateStatus(e)
    <3>1. Doing(e, "updateStatus") /\ Proceeded(e)
      BY <2>10, UpdateStatusWrites
    <3> QED BY <2>10, <3>1
  <2> QED BY <1>2, <2>1, <2>2, <2>3, <2>4, <2>5, <2>6, <2>7, <2>8, <2>9, <2>10 DEF HandlerStep
<1> QED BY <1>1, <1>2, Asides DEF HandlersInv

LEMMA RowsWrittenStep ==
    ASSUME HandlersInv, PresenceInv, RowsWritten, [Next]_vars
    PROVE  RowsWritten'
<1>1. chain' = chain
  BY ChainStays
<1>2. Events' = Events
  BY <1>1, SameData
<1>3. \A f \in Events : (HasRow(f) => HasRow(f)') /\ (AllPassed(f) => AllPassed(f)')
  BY RowStays
<1>4. \A f \in Events : f # 0
  BY ChainTypes DEF HandlersInv, Tables
<1> SUFFICES ASSUME NEW f \in Events, chain[f].type = "contrib"
             PROVE  /\ run'.event = f /\ Step(run'.todo) \in {"updateFunds", "adjustReputation"}
                       => HasRow(f)'
                    /\ f \in done' \/ (run'.event = f /\ Step(run'.todo) = "end")
                       => HasRow(f)' \/ AllPassed(f)'
  BY <1>1, <1>2 DEF RowsWritten
<1>5. CASE run' \in {run, NoRun} /\ done' = done
  BY <1>3, <1>4, <1>5 DEF RowsWritten, NoRun
<1> DEFINE Goal == /\ run'.event = f /\ Step(run'.todo) \in {"updateFunds", "adjustReputation"}
                      => HasRow(f)'
                   /\ f \in done' \/ (run'.event = f /\ Step(run'.todo) = "end")
                      => HasRow(f)' \/ AllPassed(f)'
<1>6. ASSUME NEW e \in Events, End(e) PROVE Goal
  <2>1. run.event = e /\ Step(run.todo) = "end" /\ run' = NoRun /\ done' = done \cup {e}
    BY <1>6 DEF End, Finish, Step
  <2> QED BY <1>3, <1>4, <2>1 DEF RowsWritten, NoRun
<1>7. ASSUME NEW e \in Events, Begin(e) PROVE Goal
  <2>1. PICK td : td = Handlers[chain[e].type]
    OBVIOUS
  <2>2. Handled(e) /\ run' = [event |-> e, todo |-> td] /\ done' = done
    BY <1>7, <2>1 DEF Begin, Run
  <2>3. run'.event = e /\ run'.todo = td
    BY <2>2
  <2>4. chain[e].type = "contrib" => Step(td) = "upsertUser"
    BY <2>1, FirstStep DEF Kinds, Decisions
  <2> QED BY <1>3, <2>2, <2>3, <2>4 DEF RowsWritten
<1>8. ASSUME NEW e \in Events, Doing(e, "findProject"), ~Present(Id(e)),
             run' = [event |-> e, todo |-> <<>>], done' = done
      PROVE  Goal
  <2>1. runs[e] > 0
    BY <1>8, DoingFacts
  <2>2. AllPassed(e)
    BY <1>8, <2>1, MissingMeansPassed
  <2>3. run'.event = e /\ Step(run'.todo) = "end"
    BY <1>8 DEF Step
  <2> QED BY <1>3, <1>8, <2>2, <2>3 DEF RowsWritten
<1>9. ASSUME NEW e \in Events, NEW s, Doing(e, s), Proceeded(e),
             s = "upsertContribution" => UpsertContribution(e)
      PROVE  Goal
  <2>1. /\ run.event = e /\ Step(run.todo) = s
        /\ run'.event = e /\ After(chain[e].type, s, Step(run'.todo))
    BY <1>9, AfterStep
  <2>2. done' = done
    BY <1>9 DEF Proceeded, delivery
  <2>3. CASE e # f
    BY <1>3, <2>1, <2>2, <2>3 DEF RowsWritten
  <2>4. CASE e = f /\ s = "upsertContribution"
    <3>1. contribution' = IF \E c \in contribution : c.tx = chain[e].tx THEN contribution
                          ELSE contribution \cup {Row(e)}
      BY <1>9, <2>4, UpsertContributionWrites
    <3>2. Row(e).tx = chain[e].tx
      BY DEF Row
    <3>3. HasRow(f)'
      BY <1>1, <2>4, <3>1, <3>2 DEF HasRow
    <3> QED BY <3>3
  <2>5. CASE e = f /\ s # "upsertContribution"
    <3>1. f \notin done
      BY <1>9, <2>5, DoingFacts
    <3>2. Step(run'.todo) \in {"updateFunds", "adjustReputation", "end"} => s \in {"updateFunds", "adjustReputation"}
      BY <2>1, <2>5 DEF After, Decisions
    <3> QED BY <1>3, <2>1, <2>2, <2>5, <3>1, <3>2 DEF RowsWritten
  <2> QED BY <2>3, <2>4, <2>5
<1> QED BY <1>5, <1>6, <1>7, <1>8, <1>9, RunMoves

LEMMA RewardsEarnedStep ==
    ASSUME HandlersInv, PresenceInv, RowsWritten, RewardsEarned, [Next]_vars
    PROVE  RewardsEarned'
<1>1. chain' = chain
  BY ChainStays
<1>2. Events' = Events /\ \A d : Id(d)' = Id(d)
  BY <1>1, SameData
<1>3. \A f \in Events : f \in Event /\ (HasRow(f) => HasRow(f)')
  BY RowStays, ChainTypes DEF HandlersInv, Tables
<1>4. \A f \in Events : runs[f] > 0 => runs'[f] > 0
  BY <1>3, Growing
<1>5. ASSUME NEW f \in Events, runs[f] > 0, chain[f].type \in Decisions, Present(Id(f))
      PROVE  Present(Id(f))'
  <2>1. PICK p : p = Id(f)
    OBVIOUS
  <2>2. p \in ProjectIds
    BY <1>5, <2>1, HandledData DEF HandlersInv, Tables, Delivered, Decisions
  <2>3. Present(p)'
    BY <1>5, <2>1, <2>2, PresentStays
  <2> QED BY <1>2, <2>1, <2>3 DEF Present
<1> SUFFICES ASSUME NEW f \in Events, rewards'[f] > 0
             PROVE  /\ runs'[f] > 0 /\ chain[f].type \in {"contrib"} \cup Decisions
                    /\ IF chain[f].type = "contrib" THEN HasRow(f)' ELSE Present(Id(f))'
  BY <1>1, <1>2 DEF RewardsEarned
<1>6. CASE rewards[f] > 0
  BY <1>3, <1>4, <1>5, <1>6 DEF RewardsEarned
<1>7. CASE AdjustReputation(f)
  <2>1. Doing(f, "adjustReputation") /\ chain[f].type \in {"contrib"} \cup Decisions
    BY <1>7, AdjustReputationWrites
  <2>2. runs[f] > 0 /\ run.event = f /\ Step(run.todo) = "adjustReputation"
    BY <2>1, DoingFacts
  <2>3. CASE chain[f].type = "contrib"
    BY <1>3, <1>4, <2>2, <2>3 DEF RowsWritten
  <2>4. CASE chain[f].type \in Decisions
    <3>1. Present(Id(f)) /\ chain[f].type # "contrib"
      BY <2>2, <2>4 DEF PresenceInv, Decisions
    <3> QED BY <1>4, <1>5, <2>2, <2>4, <3>1
  <2> QED BY <2>1, <2>3, <2>4
<1>8. ASSUME NEW e \in Events, HandlerStep(e), ~AdjustReputation(f) PROVE rewards'[f] = rewards[f]
  <2>1. CASE AdjustReputation(e)
    BY <1>3, <1>8, <2>1, AdjustReputationWrites
  <2>2. CASE ~AdjustReputation(e)
    BY <1>8, <2>2 DEF HandlerStep, Begin, End, Throw, PassOver, UpsertUser, UpsertProject, FindProject,
              UpsertContribution, UpdateFunds, UpdateMilestones, UpdateTrustScore, UpdateStatus
  <2> QED BY <2>1, <2>2
<1>9. Aside => rewards' = rewards
  BY DEF Aside
<1> QED BY <1>6, <1>7, <1>8, <1>9, Asides DEF HandlersInv

EventsInv == HandlersInv /\ PresenceInv /\ ContribInv

LEMMA EventsInit == Init => EventsInv
<1> SUFFICES ASSUME Init PROVE EventsInv
  OBVIOUS
<1>1. /\ chain \in Chains /\ run = NoRun /\ done = {} /\ contribution = {}
      /\ project = [p \in ProjectIds |-> NoProject] /\ rewards = [e \in Event |-> 0]
  BY DEF Init, HandlersInit, DeliveryInit
<1>2. \A e \in Events : e # 0 /\ e \in Event
  BY <1>1, ChainTypes
<1>3. PresenceInv
  BY <1>1, <1>2 DEF PresenceInv, NoRun, Present
<1>4. ContribInv
  BY <1>1, <1>2 DEF ContribInv, RowsOfEvents, RowsWritten, RewardsEarned, NoRun
<1> QED BY <1>3, <1>4, HandlersInitInv DEF EventsInv

LEMMA EventsStep ==
    ASSUME EventsInv, [Next]_vars
    PROVE  EventsInv'
BY HandlersStepInv, PresenceStep, RowsOfEventsStep, RowsWrittenStep, RewardsEarnedStep
   DEF EventsInv, ContribInv

\* A recorded contribution has its row when the creation of its project was
\* recorded before and no other contribution of its transaction took the row,
\* and reputation is given only for rows that are there.
THEOREM Contributions == Spec => []ContributionsKept
<1>1. ASSUME EventsInv PROVE ContributionsKept
  <2>1. ASSUME NEW e \in done, chain[e].type = "contrib",
               \E d \in done \ passed : d < e /\ chain[d].type = "proj_new" /\ Id(d) = Id(e)
        PROVE  \E c \in contribution :
                  /\ c.tx = chain[e].tx
                  /\ \/ c = [tx |-> c.tx, project |-> Id(e), investor |-> Wallet(e),
                             amount |-> Data(e).amount.v]
                     \/ \E d \in Events \ {e} : chain[d].tx = c.tx /\ runs[d] > 0
    <3>1. e \in Events /\ done \subseteq Events
      BY <1>1 DEF EventsInv, HandlersInv, Tables
    <3>2. ~AllPassed(e)
      BY <2>1, <3>1 DEF AllPassed
    <3>3. PICK c \in contribution : c.tx = chain[e].tx
      BY <1>1, <2>1, <3>1, <3>2 DEF EventsInv, ContribInv, RowsWritten, HasRow
    <3>4. PICK d \in Events : runs[d] > 0 /\ c = Row(d)
      BY <1>1 DEF EventsInv, ContribInv, RowsOfEvents
    <3>5. chain[d].tx = c.tx
      BY <3>4 DEF Row
    <3>6. d = e => c = [tx |-> c.tx, project |-> Id(e), investor |-> Wallet(e),
                        amount |-> Data(e).amount.v]
      BY <3>3, <3>4 DEF Row
    <3> QED BY <3>3, <3>4, <3>5, <3>6
  <2>2. ASSUME NEW e \in Events, rewards[e] > 0
        PROVE  IF chain[e].type = "contrib" THEN \E c \in contribution : c.tx = chain[e].tx
               ELSE Present(Id(e))
    BY <1>1, <2>2 DEF EventsInv, ContribInv, RewardsEarned, HasRow
  <2> QED BY <2>1, <2>2 DEF ContributionsKept
<1>2. EventsInv /\ [Next]_vars => EventsInv'
  BY EventsStep
<1> QED BY EventsInit, <1>1, <1>2, PTL DEF Spec

-----------------------------------------------------------------------------
\* Projects say what the chain says

StatusTypes == {"proj_new", "proj_done", "proj_fail"}
StatusOf(t) == CASE t = "proj_new" -> "ACTIVE" [] t = "proj_done" -> "COMPLETED" [] t = "proj_fail" -> "CANCELLED"
FundsOf(F) == IF F = {} THEN 0 ELSE Data(Latest(F)).totalRaised.v

NobodyPassed == \A e \in passed : ~Handled(e)

\* An event of these types for the project has begun and is not recorded.
Busy(p, types) == \E e \in Events \ done : runs[e] > 0 /\ chain[e].type \in types /\ Id(e) = p

\* A project is there because a creation ran.
CreationRan ==
    \A p \in ProjectIds : Present(p) =>
        \E d \in Events : runs[d] > 0 /\ chain[d].type = "proj_new" /\ Id(d) = p

\* What a handler has written when it is about to be recorded.
RunCurrent ==
    \A e \in Events : run.event = e =>
        /\ chain[e].type \in StatusTypes /\ Step(run.todo) = "end" /\ Present(Id(e)) =>
              project[Id(e)].status = StatusOf(chain[e].type)
        /\ chain[e].type = "contrib"
           /\ (Step(run.todo) = "adjustReputation" \/ (Step(run.todo) = "end" /\ Present(Id(e)))) =>
              project[Id(e)].funds = Data(e).totalRaised.v

\* A project that was not created has raised nothing, and the row of one that
\* was follows the latest recorded events, except for what a handler is at.
NoFunds(p) == (\A d \in done : ~(chain[d].type = "proj_new" /\ Id(d) = p)) => project[p].funds = 0
StatusCurrent(p) ==
    LET S == Recorded(p, StatusTypes) IN
    S # {} /\ ~Busy(p, StatusTypes) => project[p].status = StatusOf(chain[Latest(S)].type)
FundsCurrent(p) == ~Busy(p, {"contrib"}) => project[p].funds = FundsOf(Recorded(p, {"contrib"}))

CurrentInv ==
    /\ CreationRan /\ RunCurrent
    /\ NobodyPassed => \A p \in ProjectIds : NoFunds(p) /\ StatusCurrent(p) /\ FundsCurrent(p)

\* While nobody was passed over, the event that runs comes after all recorded ones.
LEMMA RunsLast ==
    ASSUME HandlersInv, NobodyPassed, NEW e \in Events \ done, runs[e] > 0, NEW d \in done
    PROVE  d < e
<1>1. d \in Events /\ runs[d] > 0 /\ Handled(e)
  BY DEF HandlersInv, Tables, Delivered
<1>2. d \in Nat /\ e \in Nat /\ e \in Event /\ d # e
  BY <1>1, ChainTypes DEF HandlersInv, Tables
<1>3. ~(e < d)
  BY <1>1, <1>2 DEF HandlersInv, Delivered, NobodyPassed
<1> QED BY <1>2, <1>3

LEMMA CreationRanStep ==
    ASSUME HandlersInv, PresenceInv, CreationRan, [Next]_vars
    PROVE  CreationRan'
<1>1. chain' = chain
  BY ChainStays
<1>2. Events' = Events /\ \A d : Id(d)' = Id(d)
  BY <1>1, SameData
<1>3. \A d \in Events : runs[d] > 0 => runs'[d] > 0
  BY Growing, ChainTypes DEF HandlersInv, Tables
<1> SUFFICES ASSUME NEW p \in ProjectIds, Present(p)'
             PROVE  \E d \in Events : runs'[d] > 0 /\ chain[d].type = "proj_new" /\ Id(d) = p
  BY <1>1, <1>2 DEF CreationRan
<1>4. CASE Present(p)
  BY <1>3, <1>4 DEF CreationRan
<1>5. CASE ~Present(p)
  <2>1. project'[p] # project[p]
    BY <1>5 DEF Present
  <2>2. ~Aside
    BY <2>1 DEF Aside
  <2>3. PICK e \in Events : HandlerStep(e)
    BY <2>2, Asides DEF HandlersInv
  <2>4. CASE UpsertProject(e)
    <3>1. Doing(e, "upsertProject") /\ chain[e].type = "proj_new" /\ ProjectWritten(Id(e))
      BY <2>4, UpsertProjectWrites
    <3>2. Id(e) = p /\ runs[e] > 0
      BY <2>1, <3>1, DoingFacts DEF ProjectWritten
    <3> QED BY <1>3, <3>1, <3>2
  <2>5. CASE UpdateFunds(e)
    <3>1. Doing(e, "updateFunds") /\ ProjectWritten(Id(e)) /\ chain[e].type = "contrib"
      BY <2>5, UpdateFundsWrites
    <3>2. Id(e) = p
      BY <2>1, <3>1 DEF ProjectWritten
    <3>3. run.event = e /\ Step(run.todo) = "updateFunds"
      BY <3>1, DoingFacts
    <3> QED BY <1>5, <3>1, <3>2, <3>3 DEF PresenceInv
  <2>6. CASE UpdateStatus(e)
    BY <1>5, <2>1, <2>6, UpdateStatusWrites DEF ProjectWritten
  <2>7. CASE project' = project
    BY <2>1, <2>7
  <2> QED BY <2>3, <2>4, <2>5, <2>6, <2>7 DEF HandlerStep, Begin, End, Throw, PassOver, UpsertUser,
        FindProject, UpsertContribution, UpdateMilestones, UpdateTrustScore, AdjustReputation, tables
<1> QED BY <1>4, <1>5

LEMMA RunCurrentStep ==
    ASSUME HandlersInv, PresenceInv, RunCurrent, [Next]_vars
    PROVE  RunCurrent'
<1>1. chain' = chain
  BY ChainStays
<1>2. Events' = Events /\ (\A d : Id(d)' = Id(d)) /\ (\A d : Data(d)' = Data(d))
  BY <1>1, SameData
<1>3. \A f \in Events : f # 0
  BY ChainTypes DEF HandlersInv, Tables
<1> DEFINE Goal(f) ==
        run'.event = f =>
          /\ chain[f].type \in StatusTypes /\ Step(run'.todo) = "end" /\ project'[Id(f)] # NoProject =>
                project'[Id(f)].status = StatusOf(chain[f].type)
          /\ chain[f].type = "contrib"
             /\ (Step(run'.todo) = "adjustReputation" \/ (Step(run'.todo) = "end" /\ project'[Id(f)] # NoProject)) =>
                project'[Id(f)].funds = Data(f).totalRaised.v
<1> SUFFICES \A f \in Events : Goal(f)
  BY <1>1, <1>2 DEF RunCurrent, Present
<1>4. CASE Aside
  BY <1>4 DEF Aside, RunCurrent, Present
<1>5. CASE run' = NoRun
  BY <1>3, <1>5 DEF NoRun
<1>6. ASSUME NEW e \in Events, HandlerStep(e), run' # NoRun PROVE \A f \in Events : Goal(f)
  <2>1. CASE Begin(e)
    <3>1. PICK td : td = Handlers[chain[e].type]
      OBVIOUS
    <3>2. Handled(e) /\ run' = [event |-> e, todo |-> td]
      BY <2>1, <3>1 DEF Begin
    <3>3. run'.event = e /\ run'.todo = td
      BY <3>2
    <3>4. chain[e].type \in Kinds
      BY <3>2, HandledData DEF HandlersInv, Tables
    <3>5. Step(td) \notin {"adjustReputation", "end"}
      BY <3>1, <3>4, FirstStep
    <3> QED BY <3>3, <3>5
  <2>2. ASSUME NEW s, Doing(e, s), Proceeded(e),
               s \in {"upsertUser", "upsertContribution", "updateMilestones", "updateTrustScore", "findProject"}
        PROVE  \A f \in Events : Goal(f)
    <3>1. run'.event = e /\ After(chain[e].type, s, Step(run'.todo))
      BY <2>2, AfterStep
    <3>2. /\ chain[e].type \in StatusTypes => Step(run'.todo) # "end"
          /\ chain[e].type = "contrib" => Step(run'.todo) \notin {"adjustReputation", "end"}
      BY <2>2, <3>1 DEF After, StatusTypes, Decisions
    <3> QED BY <3>1, <3>2
  <2>3. CASE UpsertUser(e)
    BY <2>2, <2>3, UpsertUserWrites
  <2>4. CASE UpsertContribution(e)
    BY <2>2, <2>4, UpsertContributionWrites
  <2>5. CASE UpdateMilestones(e)
    BY <2>2, <2>5, UpdateMilestonesWrites
  <2>6. CASE UpdateTrustScore(e)
    BY <2>2, <2>6, UpdateTrustScoreWrites
  <2>7. CASE FindProject(e)
    <3>1. CASE Present(Id(e))
      BY <2>2, <2>7, <3>1, FindProjectWrites
    <3>2. CASE ~Present(Id(e))
      <4>1. run' = [event |-> e, todo |-> <<>>] /\ project' = project
            /\ chain[e].type \in {"contrib", "release"} \cup Decisions
        BY <2>7, <3>2, FindProjectWrites DEF tables
      <4>2. run'.event = e /\ Step(run'.todo) = "end" /\ project'[Id(e)] = NoProject
        BY <3>2, <4>1 DEF Step, Present
      <4> QED BY <4>2
    <3> QED BY <3>1, <3>2
  <2>8. CASE UpsertProject(e)
    <3>1. /\ Doing(e, "upsertProject") /\ Proceeded(e) /\ chain[e].type = "proj_new"
          /\ project'[Id(e)].status = "ACTIVE"
      BY <2>8, UpsertProjectWrites
    <3>2. run'.event = e
      BY <3>1, AfterStep
    <3> QED BY <3>1, <3>2 DEF StatusOf
  <2>9. CASE UpdateFunds(e)
    <3>1. /\ Doing(e, "updateFunds") /\ Proceeded(e) /\ chain[e].type = "contrib"
          /\ project'[Id(e)].funds = Data(e).totalRaised.v
      BY <2>9, UpdateFundsWrites
    <3>2. run'.event = e
      BY <3>1, AfterStep
    <3> QED BY <3>1, <3>2 DEF StatusTypes
  <2>10. CASE AdjustReputation(e)
    <3>1. /\ Doing(e, "adjustReputation") /\ Proceeded(e) /\ chain[e].type \in {"contrib"} \cup Decisions
          /\ project' = project
      BY <2>10, AdjustReputationWrites DEF tables
    <3>2. run.event = e /\ Step(run.todo) = "adjustReputation" /\ run'.event = e
      BY <3>1, AfterStep
    <3> QED BY <3>1, <3>2 DEF RunCurrent, StatusTypes, Decisions
  <2>11. CASE UpdateStatus(e)
    <3>1. /\ Doing(e, "updateStatus") /\ Proceeded(e) /\ chain[e].type \in {"proj_done", "proj_fail"}
          /\ Present(Id(e)) => project'[Id(e)].status = ProjectStatus[chain[e].type]
          /\ ~Present(Id(e)) => project' = project
      BY <2>11, UpdateStatusWrites
    <3>2. run'.event = e
      BY <3>1, AfterStep
    <3>3. ProjectStatus[chain[e].type] = StatusOf(chain[e].type)
      BY <3>1 DEF ProjectStatus, StatusOf
    <3> QED BY <3>1, <3>2, <3>3 DEF Present
  <2>12. CASE End(e) \/ Throw(e) \/ PassOver(e)
    BY <1>6, <2>12 DEF End, Throw, PassOver
  <2> QED BY <1>6, <2>1, <2>3, <2>4, <2>5, <2>6, <2>7, <2>8, <2>9, <2>10, <2>11, <2>12 DEF HandlerStep
<1> QED BY <1>4, <1>5, <1>6, Asides DEF HandlersInv

\* The recorded events, for the set D of all that are recorded.
Rec(D, p, types) ==
    {e \in D : /\ chain[e].type # "claim" /\ Id(e) = p /\ chain[e].type \in types
               /\ \E c \in D : chain[c].type = "proj_new" /\ Id(c) = p /\ c <= e}

LEMMA RecordedNow ==
    ASSUME NEW p, NEW types
    PROVE  Recorded(p, types) = Rec(done, p, types)
BY DEF Recorded, Rec

LEMMA RecordedNext ==
    ASSUME chain' = chain, NEW D, D = done', NEW p, NEW types
    PROVE  Recorded(p, types)' = Rec(D, p, types)
<1>1. \A d : Id(d)' = Id(d)
  BY SameData
<1> QED BY <1>1 DEF Recorded, Rec

\* The latest event of a set.
LEMMA LatestIs ==
    ASSUME NEW S, S \subseteq Nat, NEW m \in S, \A d \in S : d <= m
    PROVE  Latest(S) = m
<1>1. Latest(S) \in S /\ \A d \in S : d <= Latest(S)
  BY Zenon DEF Latest
<1>2. PICK l : l = Latest(S)
  OBVIOUS
<1>3. l \in Nat /\ m \in Nat /\ l <= m /\ m <= l
  BY <1>1, <1>2
<1> QED BY <1>2, <1>3

Creation(D, p) == \E c \in D : chain[c].type = "proj_new" /\ Id(c) = p

\* One more event is recorded, later than all others: the set Rec grows by the
\* new event or not at all.
Grows(e, D, p, types) == /\ chain[e].type \in types /\ Id(e) = p
                         /\ chain[e].type = "proj_new" \/ Creation(D, p)

LEMMA RecMore ==
    ASSUME NEW e \in Nat, NEW D, D \subseteq Nat, \A d \in D : d < e,
           NEW p, NEW types, "claim" \notin types
    PROVE  \A x : x \in Rec(D \cup {e}, p, types)
                     <=> x \in Rec(D, p, types) \/ (x = e /\ Grows(e, D, p, types))
<1> DEFINE C(c) == chain[c].type = "proj_new" /\ Id(c) = p
           M(x) == chain[x].type # "claim" /\ Id(x) = p /\ chain[x].type \in types
<1>1. ASSUME NEW x \in D
      PROVE  (\E c \in D \cup {e} : C(c) /\ c <= x) <=> (\E c \in D : C(c) /\ c <= x)
  <2>1. ~(e <= x)
    OBVIOUS
  <2> HIDE DEF C
  <2> QED BY <2>1
<1>2. (\E c \in D \cup {e} : C(c) /\ c <= e) <=> C(e) \/ \E c \in D : C(c)
  <2>1. e <= e /\ \A c \in D : c <= e
    OBVIOUS
  <2> HIDE DEF C
  <2> QED BY <2>1
<1>3. M(e) => (C(e) <=> chain[e].type = "proj_new")
  OBVIOUS
<1>4. \A X : Rec(X, p, types) = {x \in X : M(x) /\ \E c \in X : C(c) /\ c <= x}
  BY DEF Rec
<1>5. M(e) <=> chain[e].type \in types /\ Id(e) = p
  OBVIOUS
<1> HIDE DEF C, M
<1>6. /\ Rec(D \cup {e}, p, types) = {x \in D \cup {e} : M(x) /\ \E c \in D \cup {e} : C(c) /\ c <= x}
      /\ Rec(D, p, types) = {x \in D : M(x) /\ \E c \in D : C(c) /\ c <= x}
  BY <1>4
<1>7. ASSUME NEW x PROVE x \in Rec(D \cup {e}, p, types)
         <=> x \in Rec(D, p, types) \/ (x = e /\ M(e) /\ (C(e) \/ \E c \in D : C(c)))
  <2>1. CASE x \in D
    <3>1. x # e
      BY <2>1
    <3> QED BY <1>1, <1>6, <2>1, <3>1
  <2>2. CASE x \notin D
    BY <1>2, <1>6, <2>2
  <2> QED BY <2>1, <2>2
<1>8. Creation(D, p) <=> \E c \in D : C(c)
  BY DEF Creation, C
<1>9. Grows(e, D, p, types) <=> M(e) /\ (C(e) \/ \E c \in D : C(c))
  BY <1>3, <1>5, <1>8 DEF Grows
<1> QED BY <1>7, <1>9

\* Steps that record nothing.
LEMMA CurrentKept ==
    ASSUME HandlersInv, [Next]_vars, NEW p \in ProjectIds, done' = done,
           NoFunds(p), StatusCurrent(p), FundsCurrent(p)
    PROVE  /\ project'[p].status = project[p].status \/ Busy(p, StatusTypes) => StatusCurrent(p)'
           /\ project'[p].funds = project[p].funds \/ Busy(p, {"contrib"}) => FundsCurrent(p)'
           /\ project'[p].funds = project[p].funds => NoFunds(p)'
<1>1. chain' = chain
  BY ChainStays
<1>2. Events' = Events /\ (\A d : Id(d)' = Id(d)) /\ (\A d : Data(d)' = Data(d))
  BY <1>1, SameData
<1>3. \A d \in Events : runs[d] > 0 => runs'[d] > 0
  BY Growing, ChainTypes DEF HandlersInv, Tables
<1>4. \A types : Busy(p, types) => Busy(p, types)'
  BY <1>1, <1>2, <1>3 DEF Busy
<1>5. \A types : Recorded(p, types)' = Recorded(p, types)
  BY <1>1, RecordedNow, RecordedNext
<1>6. PICK S : S = Recorded(p, StatusTypes)
  OBVIOUS
<1>7. PICK F : F = Recorded(p, {"contrib"})
  OBVIOUS
<1>8. FundsOf(Recorded(p, {"contrib"}))' = FundsOf(F)
  BY <1>1, <1>5, <1>7 DEF FundsOf, Data
<1>9. project'[p].status = project[p].status \/ Busy(p, StatusTypes) => StatusCurrent(p)'
  BY <1>1, <1>4, <1>5, <1>6 DEF StatusCurrent
<1>10. project'[p].funds = project[p].funds \/ Busy(p, {"contrib"}) => FundsCurrent(p)'
  BY <1>4, <1>7, <1>8 DEF FundsCurrent
<1>11. project'[p].funds = project[p].funds => NoFunds(p)'
  BY <1>1, <1>2 DEF NoFunds
<1> QED BY <1>9, <1>10, <1>11

\* The record of an event: the row says what it says.
LEMMA CurrentEnd ==
    ASSUME HandlersInv, PresenceInv, RunCurrent, NobodyPassed, NEW e \in Events, End(e),
           NEW p \in ProjectIds, NoFunds(p), StatusCurrent(p), FundsCurrent(p)
    PROVE  NoFunds(p)' /\ StatusCurrent(p)' /\ FundsCurrent(p)'
<1>1. /\ run.event = e /\ Step(run.todo) = "end" /\ runs[e] > 0 /\ e \notin done
      /\ done' = done \cup {e} /\ UNCHANGED <<chain, runs, project>>
  BY DEF End, Finish, Step, tables
<1>2. Events' = Events /\ (\A d : Id(d)' = Id(d)) /\ (\A d : Data(d)' = Data(d))
  BY <1>1, SameData
<1>3. done \subseteq Nat /\ e \in Nat
  BY ChainTypes DEF HandlersInv, Tables
<1>4. \A d \in done : d < e
  BY <1>1, RunsLast
<1> DEFINE created == Creation(done, p)
<1>5. created => Present(p)
  BY DEF PresenceInv, Creation
<1>6. PICK S, F : S = Recorded(p, StatusTypes) /\ F = Recorded(p, {"contrib"})
  OBVIOUS
<1>7. PICK S2, F2 : S2 = Recorded(p, StatusTypes)' /\ F2 = Recorded(p, {"contrib"})'
  OBVIOUS
<1>8. S2 = IF /\ chain[e].type \in StatusTypes /\ Id(e) = p
              /\ chain[e].type = "proj_new" \/ created
           THEN S \cup {e} ELSE S
  <2>1. S = Rec(done, p, StatusTypes)
    BY <1>6, RecordedNow
  <2>2. S2 = Rec(done \cup {e}, p, StatusTypes)
    <3>1. PICK D : D = done'
      OBVIOUS
    <3> QED BY <1>1, <1>7, <3>1, RecordedNext
  <2>3. "claim" \notin StatusTypes
    BY DEF StatusTypes
  <2>4. \A x : x \in S2 <=> x \in S \/ (x = e /\ Grows(e, done, p, StatusTypes))
    BY <1>3, <1>4, <2>1, <2>2, <2>3, RecMore
  <2> QED BY <2>4 DEF Grows
<1>9. F2 = IF chain[e].type = "contrib" /\ Id(e) = p /\ created THEN F \cup {e} ELSE F
  <2>1. F = Rec(done, p, {"contrib"})
    BY <1>6, RecordedNow
  <2>2. F2 = Rec(done \cup {e}, p, {"contrib"})
    <3>1. PICK D : D = done'
      OBVIOUS
    <3> QED BY <1>1, <1>7, <3>1, RecordedNext
  <2>3. F2 = IF /\ chain[e].type \in {"contrib"} /\ Id(e) = p
                /\ chain[e].type = "proj_new" \/ created
             THEN F \cup {e} ELSE F
    <3>1. PICK T : T = {"contrib"}
      OBVIOUS
    <3>2. "claim" \notin T
      BY <3>1
    <3>3. \A x : x \in F2 <=> x \in F \/ (x = e /\ Grows(e, done, p, T))
      BY <1>3, <1>4, <2>1, <2>2, <3>1, <3>2, RecMore
    <3> QED BY <3>1, <3>3 DEF Grows
  <2> QED BY <2>3, SMT
<1>10. S \subseteq done /\ F \subseteq done /\ (S # {} => created) /\ (F # {} => created)
  BY <1>6, RecordedNow DEF Rec, Creation
<1> HIDE DEF created
<1>11. NoFunds(p)'
  <2>1. (\A d \in done' : ~(chain'[d].type = "proj_new" /\ Id(d)' = p)) =>
           \A d \in done : ~(chain[d].type = "proj_new" /\ Id(d) = p)
    BY <1>1, <1>2
  <2> QED BY <1>1, <1>2, <2>1 DEF NoFunds
<1>12. \A types : chain[e].type \notin types \/ Id(e) # p => (Busy(p, types) => Busy(p, types)')
  BY <1>1, <1>2 DEF Busy
<1>13. StatusCurrent(p)'
  <2> SUFFICES ASSUME S2 # {}, ~Busy(p, StatusTypes)'
               PROVE  project[p].status = StatusOf(chain[Latest(S2)].type)
    BY <1>1, <1>7 DEF StatusCurrent
  <2>1. CASE chain[e].type \in StatusTypes /\ Id(e) = p /\ (chain[e].type = "proj_new" \/ created)
    <3>1. Present(p)
      BY <1>1, <1>5, <2>1 DEF PresenceInv
    <3>2. project[p].status = StatusOf(chain[e].type)
      BY <1>1, <2>1, <3>1 DEF RunCurrent
    <3>3. S2 = S \cup {e}
      BY <1>8, <2>1
    <3>4. Latest(S2) = e
      <4>1. S2 \subseteq Nat /\ e \in S2
        BY <1>3, <1>10, <3>3
      <4>2. \A d \in S2 : d <= e
        BY <1>3, <1>4, <1>10, <3>3
      <4> QED BY <4>1, <4>2, LatestIs
    <3> QED BY <3>2, <3>4
  <2>2. CASE ~(chain[e].type \in StatusTypes /\ Id(e) = p)
    <3>1. S2 = S
      BY <1>8, <2>2
    <3>2. ~Busy(p, StatusTypes)
      BY <1>12, <2>2
    <3> QED BY <1>6, <3>1, <3>2 DEF StatusCurrent
  <2>3. CASE ~(chain[e].type = "proj_new" \/ created)
    BY <1>8, <1>10, <2>3
  <2> QED BY <2>1, <2>2, <2>3
<1>14. FundsCurrent(p)'
  <2>0. FundsOf(Recorded(p, {"contrib"}))' = FundsOf(F2)
    BY <1>1, <1>7 DEF FundsOf, Data
  <2> SUFFICES ASSUME ~Busy(p, {"contrib"})'
               PROVE  project[p].funds = FundsOf(F2)
    BY <1>1, <2>0 DEF FundsCurrent
  <2>1. CASE chain[e].type = "contrib" /\ Id(e) = p /\ created
    <3>1. project[p].funds = Data(e).totalRaised.v
      BY <1>1, <1>5, <2>1 DEF RunCurrent
    <3>2. F2 = F \cup {e}
      BY <1>9, <2>1
    <3>3. Latest(F2) = e
      <4>1. F2 \subseteq Nat /\ e \in F2
        BY <1>3, <1>10, <3>2
      <4>2. \A d \in F2 : d <= e
        BY <1>3, <1>4, <1>10, <3>2
      <4> QED BY <4>1, <4>2, LatestIs
    <3> QED BY <3>1, <3>2, <3>3 DEF FundsOf
  <2>2. CASE ~(chain[e].type = "contrib" /\ Id(e) = p)
    <3>1. F2 = F
      BY <1>9, <2>2
    <3>2. ~Busy(p, {"contrib"})
      BY <1>12, <2>2
    <3> QED BY <1>6, <3>1, <3>2 DEF FundsCurrent
  <2>3. CASE ~created
    <3>1. F2 = {}
      BY <1>9, <1>10, <2>3
    <3>2. project[p].funds = 0
      BY <2>3 DEF NoFunds, created, Creation
    <3> QED BY <3>1, <3>2 DEF FundsOf
  <2> QED BY <2>1, <2>2, <2>3
<1> QED BY <1>11, <1>13, <1>14

LEMMA CurrentStep ==
    ASSUME HandlersInv, PresenceInv, CurrentInv, [Next]_vars
    PROVE  CurrentInv'
<1>1. chain' = chain
  BY ChainStays
<1>2. \A d : Handled(d)' = Handled(d)
  BY <1>1, SameData
<1>3. NobodyPassed' => NobodyPassed
  BY <1>2, Growing DEF NobodyPassed
<1>4. ASSUME NobodyPassed, NEW p \in ProjectIds
      PROVE  NoFunds(p)' /\ StatusCurrent(p)' /\ FundsCurrent(p)'
  <2>1. NoFunds(p) /\ StatusCurrent(p) /\ FundsCurrent(p) /\ CreationRan /\ RunCurrent
    BY <1>4 DEF CurrentInv
  <2>2. CASE done' = done /\ project'[p] = project[p]
    BY <2>1, <2>2, CurrentKept
  <2>3. ASSUME NEW e \in Events, UpsertProject(e), Id(e) = p
        PROVE  NoFunds(p)' /\ StatusCurrent(p)' /\ FundsCurrent(p)'
    <3>1. /\ Doing(e, "upsertProject") /\ chain[e].type = "proj_new" /\ project'[p].funds = project[p].funds
          /\ done' = done
      BY <2>3, UpsertProjectWrites DEF Proceeded, delivery
    <3>2. Busy(p, StatusTypes)
      BY <2>3, <3>1, DoingFacts DEF Busy, StatusTypes
    <3> QED BY <2>1, <3>1, <3>2, CurrentKept
  <2>4. ASSUME NEW e \in Events, UpdateStatus(e), Id(e) = p
        PROVE  NoFunds(p)' /\ StatusCurrent(p)' /\ FundsCurrent(p)'
    <3>1. /\ Doing(e, "updateStatus") /\ chain[e].type \in {"proj_done", "proj_fail"}
          /\ project'[p].funds = project[p].funds /\ done' = done
      BY <2>4, UpdateStatusWrites DEF Proceeded, delivery
    <3>2. Busy(p, StatusTypes)
      BY <2>4, <3>1, DoingFacts DEF Busy, StatusTypes
    <3> QED BY <2>1, <3>1, <3>2, CurrentKept
  <2>5. ASSUME NEW e \in Events, UpdateFunds(e), Id(e) = p
        PROVE  NoFunds(p)' /\ StatusCurrent(p)' /\ FundsCurrent(p)'
    <3>1. /\ Doing(e, "updateFunds") /\ chain[e].type = "contrib"
          /\ project'[p].status = project[p].status /\ done' = done
      BY <2>5, UpdateFundsWrites DEF Proceeded, delivery
    <3>2. e \notin done /\ runs[e] > 0 /\ run.event = e /\ Step(run.todo) = "updateFunds"
      BY <3>1, DoingFacts
    <3>3. Busy(p, {"contrib"})
      BY <2>5, <3>1, <3>2 DEF Busy
    <3>4. Present(p)
      BY <2>5, <3>1, <3>2 DEF PresenceInv
    <3>5. PICK d \in Events : runs[d] > 0 /\ chain[d].type = "proj_new" /\ Id(d) = p
      BY <2>1, <3>4 DEF CreationRan
    <3>6. d \in done
      <4>1. d \in Nat /\ e \in Nat /\ d \in Event /\ e \in Event /\ Handled(d) /\ Handled(e) /\ d # e
        BY <3>1, <3>2, <3>5, ChainTypes DEF HandlersInv, Tables, Delivered
      <4>2. CASE d < e
        BY <1>4, <3>2, <4>1, <4>2 DEF HandlersInv, Delivered, NobodyPassed
      <4>3. CASE e < d
        BY <1>4, <3>2, <3>5, <4>1, <4>3 DEF HandlersInv, Delivered, NobodyPassed
      <4> QED BY <4>1, <4>2, <4>3
    <3>7. NoFunds(p)'
      <4>1. d \in done' /\ chain'[d].type = "proj_new" /\ Id(d)' = p
        BY <1>1, <3>1, <3>5, <3>6, SameData
      <4> QED BY <4>1 DEF NoFunds
    <3> QED BY <2>1, <3>1, <3>3, <3>7, CurrentKept
  <2>6. ASSUME NEW e \in Events, HandlerStep(e), ~End(e)
        PROVE  done' = done
    BY <2>6 DEF HandlerStep, Begin, Throw, PassOver, UpsertUser, UpsertProject, FindProject,
        UpsertContribution, UpdateFunds, UpdateMilestones, UpdateTrustScore, AdjustReputation,
        UpdateStatus, Run, Pass, delivery
  <2>7. ASSUME NEW e \in Events, HandlerStep(e), project'[p] # project[p]
        PROVE  Id(e) = p /\ (UpsertProject(e) \/ UpdateFunds(e) \/ UpdateStatus(e))
    <3>1. UpsertProject(e) \/ UpdateFunds(e) \/ UpdateStatus(e)
      BY <2>7 DEF HandlerStep, Begin, End, Throw, PassOver, UpsertUser, FindProject,
        UpsertContribution, UpdateMilestones, UpdateTrustScore, AdjustReputation, tables
    <3> QED BY <2>7, <3>1, UpsertProjectWrites, UpdateFundsWrites, UpdateStatusWrites DEF ProjectWritten
  <2>8. Aside => done' = done /\ project' = project
    BY DEF Aside, delivery
  <2> QED BY <1>4, <2>1, <2>2, <2>3, <2>4, <2>5, <2>6, <2>7, <2>8, CurrentEnd, Asides DEF HandlersInv
<1>5. CreationRan' /\ RunCurrent'
  BY CreationRanStep, RunCurrentStep DEF CurrentInv
<1> QED BY <1>3, <1>4, <1>5 DEF CurrentInv

LEMMA CurrentInit == Init => CurrentInv
<1> SUFFICES ASSUME Init PROVE CurrentInv
  OBVIOUS
<1>1. /\ chain \in Chains /\ run = NoRun /\ done = {} /\ project = [p \in ProjectIds |-> NoProject]
  BY DEF Init, HandlersInit, DeliveryInit
<1>2. \A e \in Events : e # 0
  BY <1>1, ChainTypes
<1>3. CreationRan /\ RunCurrent
  BY <1>1, <1>2 DEF CreationRan, RunCurrent, Present, NoRun
<1>4. ASSUME NEW p \in ProjectIds PROVE NoFunds(p) /\ StatusCurrent(p) /\ FundsCurrent(p)
  <2>1. \A types : Recorded(p, types) = {}
    BY <1>1, RecordedNow DEF Rec
  <2>2. project[p].funds = 0
    BY <1>1 DEF NoProject
  <2> QED BY <2>1, <2>2 DEF NoFunds, StatusCurrent, FundsCurrent, FundsOf
<1> QED BY <1>3, <1>4 DEF CurrentInv

\* While no event with a handler was passed over, the row of a project has the
\* status and the funds that the latest recorded events give it, however often
\* handlers threw half way and ran again.
THEOREM Projects == Spec => []ProjectsCurrent
<1>1. ASSUME HandlersInv, CurrentInv PROVE ProjectsCurrent
  <2> SUFFICES ASSUME Undisturbed, NEW p \in ProjectIds, NEW S, NEW F,
                      S = Recorded(p, StatusTypes), F = Recorded(p, {"contrib"}), S # {},
                      {e \in Events \ done : runs[e] > 0 /\ Handled(e)
                                             /\ chain[e].type # "claim" /\ Id(e) = p} = {}
               PROVE  /\ project[p].status = StatusOf(chain[Latest(S)].type)
                      /\ project[p].funds = FundsOf(F)
    BY DEF ProjectsCurrent, StatusTypes, StatusOf, FundsOf
  <2>1. NobodyPassed
    BY DEF Undisturbed, NobodyPassed
  <2>2. ~Busy(p, StatusTypes) /\ ~Busy(p, {"contrib"})
    BY <1>1 DEF Busy, StatusTypes, HandlersInv, Delivered
  <2> QED BY <1>1, <2>1, <2>2 DEF CurrentInv, StatusCurrent, FundsCurrent
<1>2. EventsInv /\ CurrentInv /\ [Next]_vars => (EventsInv /\ CurrentInv)'
  BY EventsStep, CurrentStep DEF EventsInv
<1>3. EventsInv /\ CurrentInv => ProjectsCurrent
  BY <1>1 DEF EventsInv
<1> QED BY EventsInit, CurrentInit, <1>2, <1>3, PTL DEF Spec

-----------------------------------------------------------------------------
\* The project that a payload names

\* The project of an event is read from its payload.
LEMMA IdDecoded ==
    ASSUME chain \in Chains, NEW e \in Events, Handled(e), chain[e].type # "claim"
    PROVE  Id(e) = ProjectId(AsObject(chain[e].value)).v
<1> DEFINE t == chain[e].type
           o == AsObject(chain[e].value)
<1>1. t \in Kinds
  BY HandledKinds DEF Handled
<1>2. chain[e].value.shape # "invalid"
  BY DEF Handled, IsQuarantined, Data, Decode, Quarantined
<1>3. Data(e) = Decoders(t, o)
  BY <1>2 DEF Data, Decode
<1> HIDE DEF t, o
<1>4. /\ t = "proj_new" => Data(e) = DecodeProjectCreated(o)
      /\ t = "contrib" => Data(e) = DecodeContributionMade(o)
  BY <1>3, Zenon DEF Decoders
<1>5. /\ t = "m_apprv" => Data(e) = DecodeMilestoneApproved(o)
      /\ t = "m_reject" => Data(e) = DecodeMilestoneRejected(o)
  BY <1>3, Zenon DEF Decoders
<1>6. /\ t = "release" => Data(e) = DecodeFundsReleased(o)
      /\ t \in {"proj_done", "proj_fail"} => Data(e) = DecodeProjectStatus(o)
  BY <1>3, Zenon DEF Decoders
<1>7. Data(e) \in {DecodeProjectCreated(o), DecodeContributionMade(o), DecodeMilestoneApproved(o),
                   DecodeMilestoneRejected(o), DecodeFundsReleased(o), DecodeProjectStatus(o)}
  BY <1>1, <1>4, <1>5, <1>6 DEF Kinds, t
<1>8. Data(e).projectId = ProjectId(o)
  BY <1>7 DEF DecodeProjectCreated, DecodeContributionMade, DecodeMilestoneApproved,
              DecodeMilestoneRejected, DecodeFundsReleased, DecodeProjectStatus
<1> QED BY <1>8 DEF Id, o

\* The project of an event is the one its payload names, or one that its id is
\* rounded to when a number cannot hold it.
LEMMA IdNamed ==
    ASSUME chain \in Chains, NEW e \in Events, Handled(e), chain[e].type # "claim"
    PROVE  \/ Id(e) = NamedId(e)
           \/ Rounded(NamedId(e), Id(e))
<1> DEFINE o == AsObject(chain[e].value)
           Numeric == {"bigint", "number", "digits"}
           named == NamedId(e)
<1>1. \A k \in DOMAIN o : o[k] \in NativeValue
  BY ChainTypes
<1>2. \A k \in DOMAIN o : o[k].kind \in NativeKinds /\ o[k].v \in Content /\ o[k] # None
  BY <1>1 DEF NativeValue, NativeKinds, None, Native
<1>3. Id(e) = Num(Either(o, "project_id", "id")).v
  BY IdDecoded DEF ProjectId
<1>4. \A x : Num(x).v = CASE x.kind \in {"bigint", "digits"} -> ToNumber(x.v)
                          [] x.kind = "number" -> x.v
                          [] OTHER -> 0
  BY DEF Num, Number
<1>5. NamedId(e) = LET keys == {k \in {"project_id", "id"} : Field(o, k).kind \in Numeric}
                   IN IF "project_id" \in keys THEN o["project_id"].v
                      ELSE IF Field(o, "project_id") = None /\ "id" \in keys THEN o["id"].v ELSE 0
  BY DEF NamedId
<1>6. \A k : Field(o, k) = IF k \in DOMAIN o THEN o[k] ELSE None
  BY DEF Field
<1>7. None.kind = "none"
  BY DEF None, Native
<1> HIDE DEF o
<1>8. \A k : Field(o, k).kind \in Numeric => k \in DOMAIN o
  BY <1>6, <1>7
<1>9. PICK x : x = Either(o, "project_id", "id")
  OBVIOUS
<1>10. \/ x.kind \in Numeric /\ x.v \in Content /\ NamedId(e) = x.v
       \/ x.kind \notin Numeric /\ NamedId(e) = 0
  <2>1. CASE Field(o, "project_id") # None
    <3>1. x = Field(o, "project_id") /\ "project_id" \in DOMAIN o /\ x = o["project_id"]
      BY <1>6, <1>9, <2>1 DEF Either
    <3> QED BY <1>2, <1>5, <2>1, <3>1
  <2>2. CASE Field(o, "project_id") = None
    <3>1. x = Field(o, "id") /\ Field(o, "project_id").kind \notin Numeric
      BY <1>7, <1>9, <2>2 DEF Either
    <3>2. CASE x.kind \in Numeric
      <4>1. x = o["id"] /\ "id" \in DOMAIN o
        BY <1>6, <1>8, <3>1, <3>2
      <4> QED BY <1>2, <1>5, <2>2, <3>1, <3>2, <4>1
    <3>3. CASE x.kind \notin Numeric
      BY <1>5, <2>2, <3>1, <3>3
    <3> QED BY <3>2, <3>3
  <2> QED BY <2>1, <2>2
<1>11. PICK v : v = x.v
  OBVIOUS
<1>12. CASE x.kind \in {"bigint", "digits"}
  <2>1. v \in Content /\ NamedId(e) = v /\ Id(e) = ToNumber(v)
    BY <1>3, <1>4, <1>9, <1>10, <1>11, <1>12
  <2> QED BY <2>1, ToNumberNear
<1>13. CASE x.kind \notin {"bigint", "digits"}
  BY <1>3, <1>4, <1>9, <1>10, <1>13
<1> QED BY <1>12, <1>13

\* A step changes no project and no milestones but those that the event at hand
\* names, or the one that an id is rounded to when a number cannot hold it.
THEOREM Touches == Spec => TouchesNamedProject
<1>1. ASSUME HandlersInv, [Next]_vars, NEW p \in ProjectIds,
             project'[p] # project[p] \/ milestone'[p] # milestone[p]
      PROVE  /\ run.event # 0
             /\ \/ NamedId(run.event) = p
                \/ Rounded(NamedId(run.event), p)
  <2>1. ~Aside
    BY <1>1 DEF Aside
  <2>2. PICK e \in Events : HandlerStep(e)
    BY <1>1, <2>1, Asides DEF HandlersInv
  <2>3. UpsertProject(e) \/ UpdateFunds(e) \/ UpdateMilestones(e) \/ UpdateStatus(e)
    BY <1>1, <2>2 DEF HandlerStep, Begin, End, Throw, PassOver, UpsertUser, FindProject,
        UpsertContribution, UpdateTrustScore, AdjustReputation, tables
  <2>4. ASSUME NEW s, Doing(e, s) PROVE run.event = e /\ Handled(e)
    BY <1>1, <2>4, DoingFacts
  <2>5. Id(e) = p /\ run.event = e /\ Handled(e) /\ chain[e].type # "claim"
    <3>1. CASE UpsertProject(e)
      BY <1>1, <2>4, <3>1, UpsertProjectWrites DEF ProjectWritten
    <3>2. CASE UpdateFunds(e)
      BY <1>1, <2>4, <3>2, UpdateFundsWrites DEF ProjectWritten
    <3>3. CASE UpdateMilestones(e)
      BY <1>1, <2>4, <3>3, UpdateMilestonesWrites DEF Decisions
    <3>4. CASE UpdateStatus(e)
      BY <1>1, <2>4, <3>4, UpdateStatusWrites DEF ProjectWritten
    <3> QED BY <2>3, <3>1, <3>2, <3>3, <3>4
  <2>6. e # 0 /\ chain \in Chains
    BY <1>1, ChainTypes DEF HandlersInv, Tables
  <2> QED BY <2>5, <2>6, IdNamed
<1>2. HandlersInv /\ [Next]_vars =>
         [\A p \in ProjectIds :
             project'[p] # project[p] \/ milestone'[p] # milestone[p] =>
                 /\ run.event # 0
                 /\ \/ NamedId(run.event) = p
                    \/ Rounded(NamedId(run.event), p)]_handlerVars
  BY <1>1
<1>3. HandlersInv /\ [Next]_vars => HandlersInv'
  BY HandlersStepInv
<1> QED BY HandlersInitInv, <1>2, <1>3, PTL DEF Spec, TouchesNamedProject

-----------------------------------------------------------------------------
\* Trust scores

Score(w) == CalculateTrustScore(ProjectsOf(w), MilestonesOf(w))
Scoring == {"claim"} \cup Decisions

\* The event has to do with w, or with a project of w.
Concerns(e, w) == IF chain[e].type = "claim" THEN Wallet(e) = w ELSE Id(e) \in OwnedBy(w)

\* Creators and claimers have a row, once the handler has upserted it.
UsersKnown ==
    /\ \A p \in ProjectIds : Present(p) => project[p].creator \in DOMAIN trust
    /\ \A e \in done : chain[e].type = "claim" => Wallet(e) \in DOMAIN trust
    /\ \A e \in Events :
          run.event = e /\ chain[e].type \in {"proj_new", "claim"} /\ Step(run.todo) # "upsertUser" =>
              Wallet(e) \in DOMAIN trust

\* A handler that has updated a score leaves it as it is until it is recorded.
RunFresh ==
    \A e \in Events : run.event = e =>
        /\ chain[e].type = "claim" /\ Step(run.todo) = "end" => trust[Wallet(e)] = Score(Wallet(e))
        /\ /\ chain[e].type \in Decisions /\ Step(run.todo) \in {"adjustReputation", "end"}
           /\ Present(Id(e))
           => trust[project[Id(e)].creator] = Score(project[Id(e)].creator)

\* The score of w is the one his projects give now, unless a handler is at an
\* event about him or the latest one changes no score.
FreshFor(w) ==
    /\ \A e \in Events : runs[e] > 0 /\ Concerns(e, w) => e \in done
    /\ RecordedAbout(w) # {} /\ chain[Latest(RecordedAbout(w))].type \in Scoring
    => trust[w] = Score(w)

FreshInv ==
    /\ UsersKnown /\ RunFresh
    /\ NobodyPassed => \A w \in DOMAIN trust : FreshFor(w)

\* Rows of users stay, and one score changes at a time.
LEMMA TrustMoves ==
    ASSUME HandlersInv, [Next]_vars
    PROVE  /\ DOMAIN trust \subseteq DOMAIN trust'
           /\ \/ \A w \in DOMAIN trust : trust'[w] = trust[w]
              \/ \E e \in Events : UpdateTrustScore(e)
           /\ DOMAIN trust' = DOMAIN trust \/ \E e \in Events : UpsertUser(e)
<1>1. CASE trust' = trust
  BY <1>1
<1>2. ASSUME NEW e \in Events, HandlerStep(e), trust' # trust PROVE UpsertUser(e) \/ UpdateTrustScore(e)
  BY <1>2 DEF HandlerStep, Begin, End, Throw, PassOver, UpsertProject, FindProject, UpsertContribution,
      UpdateFunds, UpdateMilestones, AdjustReputation, UpdateStatus, tables
<1>3. ASSUME NEW e \in Events, UpsertUser(e)
      PROVE  DOMAIN trust \subseteq DOMAIN trust' /\ \A w \in DOMAIN trust : trust'[w] = trust[w]
  BY <1>3, UpsertUserWrites
<1>4. ASSUME NEW e \in Events, UpdateTrustScore(e)
      PROVE  DOMAIN trust' = DOMAIN trust
  BY <1>4, UpdateTrustScoreWrites
<1>5. Aside => trust' = trust
  BY DEF Aside
<1> QED BY <1>1, <1>2, <1>3, <1>4, <1>5, Asides DEF HandlersInv

\* The rows of a project change while a handler is at an event for it, and then
\* the project is there.
LEMMA RowMoves ==
    ASSUME HandlersInv, PresenceInv, [Next]_vars, NEW p \in ProjectIds,
           project'[p] # project[p] \/ milestone'[p] # milestone[p]
    PROVE  \E e \in Events : /\ Id(e) = p /\ chain[e].type # "claim" /\ runs[e] > 0 /\ e \notin done
                             /\ done' = done
                             /\ Present(p) \/ UpsertProject(e)
<1>1. ~Aside
  BY DEF Aside
<1>2. PICK e \in Events : HandlerStep(e)
  BY <1>1, Asides DEF HandlersInv
<1>3. UpsertProject(e) \/ UpdateFunds(e) \/ UpdateMilestones(e) \/ UpdateStatus(e)
  BY <1>2 DEF HandlerStep, Begin, End, Throw, PassOver, UpsertUser, FindProject,
      UpsertContribution, UpdateTrustScore, AdjustReputation, tables
<1>4. ASSUME NEW s, Doing(e, s) PROVE run.event = e /\ Step(run.todo) = s /\ runs[e] > 0 /\ e \notin done
  BY <1>4, DoingFacts
<1>5. Proceeded(e) => done' = done
  BY DEF Proceeded, delivery
<1>6. CASE UpsertProject(e)
  BY <1>4, <1>5, <1>6, UpsertProjectWrites DEF ProjectWritten
<1>7. CASE UpdateFunds(e)
  <2>1. Id(e) = p /\ Doing(e, "updateFunds") /\ chain[e].type = "contrib" /\ Proceeded(e)
    BY <1>7, UpdateFundsWrites DEF ProjectWritten
  <2>2. Present(p)
    BY <1>4, <2>1 DEF PresenceInv
  <2> QED BY <1>4, <1>5, <2>1, <2>2
<1>8. CASE UpdateMilestones(e)
  <2>1. /\ Id(e) = p /\ Doing(e, "updateMilestones") /\ chain[e].type \in {"release"} \cup Decisions
        /\ Proceeded(e)
    BY <1>8, UpdateMilestonesWrites
  <2>2. Present(p)
    BY <1>4, <2>1 DEF PresenceInv
  <2> QED BY <1>4, <1>5, <2>1, <2>2 DEF Decisions
<1>9. CASE UpdateStatus(e)
  BY <1>4, <1>5, <1>9, UpdateStatusWrites DEF ProjectWritten
<1> QED BY <1>3, <1>6, <1>7, <1>8, <1>9

\* The creator of a project stays.
LEMMA CreatorStays ==
    ASSUME HandlersInv, PresenceInv, [Next]_vars, NEW p \in ProjectIds, Present(p)
    PROVE  project'[p].creator = project[p].creator
<1>1. CASE project'[p] = project[p]
  BY <1>1
<1>2. CASE project'[p] # project[p]
  <2>1. ~Aside
    BY <1>2 DEF Aside
  <2>2. PICK e \in Events : HandlerStep(e)
    BY <2>1, Asides DEF HandlersInv
  <2>3. UpsertProject(e) \/ UpdateFunds(e) \/ UpdateStatus(e)
    BY <1>2, <2>2 DEF HandlerStep, Begin, End, Throw, PassOver, UpsertUser, FindProject,
        UpsertContribution, UpdateMilestones, UpdateTrustScore, AdjustReputation, tables
  <2>4. CASE UpsertProject(e)
    BY <1>2, <2>4, UpsertProjectWrites DEF ProjectWritten
  <2>5. CASE UpdateFunds(e)
    BY <1>2, <2>5, UpdateFundsWrites DEF ProjectWritten
  <2>6. CASE UpdateStatus(e)
    BY <1>2, <2>6, UpdateStatusWrites DEF ProjectWritten
  <2> QED BY <2>3, <2>4, <2>5, <2>6
<1> QED BY <1>1, <1>2

LEMMA UsersKnownStep ==
    ASSUME HandlersInv, PresenceInv, UsersKnown, [Next]_vars
    PROVE  UsersKnown'
<1>1. chain' = chain
  BY ChainStays
<1>2. Events' = Events /\ (\A d : Id(d)' = Id(d)) /\ (\A d : Wallet(d)' = Wallet(d))
  BY <1>1, SameData
<1>3. DOMAIN trust \subseteq DOMAIN trust'
  BY TrustMoves
<1>4. ASSUME NEW p \in ProjectIds, Present(p)' PROVE project'[p].creator \in DOMAIN trust'
  <2>1. CASE Present(p)
    BY <1>3, <2>1, CreatorStays DEF UsersKnown
  <2>2. CASE ~Present(p)
    <3>1. project'[p] # project[p]
      BY <1>4, <2>2 DEF Present
    <3>2. PICK e \in Events : UpsertProject(e) /\ Id(e) = p
      BY <2>2, <3>1, RowMoves
    <3>3. Doing(e, "upsertProject") /\ chain[e].type = "proj_new" /\ project'[p].creator = Wallet(e)
      BY <2>2, <3>2, UpsertProjectWrites
    <3>4. run.event = e /\ Step(run.todo) = "upsertProject"
      BY <3>3, DoingFacts
    <3> QED BY <1>3, <3>3, <3>4 DEF UsersKnown
  <2> QED BY <2>1, <2>2
<1>5. ASSUME NEW e \in done', chain[e].type = "claim" PROVE Wallet(e) \in DOMAIN trust'
  <2>1. CASE e \in done
    BY <1>3, <1>5, <2>1 DEF UsersKnown
  <2>2. CASE e \notin done
    <3>1. PICK d \in Events : End(d)
      BY <1>5, <2>2, RunMoves DEF Begin, Run, Proceeded, delivery
    <3>2. e = d /\ run.event = e /\ Step(run.todo) = "end"
      BY <1>5, <2>2, <3>1 DEF End, Finish, Step
    <3> QED BY <1>3, <1>5, <3>1, <3>2 DEF UsersKnown
  <2> QED BY <2>1, <2>2
<1>6. ASSUME NEW e \in Events, run'.event = e, chain[e].type \in {"proj_new", "claim"},
             Step(run'.todo) # "upsertUser"
      PROVE  Wallet(e) \in DOMAIN trust'
  <2>1. e # 0
    BY ChainTypes DEF HandlersInv, Tables
  <2>2. CASE run' = run
    BY <1>3, <1>6, <2>2 DEF UsersKnown
  <2>3. run' # NoRun
    BY <1>6, <2>1 DEF NoRun
  <2>4. ASSUME NEW d \in Events, Begin(d) PROVE FALSE
    <3>1. PICK td : td = Handlers[chain[d].type]
      OBVIOUS
    <3>2. Handled(d) /\ run' = [event |-> d, todo |-> td]
      BY <2>4, <3>1 DEF Begin
    <3>3. d = e /\ run'.todo = td
      BY <1>6, <3>2
    <3>4. chain[d].type \in Kinds
      BY <3>2, HandledData DEF HandlersInv, Tables
    <3> QED BY <1>6, <3>1, <3>3, <3>4, FirstStep DEF Decisions
  <2>5. ASSUME NEW d \in Events, Doing(d, "findProject"), run' = [event |-> d, todo |-> <<>>] PROVE FALSE
    <3>1. d = e /\ After(chain[d].type, "findProject", Step(Tail(run.todo)))
      BY <1>6, <2>5, DoingFacts
    <3> QED BY <1>6, <3>1 DEF After, Decisions
  <2>6. ASSUME NEW d \in Events, NEW s, Doing(d, s), Proceeded(d), s = "upsertUser" => UpsertUser(d)
        PROVE  Wallet(e) \in DOMAIN trust'
    <3>1. d = e /\ run.event = e /\ Step(run.todo) = s
      BY <1>6, <2>6, AfterStep
    <3>2. CASE s = "upsertUser"
      BY <2>6, <3>1, <3>2, UpsertUserWrites
    <3>3. CASE s # "upsertUser"
      BY <1>3, <1>6, <3>1, <3>3 DEF UsersKnown
    <3> QED BY <3>2, <3>3
  <2> QED BY <2>2, <2>3, <2>4, <2>5, <2>6, RunMoves DEF End
<1> QED BY <1>1, <1>2, <1>4, <1>5, <1>6 DEF UsersKnown

\* The score of w depends on the rows of his projects alone.
LEMMA ScoreSame ==
    ASSUME NEW w, OwnedBy(w)' = OwnedBy(w),
           \A p \in OwnedBy(w) : project'[p] = project[p] /\ milestone'[p] = milestone[p]
    PROVE  Score(w)' = Score(w)
<1>1. ProjectsOf(w)' = ProjectsOf(w)
  BY DEF ProjectsOf
<1>2. MilestonesOf(w)' = MilestonesOf(w)
  BY DEF MilestonesOf
<1> QED BY <1>1, <1>2 DEF Score

\* ... so it stays when the rows do.
LEMMA ScoreStays ==
    ASSUME UNCHANGED <<project, milestone>>
    PROVE  \A w : Score(w)' = Score(w)
<1>1. \A w : OwnedBy(w)' = OwnedBy(w)
  BY DEF OwnedBy, Present
<1> QED BY <1>1, ScoreSame

LEMMA RunFreshStep ==
    ASSUME HandlersInv, PresenceInv, RunFresh, [Next]_vars
    PROVE  RunFresh'
<1>1. chain' = chain
  BY ChainStays
<1>2. Events' = Events /\ (\A d : Id(d)' = Id(d)) /\ (\A d : Wallet(d)' = Wallet(d))
  BY <1>1, SameData
<1>3. \A f \in Events : f # 0
  BY ChainTypes DEF HandlersInv, Tables
<1> DEFINE AtClaim(f) == chain[f].type = "claim" /\ Step(run'.todo) = "end"
           AtDecision(f) == /\ chain[f].type \in Decisions /\ Step(run'.todo) \in {"adjustReputation", "end"}
                            /\ project'[Id(f)] # NoProject
<1>4. ASSUME \A f \in Events : run'.event = f => ~AtClaim(f) /\ ~AtDecision(f)
      PROVE  RunFresh'
  <2> SUFFICES ASSUME NEW f \in Events, run'.event = f
               PROVE  ~(chain'[f].type = "claim" /\ Step(run'.todo) = "end")
                      /\ ~(/\ chain'[f].type \in Decisions /\ Step(run'.todo) \in {"adjustReputation", "end"}
                           /\ Present(Id(f))')
    BY <1>2 DEF RunFresh
  <2>1. Present(Id(f))' => project'[Id(f)] # NoProject
    BY <1>2 DEF Present
  <2> QED BY <1>1, <1>4, <2>1
<1>5. CASE Aside
  <2>1. run' = run /\ trust' = trust
    BY <1>5 DEF Aside
  <2>2. ASSUME NEW f \in Events PROVE Present(Id(f))' = Present(Id(f))
                                      /\ (project[Id(f)].creator)' = project[Id(f)].creator
                                      /\ (Score(Wallet(f)))' = Score(Wallet(f))
                                      /\ (Score(project[Id(f)].creator))' = Score(project[Id(f)].creator)
    BY <1>1, <1>5 DEF Present, Id, Data, Wallet, Score, ProjectsOf, MilestonesOf, OwnedBy, Aside
  <2> QED BY <1>1, <1>2, <2>1, <2>2 DEF RunFresh
<1>6. CASE run' = NoRun
  BY <1>3, <1>4, <1>6 DEF NoRun
<1>7. ASSUME NEW e \in Events, HandlerStep(e), run' # NoRun PROVE RunFresh'
  <2>1. CASE Begin(e)
    <3>1. PICK td : td = Handlers[chain[e].type]
      OBVIOUS
    <3>2. Handled(e) /\ run' = [event |-> e, todo |-> td]
      BY <2>1, <3>1 DEF Begin
    <3>3. run'.event = e /\ run'.todo = td
      BY <3>2
    <3>4. chain[e].type \in Kinds
      BY <3>2, HandledData DEF HandlersInv, Tables
    <3>5. Step(td) \notin {"adjustReputation", "end"}
      BY <3>1, <3>4, FirstStep
    <3> QED BY <1>4, <3>3, <3>5
  <2>2. ASSUME NEW s, Doing(e, s), Proceeded(e), s \notin {"updateTrustScore", "adjustReputation"}
        PROVE  RunFresh'
    <3>1. run'.event = e /\ After(chain[e].type, s, Step(run'.todo))
      BY <2>2, AfterStep
    <3>2. ~AtClaim(e) /\ ~AtDecision(e)
      BY <2>2, <3>1 DEF After, Decisions
    <3> QED BY <1>4, <3>1, <3>2
  <2>3. CASE UpsertUser(e)
    BY <2>2, <2>3, UpsertUserWrites
  <2>4. CASE UpsertContribution(e)
    BY <2>2, <2>4, UpsertContributionWrites
  <2>5. CASE UpdateMilestones(e)
    BY <2>2, <2>5, UpdateMilestonesWrites
  <2>6. CASE UpsertProject(e)
    BY <2>2, <2>6, UpsertProjectWrites
  <2>7. CASE UpdateFunds(e)
    BY <2>2, <2>7, UpdateFundsWrites
  <2>8. CASE UpdateStatus(e)
    BY <2>2, <2>8, UpdateStatusWrites
  <2>9. CASE FindProject(e)
    <3>1. CASE Present(Id(e))
      BY <2>2, <2>9, <3>1, FindProjectWrites
    <3>2. CASE ~Present(Id(e))
      <4>1. run' = [event |-> e, todo |-> <<>>] /\ project' = project
            /\ chain[e].type \in {"contrib", "release"} \cup Decisions
        BY <2>9, <3>2, FindProjectWrites DEF tables
      <4>2. run'.event = e /\ project'[Id(e)] = NoProject /\ chain[e].type # "claim"
        BY <3>2, <4>1 DEF Present, Decisions
      <4> QED BY <1>4, <4>2
    <3> QED BY <3>1, <3>2
  <2>10. CASE UpdateTrustScore(e)
    <3>1. /\ Doing(e, "updateTrustScore") /\ Proceeded(e)
          /\ trust'[Subject(e)] = Score(Subject(e)) /\ UNCHANGED <<project, milestone>>
      BY <2>10, UpdateTrustScoreWrites DEF Score
    <3>2. run'.event = e
      BY <3>1, AfterStep
    <3>3. PICK w, c : w = Wallet(e) /\ c = project[Id(e)].creator
      OBVIOUS
    <3>4. Score(w)' = Score(w) /\ Score(c)' = Score(c)
      BY <3>1, ScoreStays
    <3>5. chain[e].type = "claim" => trust'[w] = Score(w)'
      BY <3>1, <3>3, <3>4 DEF Subject
    <3>6. chain[e].type \in Decisions => trust'[c] = Score(c)'
      BY <3>1, <3>3, <3>4 DEF Subject, Decisions
    <3>7. (Wallet(e))' = w /\ (project[Id(e)].creator)' = c
      BY <1>1, <3>1, <3>3 DEF Wallet, Id, Data
    <3>8. (Score(Wallet(e)))' = Score(w)' /\ (Score(project[Id(e)].creator))' = Score(c)'
      BY <3>7 DEF Score, ProjectsOf, MilestonesOf, OwnedBy
    <3> QED BY <1>1, <1>2, <3>2, <3>5, <3>6, <3>7, <3>8 DEF RunFresh
  <2>11. CASE AdjustReputation(e)
    <3>1. /\ Doing(e, "adjustReputation") /\ Proceeded(e) /\ chain[e].type \in {"contrib"} \cup Decisions
          /\ project' = project /\ milestone' = milestone /\ trust' = trust
      BY <2>11, AdjustReputationWrites DEF tables
    <3>2. run.event = e /\ Step(run.todo) = "adjustReputation" /\ run'.event = e
      BY <3>1, AfterStep
    <3>3. PICK c : c = project[Id(e)].creator
      OBVIOUS
    <3>4. Score(c)' = Score(c)
      BY <3>1, ScoreStays
    <3>5. (project[Id(e)].creator)' = c /\ Present(Id(e))' = Present(Id(e))
      BY <1>1, <3>1, <3>3 DEF Id, Data, Present
    <3>6. (Score(project[Id(e)].creator))' = Score(c)'
      BY <3>5 DEF Score, ProjectsOf, MilestonesOf, OwnedBy
    <3>7. chain[e].type \in Decisions /\ Present(Id(e)) => trust[c] = Score(c)
      BY <3>2, <3>3 DEF RunFresh
    <3>8. chain[e].type # "claim"
      BY <3>1 DEF Decisions
    <3> QED BY <1>1, <1>2, <3>1, <3>2, <3>4, <3>5, <3>6, <3>7, <3>8 DEF RunFresh
  <2>12. CASE End(e) \/ Throw(e) \/ PassOver(e)
    BY <1>7, <2>12 DEF End, Throw, PassOver
  <2> QED BY <1>7, <2>1, <2>3, <2>4, <2>5, <2>6, <2>7, <2>8, <2>9, <2>10, <2>11, <2>12 DEF HandlerStep
<1> QED BY <1>5, <1>6, <1>7, Asides DEF HandlersInv

\* The recorded events about w, for the sets D of recorded events and O of his
\* projects.
Abt(D, O, w) == {e \in D : IF chain[e].type = "claim" THEN Wallet(e) = w ELSE Id(e) \in O}

LEMMA AboutNext ==
    ASSUME chain' = chain, NEW D, D = done', NEW w, NEW O, O = OwnedBy(w)'
    PROVE  /\ RecordedAbout(w)' = Abt(D, O, w)
           /\ \A e : Concerns(e, w)' <=> IF chain[e].type = "claim" THEN Wallet(e) = w ELSE Id(e) \in O
<1>1. \A d : Id(d)' = Id(d) /\ Wallet(d)' = Wallet(d)
  BY SameData
<1> QED BY <1>1 DEF RecordedAbout, Abt, Concerns

\* The record of an event: if it is one about w that changes scores, its handler
\* has just updated his.
LEMMA FreshEnd ==
    ASSUME HandlersInv, PresenceInv, RunFresh, NobodyPassed, NEW e \in Events, End(e),
           NEW w, FreshFor(w)
    PROVE  FreshFor(w)'
<1>1. /\ run.event = e /\ Step(run.todo) = "end" /\ runs[e] > 0 /\ e \notin done
      /\ done' = done \cup {e} /\ UNCHANGED <<chain, runs, project, milestone, trust>>
  BY DEF End, Finish, Step, tables
<1>2. Events' = Events
  BY <1>1, SameData
<1>3. PICK O, D, S, S2 : /\ O = OwnedBy(w) /\ D = done' /\ S = RecordedAbout(w) /\ S2 = RecordedAbout(w)'
  OBVIOUS
<1>4. OwnedBy(w)' = O /\ Score(w)' = Score(w)
  BY <1>1, <1>3, ScoreStays DEF OwnedBy, Present
<1>5. S2 = Abt(D, O, w) /\ \A d : Concerns(d, w)' <=> Concerns(d, w)
  BY <1>1, <1>3, <1>4, AboutNext DEF Concerns
<1>6. S = Abt(done, O, w)
  BY <1>3 DEF RecordedAbout, Abt
<1> SUFFICES ASSUME \A d \in Events : runs[d] > 0 /\ Concerns(d, w) => d \in done \cup {e},
                    S2 # {}, chain[Latest(S2)].type \in Scoring
             PROVE  trust[w] = Score(w)
  BY <1>1, <1>2, <1>3, <1>4, <1>5 DEF FreshFor
<1>7. CASE Concerns(e, w)
  <2>1. S2 \subseteq Nat /\ e \in S2 /\ \A d \in S2 : d <= e
    <3>1. e \in S2 /\ S2 \subseteq done \cup {e}
      BY <1>1, <1>3, <1>5, <1>7 DEF Abt, Concerns
    <3>2. e \in Nat /\ done \subseteq Nat
      BY ChainTypes DEF HandlersInv, Tables
    <3>3. \A d \in done : d < e
      BY <1>1, RunsLast
    <3> QED BY <3>1, <3>2, <3>3
  <2>2. Latest(S2) = e
    BY <2>1, LatestIs
  <2>3. CASE chain[e].type = "claim"
    BY <1>1, <1>7, <2>3 DEF Concerns, RunFresh
  <2>4. CASE chain[e].type \in Decisions
    <3>1. Id(e) \in ProjectIds /\ Present(Id(e)) /\ project[Id(e)].creator = w
      BY <1>7, <2>4 DEF Concerns, OwnedBy, Decisions
    <3> QED BY <1>1, <2>4, <3>1 DEF RunFresh
  <2> QED BY <2>2, <2>3, <2>4 DEF Scoring
<1>8. CASE ~Concerns(e, w)
  <2>1. S2 = S
    BY <1>1, <1>3, <1>5, <1>6, <1>8 DEF Abt, Concerns
  <2>2. \A d \in Events : runs[d] > 0 /\ Concerns(d, w) => d \in done
    BY <1>8
  <2> QED BY <1>3, <2>1, <2>2 DEF FreshFor
<1> QED BY <1>7, <1>8

\* A new user owns nothing and has claimed nothing.
LEMMA FreshNew ==
    ASSUME HandlersInv, UsersKnown, NEW e \in Events, UpsertUser(e), NEW w, w \notin DOMAIN trust
    PROVE  FreshFor(w)'
<1>1. /\ UNCHANGED <<chain, project>> /\ done' = done
  BY UpsertUserWrites DEF Proceeded, delivery
<1>2. OwnedBy(w)' = {}
  BY <1>1 DEF OwnedBy, Present, UsersKnown
<1>3. PICK D : D = done'
  OBVIOUS
<1>4. RecordedAbout(w)' = Abt(D, {}, w)
  BY <1>1, <1>2, <1>3, AboutNext
<1>5. Abt(D, {}, w) = {}
  BY <1>1, <1>3 DEF Abt, UsersKnown
<1> QED BY <1>4, <1>5 DEF FreshFor

\* All other steps: while a handler changes the rows of a project, its event is
\* one about the creator that is not recorded.
LEMMA FreshKept ==
    ASSUME HandlersInv, PresenceInv, [Next]_vars, done' = done,
           NEW w \in DOMAIN trust, FreshFor(w)
    PROVE  FreshFor(w)'
<1>1. chain' = chain
  BY ChainStays
<1>2. Events' = Events
  BY <1>1, SameData
<1>3. \A d \in Events : runs[d] > 0 => runs'[d] > 0
  BY Growing, ChainTypes DEF HandlersInv, Tables
<1>4. PICK O, D : O = OwnedBy(w)' /\ D = done'
  OBVIOUS
<1>5. /\ RecordedAbout(w)' = Abt(D, O, w)
      /\ \A e : Concerns(e, w)' <=> IF chain[e].type = "claim" THEN Wallet(e) = w ELSE Id(e) \in O
  BY <1>1, <1>4, AboutNext
<1>6. O \subseteq ProjectIds
  BY <1>4 DEF OwnedBy
<1>7. CASE \E p \in O : project'[p] # project[p] \/ milestone'[p] # milestone[p]
  <2>1. PICK p \in O : project'[p] # project[p] \/ milestone'[p] # milestone[p]
    BY <1>7
  <2>2. PICK e \in Events : Id(e) = p /\ chain[e].type # "claim" /\ runs[e] > 0 /\ e \notin done
    BY <1>6, <2>1, RowMoves
  <2>3. Concerns(e, w)' /\ e \in Events' /\ runs'[e] > 0 /\ e \notin done'
    BY <1>2, <1>3, <1>5, <2>1, <2>2
  <2> QED BY <2>3 DEF FreshFor
<1>8. CASE \A p \in O : project'[p] = project[p] /\ milestone'[p] = milestone[p]
  <2>1. OwnedBy(w) = O
    <3>1. ASSUME NEW p \in ProjectIds, Present(p), project[p].creator = w
          PROVE  p \in O
      BY <1>4, <3>1, PresentStays, CreatorStays DEF OwnedBy
    <3>2. ASSUME NEW p \in O PROVE p \in OwnedBy(w)
      <4>1. p \in ProjectIds /\ project'[p] # NoProject /\ project'[p].creator = w
        BY <1>4, <3>2 DEF OwnedBy, Present
      <4> QED BY <1>8, <3>2, <4>1 DEF OwnedBy, Present
    <3> QED BY <3>1, <3>2 DEF OwnedBy
  <2>2. Score(w)' = Score(w)
    BY <1>4, <1>8, <2>1, ScoreSame
  <2>3. RecordedAbout(w)' = RecordedAbout(w)
    BY <1>4, <1>5, <2>1 DEF RecordedAbout, Abt
  <2>4. \A e : Concerns(e, w)' <=> Concerns(e, w)
    BY <1>5, <2>1 DEF Concerns
  <2>5. trust'[w] = trust[w] \/ trust'[w] = Score(w)
    <3>1. ASSUME NEW e \in Events, UpdateTrustScore(e)
          PROVE  trust'[w] = trust[w] \/ trust'[w] = Score(w)
      BY <3>1, UpdateTrustScoreWrites DEF Score
    <3> QED BY <3>1, TrustMoves
  <2>6. PICK S : S = RecordedAbout(w)
    OBVIOUS
  <2> QED BY <1>1, <1>2, <1>3, <2>2, <2>3, <2>4, <2>5, <2>6 DEF FreshFor
<1> QED BY <1>7, <1>8

LEMMA FreshStep ==
    ASSUME HandlersInv, PresenceInv, FreshInv, [Next]_vars
    PROVE  FreshInv'
<1>1. chain' = chain
  BY ChainStays
<1>2. NobodyPassed' => NobodyPassed
  BY <1>1, Growing, SameData DEF NobodyPassed
<1>3. ASSUME NobodyPassed', NEW w \in DOMAIN trust' PROVE FreshFor(w)'
  <2>1. CASE w \notin DOMAIN trust
    BY <1>3, <2>1, TrustMoves, FreshNew DEF FreshInv
  <2>2. CASE w \in DOMAIN trust
    <3>1. FreshFor(w) /\ NobodyPassed
      BY <1>2, <1>3, <2>2 DEF FreshInv
    <3>2. done' = done \/ \E e \in Events : End(e)
      BY RunMoves DEF Begin, Run, Proceeded, delivery
    <3> QED BY <2>2, <3>1, <3>2, FreshEnd, FreshKept DEF FreshInv
  <2> QED BY <2>1, <2>2
<1> QED BY <1>3, UsersKnownStep, RunFreshStep DEF FreshInv

LEMMA FreshInit == Init => FreshInv
<1> SUFFICES ASSUME Init PROVE FreshInv
  OBVIOUS
<1>1. /\ chain \in Chains /\ run = NoRun /\ done = {} /\ project = [p \in ProjectIds |-> NoProject]
      /\ trust = << >>
  BY DEF Init, HandlersInit, DeliveryInit
<1>2. \A e \in Events : e # 0
  BY <1>1, ChainTypes
<1>3. UsersKnown /\ RunFresh
  BY <1>1, <1>2 DEF UsersKnown, RunFresh, Present, NoRun
<1>4. DOMAIN trust = {}
  BY <1>1
<1> QED BY <1>3, <1>4 DEF FreshInv

\* When the latest recorded event about a user is one that updates scores and no
\* event waits for another run, the score of the user is the one his projects
\* give now.
THEOREM TrustScores == Spec => []TrustScoreFresh
<1>1. ASSUME HandlersInv, FreshInv PROVE TrustScoreFresh
  <2> SUFFICES ASSUME Undisturbed, \A e \in Events : runs[e] > 0 => e \in done, NEW w \in live,
                      RecordedAbout(w) # {},
                      chain[Latest(RecordedAbout(w))].type \in {"m_apprv", "m_reject", "claim"}
               PROVE  trust[w] = Score(w)
    BY DEF TrustScoreFresh, Score
  <2>1. NobodyPassed /\ w \in DOMAIN trust
    BY <1>1 DEF Undisturbed, NobodyPassed, HandlersInv, Tables
  <2> QED BY <1>1, <2>1 DEF FreshInv, FreshFor, Scoring, Decisions
<1>2. EventsInv /\ FreshInv /\ [Next]_vars => (EventsInv /\ FreshInv)'
  BY EventsStep, FreshStep DEF EventsInv
<1>3. EventsInv /\ FreshInv => TrustScoreFresh
  BY <1>1 DEF EventsInv
<1> QED BY EventsInit, FreshInit, <1>2, <1>3, PTL DEF Spec

-----------------------------------------------------------------------------
\* Sums over finite sets of rows

Pick(s) == CHOOSE x \in s : TRUE

\* What the sum over the subset s of S is, when g has those over smaller ones.
SumOver(S, f, g) == [s \in SUBSET S |-> IF s = {} THEN 0 ELSE f[Pick(s)] + g[s \ {Pick(s)}]]

\* A nonempty finite set without the element picked is smaller.
LEMMA Smaller ==
    ASSUME NEW S, IsFiniteSet(S), NEW s \in SUBSET S, s # {}
    PROVE  /\ Pick(s) \in S /\ s \ {Pick(s)} \in SUBSET S
           /\ Cardinality(s) \in Nat /\ Cardinality(s \ {Pick(s)}) = Cardinality(s) - 1
<1>1. Pick(s) \in s
  BY DEF Pick
<1>2. IsFiniteSet(s) /\ Cardinality(s) \in Nat
  BY FS_Subset, FS_CardinalityType
<1>3. Cardinality(s \ {Pick(s)}) = Cardinality(s) - 1
  BY <1>1, <1>2, FS_RemoveElement
<1> QED BY <1>1, <1>2, <1>3

\* Sums over all subsets exist: they are found for larger and larger ones.
LEMMA SumsExist ==
    ASSUME NEW S, IsFiniteSet(S), NEW f \in [S -> Nat]
    PROVE  \E g : g = SumOver(S, f, g)
<1> DEFINE G == [SUBSET S -> Nat]
           Upto(n, g) == \A s \in SUBSET S : Cardinality(s) <= n => g[s] = SumOver(S, f, g)[s]
           Bad == {n \in Nat : \A g \in G : ~Upto(n, g)}
<1>1. ASSUME NEW g \in G PROVE SumOver(S, f, g) \in G
  <2>1. ASSUME NEW s \in SUBSET S, s # {} PROVE f[Pick(s)] + g[s \ {Pick(s)}] \in Nat
    <3>1. PICK x, r : x = Pick(s) /\ r = s \ {Pick(s)}
      OBVIOUS
    <3>2. x \in S /\ r \in SUBSET S
      BY <2>1, <3>1, Smaller
    <3>3. f[x] + g[r] \in Nat
      BY <3>2
    <3> QED BY <3>1, <3>3, Zenon
  <2> QED BY <2>1 DEF SumOver
<1>2. ASSUME NEW g PROVE /\ SumOver(S, f, g)[{}] = 0
                         /\ \A s \in SUBSET S : s # {} =>
                               SumOver(S, f, g)[s] = f[Pick(s)] + g[s \ {Pick(s)}]
  BY DEF SumOver
<1>3. ASSUME Bad # {} PROVE FALSE
  <2>1. PICK n \in Bad : \A k \in Bad : n <= k
    BY <1>3, LeastNatural, Bad \subseteq Nat
  <2>2. CASE n = 0
    <3>1. PICK g \in G : g = [s \in SUBSET S |-> 0]
      OBVIOUS
    <3>2. ASSUME NEW s \in SUBSET S, Cardinality(s) <= 0 PROVE g[s] = SumOver(S, f, g)[s]
      <4>1. IsFiniteSet(s) /\ Cardinality(s) \in Nat
        BY FS_Subset, FS_CardinalityType
      <4>2. s = {}
        BY <3>2, <4>1, FS_EmptySet
      <4> QED BY <1>2, <3>1, <4>2
    <3> QED BY <2>2, <3>2
  <2>3. CASE n # 0
    <3>1. n - 1 \in Nat /\ n - 1 \notin Bad
      <4>1. n \in Nat /\ n - 1 \in Nat /\ ~(n <= n - 1)
        BY <2>3
      <4> HIDE DEF Bad
      <4> QED BY <2>1, <4>1
    <3>2. PICK g \in G : Upto(n - 1, g)
      <4> HIDE DEF Upto
      <4> QED BY <3>1
    <3>3. PICK h : h = SumOver(S, f, g)
      OBVIOUS
    <3>4. h \in G
      BY <1>1, <3>3
    <3>5. ASSUME NEW s \in SUBSET S, Cardinality(s) <= n PROVE h[s] = SumOver(S, f, h)[s]
      <4>1. CASE s = {}
        BY <1>2, <3>3, <4>1
      <4>2. CASE s # {}
        <5>1. PICK x, r : x = Pick(s) /\ r = s \ {Pick(s)}
          OBVIOUS
        <5>2. r \in SUBSET S /\ Cardinality(r) <= n - 1
          BY <3>5, <4>2, <5>1, Smaller
        <5>3. g[r] = h[r]
          BY <3>2, <3>3, <5>2
        <5>4. h[s] = f[x] + g[r] /\ SumOver(S, f, h)[s] = f[x] + h[r]
          BY <1>2, <3>3, <4>2, <5>1
        <5> QED BY <5>3, <5>4
      <4> QED BY <4>1, <4>2
    <3> QED BY <3>4, <3>5
  <2> QED BY <2>2, <2>3
<1>4. PICK n : n = Cardinality(S)
  OBVIOUS
<1>5. n \in Nat /\ \A s \in SUBSET S : Cardinality(s) <= n
  BY <1>4, FS_CardinalityType, FS_Subset
<1>6. PICK g \in G : Upto(n, g)
  <2> HIDE DEF Upto
  <2> QED BY <1>3, <1>5
<1>7. \A s \in SUBSET S : g[s] = SumOver(S, f, g)[s]
  BY <1>5, <1>6
<1>8. SumOver(S, f, g) \in G
  BY <1>1
<1>9. g = SumOver(S, f, g)
  BY <1>7, <1>8
<1> QED BY <1>9

\* The sum of natural numbers over a finite set is a natural number.
LEMMA SumIsNat ==
    ASSUME NEW S, IsFiniteSet(S), NEW f \in [S -> Nat]
    PROVE  SumFunction(f) \in Nat
<1> DEFINE iter == CHOOSE g : g = SumOver(S, f, g)
<1>1. SumFunction(f) = iter[S]
  BY DEF SumFunction, SumFunctionOnSet, FoldFunctionOnSet, MapThenFoldSet, SumOver, Pick
<1>2. iter = SumOver(S, f, iter)
  BY SumsExist
<1> HIDE DEF iter
<1>3. iter[{}] = 0 /\ \A s \in SUBSET S : s # {} => iter[s] = f[Pick(s)] + iter[s \ {Pick(s)}]
  BY <1>2 DEF SumOver
<1> DEFINE Bad == {n \in Nat : \E s \in SUBSET S : Cardinality(s) = n /\ iter[s] \notin Nat}
<1>4. ASSUME Bad # {} PROVE FALSE
  <2>1. PICK n \in Bad : \A k \in Bad : n <= k
    BY <1>4, LeastNatural, Bad \subseteq Nat
  <2>2. PICK s \in SUBSET S : Cardinality(s) = n /\ iter[s] \notin Nat
    BY <2>1
  <2>3. s # {}
    <3>1. s = {} => iter[s] = 0
      BY <1>3, Zenon
    <3> QED BY <2>2, <3>1
  <2>4. PICK x, r : x = Pick(s) /\ r = s \ {Pick(s)}
    OBVIOUS
  <2>5. x \in S /\ r \in SUBSET S /\ n \in Nat /\ Cardinality(r) = n - 1 /\ n - 1 \in Nat
    <3>1. x \in S /\ r \in SUBSET S /\ n \in Nat /\ Cardinality(r) = n - 1
      BY <2>2, <2>3, <2>4, Smaller
    <3>2. IsFiniteSet(r)
      BY <3>1, FS_Subset
    <3> QED BY <3>1, <3>2, FS_CardinalityType
  <2>6. iter[r] \in Nat
    <3>1. ~(n <= n - 1)
      BY <2>5
    <3> QED BY <2>1, <2>5, <3>1
  <2>7. iter[s] = f[x] + iter[r] /\ f[x] \in Nat
    BY <1>3, <2>3, <2>4, <2>5
  <2> QED BY <2>2, <2>6, <2>7
<1>5. S \in SUBSET S /\ Cardinality(S) \in Nat
  BY FS_CardinalityType
<1>6. iter[S] \in Nat
  BY <1>4, <1>5
<1> QED BY <1>1, <1>6

\* A score is a number between 0 and 1000.
LEMMA ScoreRange ==
    ASSUME NEW P, IsFiniteSet(P), \A p \in P : p.goal \in Nat /\ p.funds \in Nat,
           NEW M, IsFiniteSet(M), \A m \in M : m.count \in Nat
    PROVE  CalculateTrustScore(P, M) \in 0..1000
<1>1. ASSUME NEW S \in SUBSET M PROVE SumFunction([m \in S |-> m.count]) \in Nat
  <2>1. IsFiniteSet(S) /\ [m \in S |-> m.count] \in [S -> Nat]
    BY FS_Subset
  <2> QED BY <2>1, SumIsNat
<1>2. PICK a, b : a = SumFunction([p \in P |-> p.goal]) /\ b = SumFunction([p \in P |-> p.funds])
  OBVIOUS
<1>3. a \in Nat /\ b \in Nat
  <2>1. [p \in P |-> p.goal] \in [P -> Nat] /\ [p \in P |-> p.funds] \in [P -> Nat]
    OBVIOUS
  <2> QED BY <1>2, <2>1, SumIsNat
<1>4. FundsScore(P) \in Int
  <2>1. FundsScore(P) = IF a > 0 THEN Round(200 * b, a) ELSE 0
    BY <1>2 DEF FundsScore
  <2>2. \A n \in Nat, d \in Nat \ {0} : n \div d \in Int
    OBVIOUS
  <2>3. a > 0 => 2 * (200 * b) + a \in Nat /\ 2 * a \in Nat \ {0}
    BY <1>3
  <2>4. a > 0 => Round(200 * b, a) \in Int
    BY <2>2, <2>3 DEF Round
  <2> QED BY <2>1, <2>4
<1>5. PICK x, y, z, u : /\ x = Cardinality({p \in P : p.status = "COMPLETED"})
                        /\ y = SumFunction([m \in {m \in M : OnTime(m)} |-> m.count])
                        /\ z = SumFunction([m \in {m \in M : m.status = "REJECTED"} |-> m.count])
                        /\ u = FundsScore(P)
  OBVIOUS
<1>6. x \in Nat /\ y \in Nat /\ z \in Nat /\ u \in Int
  <2>1. IsFiniteSet({p \in P : p.status = "COMPLETED"})
    BY FS_Subset
  <2>2. y \in Nat /\ z \in Nat
    BY <1>1, <1>5
  <2> QED BY <1>4, <1>5, <2>1, <2>2, FS_CardinalityType
<1>7. PICK n \in Int : n = 500 + 100 * x + 50 * y - 75 * z + u
  BY <1>6
<1>8. CalculateTrustScore(P, M) = IF n < 0 THEN 0 ELSE IF n > 1000 THEN 1000 ELSE n
  BY <1>5, <1>7 DEF CalculateTrustScore
<1> QED BY <1>7, <1>8

-----------------------------------------------------------------------------
\* Types

\* Finitely many projects are there, so that the sums of a score are numbers.
ThereAre == {p \in ProjectIds : Present(p)}
Scores == IsFiniteSet(ThereAre) /\ \A w \in DOMAIN trust : trust[w] \in 0..1000

CronTypes ==
    /\ day \in 0..MaxDay
    /\ cron.at.project \in ProjectIds \cup {-1}
    /\ \A t \in cron.todo : t.project \in ProjectIds

LEMMA ScoreOf ==
    ASSUME Tables, Scores, NEW w
    PROVE  Score(w) \in 0..1000
<1>1. PICK O : O = OwnedBy(w)
  OBVIOUS
<1>2. IsFiniteSet(O) /\ O \subseteq ProjectIds
  BY <1>1, FS_Subset DEF Scores, ThereAre, OwnedBy
<1> DEFINE f == [p \in O |-> [id |-> p, status |-> project[p].status, goal |-> project[p].goal,
                              funds |-> project[p].funds]]
           g == [p \in O |-> [id |-> p, status |-> milestone[p].status,
                              completion |-> milestone[p].completion,
                              count |-> Milestones[p].count, createdAt |-> Milestones[p].createdAt]]
<1>3. IsFiniteSet(ProjectsOf(w))
  <2>1. ProjectsOf(w) = {f[p] : p \in O}
    BY <1>1 DEF ProjectsOf
  <2>2. f \in [O -> {f[p] : p \in O}] /\ \A t \in {f[p] : p \in O} : \E p \in O : f[p] = t
    OBVIOUS
  <2> HIDE DEF f
  <2>3. f \in Surjection(O, {f[p] : p \in O})
    BY <2>2 DEF Surjection
  <2> QED BY <1>2, <2>1, <2>3, FS_Surjection
<1>4. IsFiniteSet(MilestonesOf(w))
  <2>1. MilestonesOf(w) = {g[p] : p \in O}
    BY <1>1 DEF MilestonesOf
  <2>2. g \in [O -> {g[p] : p \in O}] /\ \A t \in {g[p] : p \in O} : \E p \in O : g[p] = t
    OBVIOUS
  <2> HIDE DEF g
  <2>3. g \in Surjection(O, {g[p] : p \in O})
    BY <2>2 DEF Surjection
  <2> QED BY <1>2, <2>1, <2>3, FS_Surjection
<1>5. \A r \in ProjectsOf(w) : r.goal \in Nat /\ r.funds \in Nat
  BY <1>1, <1>2 DEF ProjectsOf, Tables, ProjectRow
<1>6. \A r \in MilestonesOf(w) : r.count \in Nat
  BY <1>1, <1>2, HandlersAssumption DEF MilestonesOf, HandlersAssumption
<1> QED BY <1>3, <1>4, <1>5, <1>6, ScoreRange DEF Score

LEMMA ScoresStep ==
    ASSUME HandlersInv, PresenceInv, Scores, [Next]_vars
    PROVE  Scores'
<1>1. IsFiniteSet(ThereAre)'
  <2>1. CASE ThereAre' \subseteq ThereAre
    BY <2>1, FS_Subset DEF Scores
  <2>2. CASE ~(ThereAre' \subseteq ThereAre)
    <3>1. PICK p \in ProjectIds : Present(p)' /\ ~Present(p)
      BY <2>2 DEF ThereAre
    <3>2. PICK e \in Events : UpsertProject(e)
      BY <3>1, RowMoves DEF Present
    <3>3. \A q \in ProjectIds : q # Id(e) => project'[q] = project[q]
      BY <3>2, UpsertProjectWrites DEF ProjectWritten
    <3>4. PICK i : i = Id(e)
      OBVIOUS
    <3>5. PICK N : N = ThereAre'
      OBVIOUS
    <3>6. N \subseteq ThereAre \cup {i}
      BY <3>3, <3>4, <3>5 DEF ThereAre, Present
    <3>7. IsFiniteSet(ThereAre \cup {i})
      BY FS_AddElement DEF Scores
    <3> QED BY <3>5, <3>6, <3>7, FS_Subset
  <2> QED BY <2>1, <2>2
<1>2. ASSUME NEW w \in DOMAIN trust' PROVE trust'[w] \in 0..1000
  <2>1. CASE trust' = trust
    BY <1>2, <2>1 DEF Scores
  <2>2. ASSUME NEW e \in Events, UpsertUser(e) PROVE trust'[w] \in 0..1000
    <3>1. PICK v : v = Wallet(e)
      OBVIOUS
    <3>2. trust' = [x \in DOMAIN trust \cup {v} |-> IF x \in DOMAIN trust THEN trust[x] ELSE 500]
      BY <2>2, <3>1 DEF UpsertUser
    <3> QED BY <1>2, <3>2 DEF Scores
  <2>3. ASSUME NEW e \in Events, UpdateTrustScore(e) PROVE trust'[w] \in 0..1000
    <3>1. PICK v : v = Subject(e)
      OBVIOUS
    <3>2. /\ DOMAIN trust' = DOMAIN trust /\ trust'[v] = Score(v)
          /\ \A x \in DOMAIN trust : x # v => trust'[x] = trust[x]
      BY <2>3, <3>1, UpdateTrustScoreWrites DEF Score
    <3>3. Score(v) \in 0..1000
      BY ScoreOf DEF HandlersInv
    <3> QED BY <1>2, <3>2, <3>3 DEF Scores
  <2>4. ASSUME NEW e \in Events, HandlerStep(e), trust' # trust PROVE UpsertUser(e) \/ UpdateTrustScore(e)
    BY <2>4 DEF HandlerStep, Begin, End, Throw, PassOver, UpsertProject, FindProject, UpsertContribution,
        UpdateFunds, UpdateMilestones, AdjustReputation, UpdateStatus, tables
  <2>5. Aside => trust' = trust
    BY DEF Aside
  <2> QED BY <2>1, <2>2, <2>3, <2>4, <2>5, Asides DEF HandlersInv
<1> QED BY <1>1, <1>2 DEF Scores

LEMMA CronTypesStep ==
    ASSUME AlertsInv, CronTypes, [Next]_vars
    PROVE  CronTypes'
<1>1. CASE UNCHANGED <<day, cron>>
  BY <1>1 DEF CronTypes
<1>2. CASE StartCron
  <2>1. PICK S : S = EndingSoon
    OBVIOUS
  <2>2. cron' = [todo |-> S, at |-> cron.at]
    BY <1>2, <2>1 DEF StartCron, AlertsInv, CronShape
  <2>3. \A t \in S : t.project \in ProjectIds
    BY <2>1 DEF EndingSoon
  <2>4. cron'.todo = S /\ cron'.at = cron.at /\ day' = day
    BY <1>2, <2>2 DEF StartCron
  <2> QED BY <2>3, <2>4 DEF CronTypes
<1>3. CASE FinishCron \/ CrashCron
  BY <1>3 DEF FinishCron, CrashCron, IdleCron, CronTypes
<1>4. CASE NextDay
  BY <1>4, MaxDayAssumption DEF NextDay, CronTypes, MaxDayAssumption
<1>5. ASSUME NEW t \in cron.todo, CheckAlerts(t) PROVE CronTypes'
  <2>1. cron' = [todo |-> cron.todo \ {t}, at |-> cron.at] \/ cron' = [todo |-> cron.todo \ {t}, at |-> t]
    BY <1>5 DEF CheckAlerts, AlertsInv, CronShape
  <2>2. day' = day
    BY <1>5 DEF CheckAlerts
  <2>3. cron'.todo = cron.todo \ {t} /\ cron'.at \in {cron.at, t}
    BY <2>1
  <2> QED BY <2>2, <2>3 DEF CronTypes
<1>6. ASSUME NEW u, NotifyFails(u) \/ \E wants \in BOOLEAN : NotifyInvestor(u, wants) PROVE CronTypes'
  <2>1. cron' = [cron EXCEPT !.at.investors = @ \ {u}] /\ day' = day
    BY <1>6 DEF NotifyFails, NotifyInvestor
  <2>2. cron'.todo = cron.todo /\ cron'.at.project = cron.at.project
    BY <2>1, Notified DEF AlertsInv
  <2> QED BY <2>1, <2>2 DEF CronTypes
<1> QED BY <1>1, <1>2, <1>3, <1>4, <1>5, <1>6 DEF Next, vars, alertVars, DeleteUserAndAlerts

\* Types of all variables: rows and the run of the alert task have their shapes,
\* a user is live or deleted and has a score between 0 and 1000 either way.
THEOREM Types == Spec => []TypeOK
<1>1. ASSUME HandlersInv, Scores, CronTypes PROVE TypeOK
  <2>1. run.event \in Events \cup {0}
    BY <1>1 DEF HandlersInv, RunInv, NoRun
  <2> QED BY <1>1, <2>1
      DEF TypeOK, HandlersTypeOK, HandlersInv, Tables, ProjectRow, MilestoneRow, Scores, CronTypes
<1> DEFINE I == AlertsInv /\ EventsInv /\ Scores /\ CronTypes
<1>2. Init => I
  <2>1. Init => Scores
    <3>1. Init => ThereAre = {} /\ DOMAIN trust = {}
      BY DEF Init, HandlersInit, ThereAre, Present
    <3> QED BY <3>1, FS_EmptySet DEF Scores
  <2>2. Init => CronTypes
    BY MaxDayAssumption DEF Init, CronTypes, IdleCron, MaxDayAssumption
  <2> QED BY <2>1, <2>2, AlertsInit, EventsInit
<1>3. I /\ [Next]_vars => I'
  BY AlertsStep, EventsStep, ScoresStep, CronTypesStep DEF EventsInv
<1>4. I => TypeOK
  BY <1>1 DEF EventsInv
<1> QED BY <1>2, <1>3, <1>4, PTL DEF Spec
=============================================================================
