-------------------------- MODULE SubscriptionsProofs --------------------------
(***************************************************************************)
(* Proofs about Subscriptions, for any number of rows, events, deliveries, *)
(* cancel requests and days.                                               *)
(***************************************************************************)
EXTENDS Subscriptions, TLAPS

\* A request that has passed the check names an event of a row there is; the
\* row's lock keeps the status that the handler has read true until it commits.
WebhookFits ==
    /\ \A d \in Deliveries :
          /\ webhook[d].pc \in {"lock", "commit"} =>
                webhook[d].event \in Events /\ status[webhook[d].event.row] # "none"
          /\ webhook[d].pc = "commit" => webhook[d].read = status[webhook[d].event.row]
    /\ \A d, f \in Deliveries :
          (d # f /\ webhook[d].pc = "commit" /\ webhook[f].pc = "commit")
          => webhook[d].event.row # webhook[f].event.row

CancelFits ==
    \A c \in Cancels :
        cancel[c].pc = "write" => cancel[c].row \in Rows /\ status[cancel[c].row] # "none"

\* Rows are created in order, so that the newest is the last.
CreatedInOrder == \E n \in 0..MaxRows : Created = 1..n

\* The events of a row are its own, each once.
OwnEvents(r) ==
    /\ status[r] = "none" => events[r] = <<>>
    /\ \A i \in DOMAIN events[r] : events[r][i].row = r
    /\ \A i, j \in DOMAIN events[r] : events[r][i] = events[r][j] => i = j

EventsFit == \A r \in Rows : OwnEvents(r)

SubInv ==
    /\ TypeOK
    /\ WebhookFits
    /\ CancelFits
    /\ CreatedInOrder
    /\ EventsFit
    /\ StandingFollowsLastEvent
-----------------------------------------------------------------------------
LEMMA SubInitInv == Init => SubInv
<1> SUFFICES ASSUME Init PROVE SubInv
  OBVIOUS
<1>1. MaxRows \in Nat /\ MaxDay \in Nat
  BY SubscriptionsAssumption DEF SubscriptionsAssumption
<1>2. TypeOK
  BY <1>1 DEF Init, TypeOK
<1>3. WebhookFits /\ CancelFits /\ EventsFit /\ StandingFollowsLastEvent
  BY DEF Init, WebhookFits, CancelFits, EventsFit, OwnEvents, StandingFollowsLastEvent
<1>4. CreatedInOrder
  <2>1. Created = 1..0 /\ 0 \in 0..MaxRows
    BY <1>1 DEF Init, Created
  <2>2. QED
    BY <2>1 DEF CreatedInOrder
<1>5. QED
  BY <1>2, <1>3, <1>4 DEF SubInv

LEMMA EventRow ==
  ASSUME NEW e \in Events
  PROVE  /\ e.row \in Rows /\ e.type \in {"payment_failed", "payment_succeeded"}
         /\ e.period_end \in Nat \cup {None}
BY SubscriptionsAssumption DEF SubscriptionsAssumption, Rows

\* The newest row.
LEMMA CurrentIsLast ==
  ASSUME NEW n \in Nat, Created = 1..n, n # 0
  PROVE  Current = n
<1>1. n \in 1..n /\ \A q \in 1..n : q <= n
  OBVIOUS
<1>2. \A r \in 1..n : (\A q \in 1..n : q <= r) => r = n
  OBVIOUS
<1>3. QED
  BY <1>1, <1>2 DEF Current

LEMMA CurrentIsRow ==
  ASSUME CreatedInOrder, Created # {}
  PROVE  Current \in Created
<1>1. PICK n \in 0..MaxRows : Created = 1..n
  BY DEF CreatedInOrder
<1>2. n \in Nat /\ n # 0
  BY <1>1
<1>3. Current = n
  BY <1>1, <1>2, CurrentIsLast
<1>4. QED
  BY <1>1, <1>2, <1>3

LEMMA UpgradeInv == ASSUME SubInv, Upgrade PROVE SubInv'
<1>1. /\ TypeOK /\ WebhookFits /\ CancelFits /\ CreatedInOrder /\ EventsFit
      /\ StandingFollowsLastEvent
      /\ UNCHANGED <<grace_end, period_end, events, webhook, cancel, day>>
  BY DEF SubInv, Upgrade
<1>2. PICK r \in Rows \ Created : /\ \A q \in Rows \ Created : r <= q
                                  /\ status' = [status EXCEPT ![r] = "active"]
  BY DEF Upgrade
<1>3. status[r] = "none" /\ events[r] = <<>>
  BY <1>1, <1>2 DEF Created, EventsFit, OwnEvents
<1>4. /\ status'[r] = "active" /\ \A q \in Rows : q # r => status'[q] = status[q]
      /\ status' \in [Rows -> Status \cup {"none"}]
  BY <1>1, <1>2 DEF TypeOK, Status
<1>5. TypeOK'
  BY <1>1, <1>4 DEF TypeOK
<1>6. WebhookFits'
  <2>1. ASSUME NEW d \in Deliveries, webhook[d].pc \in {"lock", "commit"}
        PROVE  /\ webhook[d].event \in Events
               /\ status'[webhook[d].event.row] = status[webhook[d].event.row]
               /\ status[webhook[d].event.row] # "none"
    <3>1. webhook[d].event \in Events /\ status[webhook[d].event.row] # "none"
      BY <1>1, <2>1 DEF WebhookFits
    <3>2. webhook[d].event.row \in Rows
      BY <3>1, EventRow
    <3>3. QED
      BY <3>1, <3>2, <1>3, <1>4
  <2>2. QED
    BY <2>1, <1>1 DEF WebhookFits
<1>7. CancelFits'
  BY <1>1, <1>3, <1>4 DEF CancelFits
<1>8. CreatedInOrder'
  <2>1. PICK n \in 0..MaxRows : Created = 1..n
    BY <1>1 DEF CreatedInOrder
  <2>2. r = n + 1 /\ MaxRows \in Nat
    BY <1>2, <2>1, SubscriptionsAssumption DEF Rows, SubscriptionsAssumption
  <2>3. Created' = Created \cup {r}
    BY <1>2, <1>3, <1>4 DEF Created
  <2>4. Created' = 1..(n + 1) /\ n + 1 \in 0..MaxRows
    BY <1>2, <2>1, <2>2, <2>3 DEF Rows
  <2>5. QED
    BY <2>4 DEF CreatedInOrder
<1>9. EventsFit' /\ StandingFollowsLastEvent'
  BY <1>1, <1>3, <1>4 DEF EventsFit, OwnEvents, StandingFollowsLastEvent
<1>10. QED
  BY <1>5, <1>6, <1>7, <1>8, <1>9 DEF SubInv

\* A step that leaves the rows and their events alone.
LEMMA RowsStayInv ==
  ASSUME SubInv, UNCHANGED <<status, events>>, TypeOK', WebhookFits', CancelFits'
  PROVE  SubInv'
<1>1. Created' = Created
  BY DEF Created
<1>2. CreatedInOrder' /\ EventsFit' /\ StandingFollowsLastEvent'
  BY <1>1 DEF SubInv, CreatedInOrder, EventsFit, OwnEvents, StandingFollowsLastEvent
<1>3. QED
  BY <1>2 DEF SubInv

WebhookRow == [pc : {"new", "lock", "commit", "done"}, event : Events \cup {None},
               read : Status \cup {"none"}]

LEMMA WebhookCheckInv ==
  ASSUME SubInv, NEW d \in Deliveries, NEW e \in Events, WebhookCheck(d, e)
  PROVE  SubInv'
<1>1. /\ TypeOK /\ WebhookFits /\ CancelFits
      /\ UNCHANGED <<status, grace_end, period_end, events, cancel, day>>
      /\ webhook \in [Deliveries -> WebhookRow]
  BY DEF SubInv, WebhookCheck, TypeOK, WebhookRow
<1>2. PICK pc \in {"done", "lock"} :
         /\ webhook' = [webhook EXCEPT ![d] = [pc |-> pc, event |-> e, read |-> "none"]]
         /\ pc = "lock" => status[e.row] # "none"
  BY DEF WebhookCheck
<1>3. /\ webhook'[d].pc = pc /\ webhook'[d].event = e
      /\ \A f \in Deliveries : f # d => webhook'[f] = webhook[f]
      /\ webhook' \in [Deliveries -> WebhookRow]
  BY <1>1, <1>2 DEF WebhookRow
<1>4. TypeOK'
  BY <1>1, <1>3 DEF TypeOK, WebhookRow
<1>5. WebhookFits'
  BY <1>1, <1>2, <1>3 DEF WebhookFits
<1>6. CancelFits'
  BY <1>1 DEF CancelFits
<1>7. QED
  BY <1>1, <1>4, <1>5, <1>6, RowsStayInv

LEMMA WebhookLockInv ==
  ASSUME SubInv, NEW d \in Deliveries, WebhookLock(d)
  PROVE  SubInv'
<1> DEFINE r == webhook[d].event.row
<1>1. /\ TypeOK /\ WebhookFits /\ CancelFits /\ webhook[d].pc = "lock" /\ ~Locked(r)
      /\ UNCHANGED <<status, grace_end, period_end, events, cancel, day>>
      /\ webhook \in [Deliveries -> WebhookRow]
      /\ webhook' = [webhook EXCEPT ![d].pc = "commit", ![d].read = status[r]]
  BY DEF SubInv, WebhookLock, TypeOK, WebhookRow
<1>2. webhook[d].event \in Events /\ status[r] # "none" /\ r \in Rows
  BY <1>1, EventRow DEF WebhookFits
<1>3. /\ webhook'[d].pc = "commit" /\ webhook'[d].event = webhook[d].event
      /\ webhook'[d].read = status[r]
      /\ \A f \in Deliveries : f # d => webhook'[f] = webhook[f]
      /\ webhook' \in [Deliveries -> WebhookRow]
  <2>1. status[r] \in Status \cup {"none"}
    BY <1>1, <1>2 DEF TypeOK
  <2>2. webhook[d] \in WebhookRow
    BY <1>1
  <2>3. \A x \in WebhookRow :
           /\ [x EXCEPT !.pc = "commit", !.read = status[r]] \in WebhookRow
           /\ [x EXCEPT !.pc = "commit", !.read = status[r]].event = x.event
           /\ [x EXCEPT !.pc = "commit", !.read = status[r]].read = status[r]
           /\ [x EXCEPT !.pc = "commit", !.read = status[r]].pc = "commit"
    BY <2>1 DEF WebhookRow
  <2>4. PICK x : x = [webhook[d] EXCEPT !.pc = "commit", !.read = status[r]]
    OBVIOUS
  <2>5. /\ x \in WebhookRow /\ x.event = webhook[d].event /\ x.read = status[r]
        /\ x.pc = "commit"
    BY <2>2, <2>3, <2>4, Zenon
  <2>6. webhook' = [webhook EXCEPT ![d] = x]
    BY <1>1, <2>2, <2>4
  <2> HIDE DEF r
  <2>7. QED
    BY <1>1, <2>5, <2>6
<1>4. TypeOK'
  BY <1>1, <1>3 DEF TypeOK, WebhookRow
<1>5. \A f \in Deliveries : webhook[f].pc = "commit" => webhook[f].event.row # r
  BY <1>1 DEF Locked
<1> HIDE DEF r
<1>6. WebhookFits'
  <2>1. webhook[d].event.row = r
    BY DEF r
  <2>2. QED
    BY <1>1, <1>2, <1>3, <1>5, <2>1 DEF WebhookFits
<1>7. CancelFits'
  BY <1>1 DEF CancelFits
<1>8. QED
  BY <1>1, <1>4, <1>6, <1>7, RowsStayInv

\* What handling an event makes of its row, by the status the row has.
LEMMA HandleEffect ==
  ASSUME TypeOK, NEW e \in Events, status[e.row] # "none", Handle(e, status[e.row])
  PROVE  /\ status' \in [Rows -> Status \cup {"none"}]
         /\ grace_end' \in [Rows -> Nat \cup {None}]
         /\ period_end' \in [Rows -> Nat \cup {None}]
         /\ \A q \in Rows : q # e.row => status'[q] = status[q]
         /\ status'[e.row] \in Status
         /\ status'[e.row] = "grace" => e.type = "payment_failed"
         /\ status'[e.row] = "active" => e.type = "payment_succeeded"
         /\ status[e.row] \in {"cancelled", "expired"} => status'[e.row] = status[e.row]
         /\ status[e.row] \in Entitled => status'[e.row] \in Entitled
<1> DEFINE r == e.row
<1>1. r \in Rows /\ e.type \in {"payment_failed", "payment_succeeded"}
      /\ e.period_end \in Nat \cup {None}
  BY EventRow
<1>2. /\ status \in [Rows -> Status \cup {"none"}] /\ status[r] \in Status
      /\ grace_end \in [Rows -> Nat \cup {None}] /\ period_end \in [Rows -> Nat \cup {None}]
      /\ GraceEnd \in Nat
  BY <1>1, SubscriptionsAssumption DEF SubscriptionsAssumption, TypeOK, GraceEnd
<1>3. CASE e.type = "payment_failed" /\ status[r] \in {"trial", "active"}
  <2>1. /\ status' = [status EXCEPT ![r] = "grace"]
        /\ grace_end' = [grace_end EXCEPT ![r] = GraceEnd]
        /\ period_end' = period_end
    BY <1>3 DEF Handle
  <2> HIDE DEF r
  <2>2. QED
    BY <1>1, <1>2, <1>3, <2>1 DEF Status, Entitled, r
<1>4. CASE e.type = "payment_succeeded" /\ status[r] \in {"grace", "past_due"}
  <2>1. /\ status' = [status EXCEPT ![r] = "active"]
        /\ grace_end' = [grace_end EXCEPT ![r] = None]
        /\ period_end' = IF e.period_end = None THEN period_end
                         ELSE [period_end EXCEPT ![r] = e.period_end]
    BY <1>4 DEF Handle
  <2>2. QED
    BY <1>1, <1>2, <1>4, <2>1 DEF Status, Entitled
<1>5. CASE /\ ~(e.type = "payment_failed" /\ status[r] \in {"trial", "active"})
           /\ ~(e.type = "payment_succeeded" /\ status[r] \in {"grace", "past_due"})
  <2>1. UNCHANGED <<status, grace_end, period_end>>
    BY <1>5 DEF Handle
  <2>2. QED
    BY <1>1, <1>2, <1>5, <2>1 DEF Status, Entitled
<1>6. QED
  BY <1>3, <1>4, <1>5

LEMMA AppendEvent ==
  ASSUME NEW s \in Seq(Events), NEW e \in Events, ~(e \in ToSet(s))
  PROVE  /\ Append(s, e) \in Seq(Events) /\ Append(s, e) # <<>>
         /\ Last(Append(s, e)) = e
         /\ \A i \in DOMAIN Append(s, e) :
               Append(s, e)[i] = e \/ (i \in DOMAIN s /\ Append(s, e)[i] = s[i])
         /\ (\A i, j \in DOMAIN s : s[i] = s[j] => i = j)
               => \A i, j \in DOMAIN Append(s, e) : Append(s, e)[i] = Append(s, e)[j] => i = j
<1> DEFINE t == Append(s, e)
<1>1. /\ t \in Seq(Events) /\ Len(t) = Len(s) + 1 /\ t[Len(s) + 1] = e
      /\ DOMAIN t = 1..(Len(s) + 1) /\ DOMAIN s = 1..Len(s) /\ Len(s) \in Nat
      /\ \A i \in 1..Len(s) : t[i] = s[i]
  OBVIOUS
<1>2. \A i \in 1..Len(s) : s[i] # e
  BY <1>1 DEF ToSet
<1>3. t # <<>>
  BY <1>1
<1> HIDE DEF t
<1>4. \A i \in DOMAIN t : i = Len(s) + 1 \/ i \in 1..Len(s)
  BY <1>1
<1>5. (\A i, j \in DOMAIN s : s[i] = s[j] => i = j)
         => \A i, j \in DOMAIN t : t[i] = t[j] => i = j
  BY <1>1, <1>2, <1>4
<1>6. QED
  BY <1>1, <1>3, <1>4, <1>5 DEF t, Last

\* The requests of other rows are not concerned when a row's status changes
\* with its lock held or free.
LEMMA WebhookCommitInv ==
  ASSUME SubInv, NEW d \in Deliveries, WebhookCommit(d)
  PROVE  /\ SubInv'
         /\ \A r \in Rows : /\ status[r] = "none" <=> status'[r] = "none"
                            /\ status[r] \in {"cancelled", "expired"} => status'[r] = status[r]
                            /\ status[r] \in Entitled => status'[r] \in Entitled
<1>1. /\ TypeOK /\ WebhookFits /\ CancelFits /\ CreatedInOrder /\ EventsFit
      /\ StandingFollowsLastEvent /\ webhook[d].pc = "commit"
      /\ webhook \in [Deliveries -> WebhookRow]
      /\ webhook' = [webhook EXCEPT ![d].pc = "done"] /\ UNCHANGED <<cancel, day>>
  BY DEF SubInv, WebhookCommit, TypeOK, WebhookRow
<1>2. PICK e \in Events : webhook[d].event = e /\ status[e.row] # "none"
                          /\ webhook[d].read = status[e.row]
  BY <1>1 DEF WebhookFits
<1>3. e.row \in Rows
  BY EventRow
<1>4. /\ webhook'[d].pc = "done" /\ \A f \in Deliveries : f # d => webhook'[f] = webhook[f]
      /\ webhook' \in [Deliveries -> WebhookRow]
  <2>1. \A x \in WebhookRow : [x EXCEPT !.pc = "done"] \in WebhookRow
                             /\ [x EXCEPT !.pc = "done"].pc = "done"
    BY DEF WebhookRow
  <2>2. webhook[d] \in WebhookRow
    BY <1>1
  <2>3. QED
    BY <1>1, <2>1, <2>2
<1>5. CASE Recorded(e)
  <2>1. UNCHANGED <<status, grace_end, period_end, events>>
    BY <1>2, <1>5 DEF WebhookCommit
  <2>2. TypeOK' /\ WebhookFits' /\ CancelFits'
    BY <1>1, <1>4, <2>1 DEF TypeOK, WebhookFits, CancelFits, WebhookRow
  <2>3. QED
    BY <2>1, <2>2, RowsStayInv
<1>6. CASE ~Recorded(e)
  <2> DEFINE r == e.row
  <2>1. /\ events' = [events EXCEPT ![r] = Append(events[r], e)]
        /\ Handle(e, status[r])
    BY <1>2, <1>6 DEF WebhookCommit
  <2>2. /\ status' \in [Rows -> Status \cup {"none"}]
        /\ grace_end' \in [Rows -> Nat \cup {None}]
        /\ period_end' \in [Rows -> Nat \cup {None}]
        /\ \A q \in Rows : q # r => status'[q] = status[q]
        /\ status'[r] \in Status
        /\ status'[r] = "grace" => e.type = "payment_failed"
        /\ status'[r] = "active" => e.type = "payment_succeeded"
        /\ status[r] \in {"cancelled", "expired"} => status'[r] = status[r]
        /\ status[r] \in Entitled => status'[r] \in Entitled
    BY <1>1, <1>2, <2>1, HandleEffect
  <2> HIDE DEF r
  <2>3. /\ events[r] \in Seq(Events) /\ ~(e \in ToSet(events[r])) /\ r \in Rows
        /\ events'[r] = Append(events[r], e)
        /\ \A q \in Rows : q # r => events'[q] = events[q]
    BY <1>1, <1>3, <1>6, <2>1 DEF TypeOK, Recorded, r
  <2>4. \A q \in Rows : status[q] = "none" <=> status'[q] = "none"
    BY <1>2, <2>2, <2>3 DEF Status, r
  <2>5. /\ events'[r] \in Seq(Events) /\ events'[r] # <<>> /\ Last(events'[r]) = e
        /\ \A i \in DOMAIN events'[r] :
              events'[r][i] = e \/ (i \in DOMAIN events[r] /\ events'[r][i] = events[r][i])
        /\ (\A i, j \in DOMAIN events[r] : events[r][i] = events[r][j] => i = j)
              => \A i, j \in DOMAIN events'[r] : events'[r][i] = events'[r][j] => i = j
    BY <2>3, AppendEvent
  <2>6. TypeOK'
    <3>1. events' \in [Rows -> Seq(Events)]
      BY <1>1, <2>1, <2>3, <2>5 DEF TypeOK
    <3>2. QED
      BY <3>1, <1>1, <1>4, <2>2 DEF TypeOK, WebhookRow
  <2>7. WebhookFits'
    <3>1. ASSUME NEW f \in Deliveries, f # d, webhook[f].pc = "commit"
          PROVE  status'[webhook[f].event.row] = status[webhook[f].event.row]
      <4>1. webhook[f].event \in Events /\ webhook[f].event.row # r
        BY <1>1, <1>2, <3>1 DEF WebhookFits, r
      <4>2. webhook[f].event.row \in Rows
        BY <4>1, EventRow
      <4>3. QED
        BY <4>1, <4>2, <2>2
    <3>2. ASSUME NEW f \in Deliveries, f # d, webhook[f].pc \in {"lock", "commit"}
          PROVE  webhook[f].event \in Events /\ status'[webhook[f].event.row] # "none"
      <4>1. webhook[f].event \in Events /\ status[webhook[f].event.row] # "none"
        BY <1>1, <3>2 DEF WebhookFits
      <4>2. webhook[f].event.row \in Rows
        BY <4>1, EventRow
      <4>3. QED
        BY <4>1, <4>2, <2>4
    <3>3. QED
      BY <3>1, <3>2, <1>1, <1>4 DEF WebhookFits
  <2>8. CancelFits'
    BY <1>1, <2>4 DEF CancelFits
  <2>9. CreatedInOrder'
    <3>1. Created' = Created
      BY <2>4 DEF Created
    <3>2. QED
      BY <3>1, <1>1 DEF CreatedInOrder
  <2>10. EventsFit'
    <3>1. OwnEvents(r) /\ status'[r] # "none"
      BY <1>1, <1>2, <2>3, <2>4 DEF EventsFit, r
    <3>2. \A i \in DOMAIN events'[r] : events'[r][i].row = r
      BY <2>5, <3>1 DEF OwnEvents, r
    <3>3. \A i, k \in DOMAIN events'[r] : events'[r][i] = events'[r][k] => i = k
      BY <2>5, <3>1 DEF OwnEvents
    <3>4. ASSUME NEW q \in Rows, q # r PROVE OwnEvents(q)'
      BY <1>1, <2>2, <2>3, <3>4 DEF EventsFit, OwnEvents
    <3>5. OwnEvents(r)'
      BY <3>1, <3>2, <3>3 DEF OwnEvents, r
    <3>6. QED
      BY <3>4, <3>5 DEF EventsFit, r
  <2>11. StandingFollowsLastEvent'
    <3>1. /\ status'[r] = "grace" => events'[r] # <<>>
                                     /\ Last(events'[r]).type = "payment_failed"
          /\ status'[r] = "active" /\ events'[r] # <<>> =>
                Last(events'[r]).type = "payment_succeeded"
      BY <2>2, <2>5
    <3>2. ASSUME NEW q \in Rows, q # r
          PROVE  status'[q] = status[q] /\ events'[q] = events[q]
      BY <2>2, <2>3, <3>2
    <3>3. QED
      BY <3>1, <3>2, <1>1, Zenon DEF StandingFollowsLastEvent
  <2>12. \A q \in Rows : /\ status[q] \in {"cancelled", "expired"} => status'[q] = status[q]
                         /\ status[q] \in Entitled => status'[q] \in Entitled
    BY <2>2
  <2>13. QED
    BY <2>4, <2>6, <2>7, <2>8, <2>9, <2>10, <2>11, <2>12 DEF SubInv
<1>7. QED
  BY <1>5, <1>6

\* Rows that no webhook holds leave the open statuses.
LEMMA RowsEndInv ==
  ASSUME SubInv, status' \in [Rows -> Status \cup {"none"}],
         \A r \in Rows : status'[r] # status[r] =>
            /\ status[r] # "none" /\ status'[r] \in {"cancelled", "expired"}
            /\ ~Locked(r),
         UNCHANGED <<grace_end, period_end, events, webhook, day>>,
         cancel' \in [Cancels -> [pc : {"new", "write", "done", "refused"}, row : Rows \cup {None}]],
         \A c \in Cancels : cancel'[c].pc = "write" => cancel'[c] = cancel[c]
  PROVE  SubInv'
<1>1. TypeOK /\ WebhookFits /\ CancelFits /\ CreatedInOrder /\ EventsFit /\ StandingFollowsLastEvent
  BY DEF SubInv
<1>2. \A r \in Rows : status[r] = "none" <=> status'[r] = "none"
  OBVIOUS
<1>3. TypeOK'
  BY <1>1 DEF TypeOK
<1>4. WebhookFits'
  <2>1. ASSUME NEW f \in Deliveries, webhook[f].pc = "commit"
        PROVE  status'[webhook[f].event.row] = status[webhook[f].event.row]
    <3>1. webhook[f].event.row \in Rows
      BY <1>1, <2>1, EventRow DEF WebhookFits
    <3>2. Locked(webhook[f].event.row)
      BY <2>1 DEF Locked
    <3>3. QED
      BY <3>1, <3>2
  <2>2. ASSUME NEW f \in Deliveries, webhook[f].pc \in {"lock", "commit"}
        PROVE  webhook[f].event \in Events /\ status'[webhook[f].event.row] # "none"
    <3>1. webhook[f].event \in Events /\ status[webhook[f].event.row] # "none"
      BY <1>1, <2>2 DEF WebhookFits
    <3>2. webhook[f].event.row \in Rows
      BY <3>1, EventRow
    <3>3. QED
      BY <3>1, <3>2, <1>2
  <2>3. QED
    BY <2>1, <2>2, <1>1 DEF WebhookFits
<1>5. CancelFits'
  BY <1>1, <1>2 DEF CancelFits
<1>6. CreatedInOrder'
  <2>1. Created' = Created
    BY <1>2 DEF Created
  <2>2. QED
    BY <2>1, <1>1 DEF CreatedInOrder
<1>7. EventsFit'
  BY <1>1, <1>2 DEF EventsFit, OwnEvents
<1>8. StandingFollowsLastEvent'
  BY <1>1 DEF StandingFollowsLastEvent
<1>9. QED
  BY <1>3, <1>4, <1>5, <1>6, <1>7, <1>8 DEF SubInv

CancelRow == [pc : {"new", "write", "done", "refused"}, row : Rows \cup {None}]

LEMMA CancelReadInv ==
  ASSUME SubInv, NEW c \in Cancels, CancelRead(c)
  PROVE  SubInv'
<1>1. /\ TypeOK /\ WebhookFits /\ CancelFits /\ CreatedInOrder /\ Created # {}
      /\ UNCHANGED <<status, grace_end, period_end, events, webhook, day>>
      /\ cancel \in [Cancels -> CancelRow]
  BY DEF SubInv, CancelRead, TypeOK, CancelRow
<1>2. Current \in Rows /\ status[Current] # "none"
  BY <1>1, CurrentIsRow DEF Created
<1>3. PICK x \in CancelRow : /\ cancel' = [cancel EXCEPT ![c] = x]
                             /\ x.pc = "write" => x.row \in Rows /\ status[x.row] # "none"
  <2>1. [pc |-> "write", row |-> Current] \in CancelRow
        /\ [pc |-> "refused", row |-> None] \in CancelRow
    BY <1>2 DEF CancelRow
  <2>2. QED
    BY <1>2, <2>1 DEF CancelRead
<1>4. cancel'[c] = x /\ \A b \in Cancels : b # c => cancel'[b] = cancel[b]
  BY <1>1, <1>3
<1>5. TypeOK'
  BY <1>1, <1>3 DEF TypeOK, CancelRow
<1>6. CancelFits'
  BY <1>1, <1>3, <1>4 DEF CancelFits
<1>7. WebhookFits'
  BY <1>1 DEF WebhookFits
<1>8. QED
  BY <1>1, <1>5, <1>6, <1>7, RowsStayInv

LEMMA CancelWriteInv ==
  ASSUME SubInv, NEW c \in Cancels, CancelWrite(c)
  PROVE  /\ SubInv'
         /\ cancel[c].row \in Rows /\ cancel'[c].pc = "done"
         /\ status' = [status EXCEPT ![cancel[c].row] = "cancelled"]
         /\ status[cancel[c].row] # "none"
<1> DEFINE r == cancel[c].row
<1>1. /\ TypeOK /\ CancelFits /\ cancel[c].pc = "write" /\ ~Locked(r)
      /\ status' = [status EXCEPT ![r] = "cancelled"]
      /\ cancel' = [cancel EXCEPT ![c] = [pc |-> "done", row |-> None]]
      /\ UNCHANGED <<grace_end, period_end, events, webhook, day>>
  BY DEF SubInv, CancelWrite
<1>2. /\ r \in Rows /\ status[r] # "none"
      /\ cancel \in [Cancels -> CancelRow] /\ status \in [Rows -> Status \cup {"none"}]
  BY <1>1 DEF CancelFits, TypeOK, CancelRow
<1>3. /\ [pc |-> "done", row |-> None] \in CancelRow
      /\ cancel'[c].pc = "done" /\ \A b \in Cancels : b # c => cancel'[b] = cancel[b]
  BY <1>1, <1>2 DEF CancelRow
<1>4. cancel' \in [Cancels -> CancelRow]
  BY <1>1, <1>2, <1>3
<1>5. /\ status' \in [Rows -> Status \cup {"none"}]
      /\ \A q \in Rows : q # r => status'[q] = status[q]
      /\ status'[r] = "cancelled"
  BY <1>1, <1>2 DEF Status
<1>6. \A b \in Cancels : cancel'[b].pc = "write" => cancel'[b] = cancel[b]
  BY <1>3
<1> HIDE DEF r
<1>7. \A q \in Rows : status'[q] # status[q] =>
         status[q] # "none" /\ status'[q] \in {"cancelled", "expired"} /\ ~Locked(q)
  BY <1>1, <1>2, <1>5
<1>8. SubInv'
  BY <1>1, <1>4, <1>5, <1>6, <1>7, RowsEndInv DEF CancelRow
<1>9. QED
  BY <1>1, <1>2, <1>3, <1>8 DEF r

LEMMA SweepInv ==
  ASSUME SubInv, Sweep
  PROVE  /\ SubInv'
         /\ \A r \in Rows : status'[r] # status[r] =>
               status[r] = "grace" /\ grace_end[r] < day /\ status'[r] = "expired"
<1>1. /\ TypeOK /\ \A r \in Overdue : ~Locked(r)
      /\ status' = [r \in Rows |-> IF r \in Overdue THEN "expired" ELSE status[r]]
      /\ UNCHANGED <<grace_end, period_end, events, webhook, cancel, day>>
  BY DEF SubInv, Sweep
<1>2. \A r \in Overdue : r \in Rows /\ status[r] = "grace" /\ grace_end[r] < day
  BY DEF Overdue
<1>3. \A r \in Rows : status'[r] # status[r] => r \in Overdue /\ status'[r] = "expired"
  BY <1>1
<1>4. status' \in [Rows -> Status \cup {"none"}]
  BY <1>1 DEF TypeOK, Status
<1>5. cancel' \in [Cancels -> [pc : {"new", "write", "done", "refused"}, row : Rows \cup {None}]]
  BY <1>1 DEF TypeOK
<1>6. SubInv'
  BY <1>1, <1>2, <1>3, <1>4, <1>5, RowsEndInv
<1>7. QED
  BY <1>2, <1>3, <1>6

LEMMA SubNextInv ==
  ASSUME SubInv, [Next]_vars
  PROVE  SubInv'
<1>1. CASE NextDay
  <2>1. TypeOK' /\ WebhookFits' /\ CancelFits'
    BY <1>1, SubscriptionsAssumption
       DEF SubInv, NextDay, TypeOK, WebhookFits, CancelFits, SubscriptionsAssumption
  <2>2. QED
    BY <1>1, <2>1, RowsStayInv DEF NextDay
<1>2. CASE UNCHANGED vars
  <2>1. TypeOK' /\ WebhookFits' /\ CancelFits'
    BY <1>2 DEF SubInv, vars, TypeOK, WebhookFits, CancelFits
  <2>2. QED
    BY <1>2, <2>1, RowsStayInv DEF vars
<1>3. QED
  BY <1>1, <1>2, UpgradeInv, WebhookCheckInv, WebhookLockInv, WebhookCommitInv,
     CancelReadInv, CancelWriteInv, SweepInv DEF Next

LEMMA AlwaysSubInv == Spec => []SubInv
<1>1. SubInv /\ [Next]_vars => SubInv'
  BY SubNextInv
<1>2. QED
  BY SubInitInv, <1>1, PTL DEF Spec
-----------------------------------------------------------------------------
\* Rows and requests keep the shapes the code gives them.
THEOREM SubscriptionTypes == Spec => []TypeOK
<1>1. SubInv => TypeOK
  BY DEF SubInv
<1>2. QED
  BY <1>1, AlwaysSubInv, PTL

\* However often an event is delivered, and at the same time, it is recorded
\* once, and the status that its handler writes with it is applied once.
THEOREM EventsApplyOnce == Spec => []EventAppliedOnce
<1>1. SubInv => EventAppliedOnce
  <2> SUFFICES ASSUME SubInv PROVE EventAppliedOnce
    OBVIOUS
  <2>1. \A r \in Rows : OwnEvents(r)
    BY DEF SubInv, EventsFit
  <2>2. \A r \in Rows : IsInjective(events[r])
    BY <2>1 DEF OwnEvents, IsInjective
  <2>3. ASSUME NEW r \in Rows, NEW q \in Rows, r # q
        PROVE  ToSet(events[r]) \cap ToSet(events[q]) = {}
    BY <2>1, <2>3 DEF OwnEvents, ToSet
  <2>4. QED
    BY <2>2, <2>3 DEF EventAppliedOnce
<1>2. QED
  BY <1>1, AlwaysSubInv, PTL

\* An open subscription stands as its last payment event says.
THEOREM StandingFollows == Spec => []StandingFollowsLastEvent
<1>1. SubInv => StandingFollowsLastEvent
  BY DEF SubInv
<1>2. QED
  BY <1>1, AlwaysSubInv, PTL

\* What one step does to the status of a row that there is.
LEMMA StatusStep ==
  ASSUME SubInv, Next, NEW r \in Rows, status[r] # "none", status'[r] # status[r]
  PROVE  \/ status[r] \notin {"cancelled", "expired"}
            /\ (status[r] \in Entitled => status'[r] \in Entitled)
            /\ status'[r] # "none"
         \/ \E c \in Cancels : /\ cancel[c].row = r /\ cancel'[c].pc = "done"
                               /\ status'[r] = "cancelled"
         \/ status[r] = "grace" /\ grace_end[r] < day /\ status'[r] = "expired"
<1>1. TypeOK
  BY DEF SubInv
<1>2. CASE Upgrade
  BY <1>1, <1>2 DEF Upgrade, Created, TypeOK
<1>3. ASSUME NEW d \in Deliveries, WebhookCommit(d)
      PROVE  /\ status[r] \notin {"cancelled", "expired"}
             /\ (status[r] \in Entitled => status'[r] \in Entitled)
             /\ status'[r] # "none"
  BY <1>3, WebhookCommitInv
<1>4. ASSUME NEW c \in Cancels, CancelWrite(c)
      PROVE  cancel[c].row = r /\ cancel'[c].pc = "done" /\ status'[r] = "cancelled"
  BY <1>1, <1>4, CancelWriteInv DEF TypeOK
<1>5. CASE Sweep
  BY <1>5, SweepInv
<1>6. QED
  BY <1>2, <1>3, <1>4, <1>5
     DEF Next, WebhookCheck, WebhookLock, CancelRead, NextDay

\* A subscription that ended never becomes active again.
THEOREM EndedStaysEnded == Spec => EndedIsFinal
<1> DEFINE Final == \A r \in Rows :
                       /\ status[r] = "cancelled" => status'[r] = "cancelled"
                       /\ status[r] = "expired" => status'[r] \in {"expired", "cancelled"}
<1>1. SubInv /\ Next => Final
  BY StatusStep
<1> HIDE DEF Final
<1>2. SubInv /\ [Next]_vars => [Final]_vars
  BY <1>1
<1>3. Spec => [][Final]_vars
  BY <1>2, AlwaysSubInv, PTL DEF Spec
<1>4. QED
  BY <1>3 DEF Final, EndedIsFinal

\* Access ends only by a cancel request of the row it rests on, or when the
\* last payment failed and its grace period is over.
THEOREM AccessLostForCause == Spec => AccessEndsForCause
<1> DEFINE Cause ==
       (HasAccess /\ ~HasAccess') =>
          \/ \E c \in Cancels : cancel[c].row = Current /\ cancel'[c].pc = "done"
          \/ /\ Last(events[Current]).type = "payment_failed"
             /\ grace_end[Current] < day
<1>1. SubInv /\ Next => Cause
  <2> SUFFICES ASSUME SubInv, Next, HasAccess, ~HasAccess'
               PROVE  \/ \E c \in Cancels : cancel[c].row = Current /\ cancel'[c].pc = "done"
                      \/ /\ Last(events[Current]).type = "payment_failed"
                         /\ grace_end[Current] < day
    OBVIOUS
  <2>1. TypeOK /\ CreatedInOrder /\ SubInv'
    BY SubNextInv DEF SubInv
  <2>2. /\ Current \in Rows /\ status[Current] # "none" /\ status[Current] \in Entitled
        /\ Created # {}
    BY <2>1, CurrentIsRow DEF HasAccess, Created
  <2>3. ~Upgrade
    <3> SUFFICES ASSUME Upgrade PROVE FALSE
      OBVIOUS
    <3>1. PICK r \in Rows \ Created : /\ \A q \in Rows \ Created : r <= q
                                      /\ status' = [status EXCEPT ![r] = "active"]
      BY DEF Upgrade
    <3>2. PICK n \in 0..MaxRows : Created' = 1..n
      BY <2>1 DEF SubInv, CreatedInOrder
    <3>3. /\ Created' = Created \cup {r} /\ status'[r] = "active"
      BY <2>1, <3>1 DEF Created, TypeOK
    <3>4. PICK m \in 0..MaxRows : Created = 1..m
      BY <2>1 DEF CreatedInOrder
    <3>5. r = n /\ n \in Nat /\ n # 0
      BY <3>1, <3>2, <3>3, <3>4, SubscriptionsAssumption DEF Rows, SubscriptionsAssumption
    <3>6. Current' = r
      <4>1. (\A q \in 1..n : q <= n) /\ \A k \in 1..n : (\A q \in 1..n : q <= k) => k = n
        BY <3>5
      <4>2. QED
        BY <3>2, <3>3, <3>5, <4>1 DEF Current
    <3>7. QED
      BY <3>3, <3>6 DEF HasAccess, Entitled
  <2>4. Created' = Created /\ Current' = Current
    <3>1. \A r \in Rows : status[r] = "none" => status'[r] = "none"
      <4> SUFFICES ASSUME NEW r \in Rows, status[r] = "none" PROVE status'[r] = "none"
        OBVIOUS
      <4>1. ASSUME NEW d \in Deliveries, WebhookCommit(d) PROVE status'[r] = "none"
        BY <4>1, WebhookCommitInv
      <4>2. ASSUME NEW c \in Cancels, CancelWrite(c) PROVE status'[r] = "none"
        BY <2>1, <4>2, CancelWriteInv DEF TypeOK
      <4>3. CASE Sweep
        BY <4>3, SweepInv
      <4>4. QED
        BY <2>3, <4>1, <4>2, <4>3
           DEF Next, WebhookCheck, WebhookLock, CancelRead, NextDay
    <3>2. \A r \in Rows : status[r] # "none" => status'[r] # "none"
      BY StatusStep DEF Entitled
    <3>3. Created' = Created
      BY <3>1, <3>2 DEF Created
    <3>4. QED
      BY <3>3 DEF Current
  <2>5. status'[Current] \notin Entitled /\ status'[Current] # status[Current]
    BY <2>2, <2>4 DEF HasAccess
  <2>6. \/ \E c \in Cancels : cancel[c].row = Current /\ cancel'[c].pc = "done"
        \/ status[Current] = "grace" /\ grace_end[Current] < day
    BY <2>2, <2>5, StatusStep
  <2>7. status[Current] = "grace" => Last(events[Current]).type = "payment_failed"
    BY <2>2 DEF SubInv, StandingFollowsLastEvent
  <2>8. QED
    BY <2>6, <2>7
<1> HIDE DEF Cause
<1>2. SubInv /\ [Next]_vars => [Cause]_vars
  BY <1>1
<1>3. Spec => [][Cause]_vars
  BY <1>2, AlwaysSubInv, PTL DEF Spec
<1>4. QED
  BY <1>3 DEF Cause, AccessEndsForCause
=============================================================================
