--------------------------- MODULE Subscriptions ---------------------------
(***************************************************************************)
(* The subscriptions component (apps/subscriptions): one user's rows of    *)
(* the table subscriptions, the upgrade and cancel requests, the payment   *)
(* provider's webhook and the sweep of overdue grace periods.              *)
(*                                                                         *)
(* A row has its place in created_at order for its name; the newest one is *)
(* the user's current subscription.  A webhook locks its row until it      *)
(* commits; an UPDATE of another transaction waits for that lock and then  *)
(* sees the committed row.                                                 *)
(***************************************************************************)
EXTENDS Naturals, Sequences, SequencesExt

CONSTANTS
    MaxRows,       \* rows the user creates
    Events,        \* the provider's events: [id, type, row, period_end]
    Deliveries,    \* webhook requests, each one delivery of an event
    Cancels,       \* cancel requests, each made once
    GracePeriod,   \* SUBSCRIPTION_GRACE_PERIOD_DAYS
    MaxDay,        \* the last day of the calendar
    None

ASSUME SubscriptionsAssumption ==
    /\ MaxRows \in Nat /\ GracePeriod \in Nat /\ MaxDay \in Nat
    /\ None \notin Nat
    /\ Events \subseteq [id : Nat, row : 1..MaxRows, period_end : Nat \cup {None},
                         type : {"payment_failed", "payment_succeeded"}]

VARIABLES
    status,        \* subscriptions.status, "none" where there is no row
    grace_end,     \* subscriptions.grace_period_end
    period_end,    \* subscriptions.current_period_end
    events,        \* each row's payment_events, in processed_at order
    webhook,       \* the delivery requests and what each one has read
    cancel,        \* the cancel requests and the row each one has read
    day            \* the clock

vars == <<status, grace_end, period_end, events, webhook, cancel, day>>
-----------------------------------------------------------------------------
Rows == 1..MaxRows
Status == {"trial", "active", "past_due", "grace", "expired", "cancelled"}
Cancellable == {"trial", "active", "past_due", "grace"}
Entitled == {"trial", "active", "grace"}

Init ==
    /\ status = [r \in Rows |-> "none"]
    /\ grace_end = [r \in Rows |-> None]
    /\ period_end = [r \in Rows |-> None]
    /\ events = [r \in Rows |-> <<>>]
    /\ webhook = [d \in Deliveries |-> [pc |-> "new", event |-> None, read |-> "none"]]
    /\ cancel = [c \in Cancels |-> [pc |-> "new", row |-> None]]
    /\ day = 0

Created == {r \in Rows : status[r] # "none"}
Current == CHOOSE r \in Created : \A q \in Created : q <= r
HasAccess == Created # {} /\ status[Current] \in Entitled

\* An upgrade inserts a new ACTIVE row and leaves the older ones alone.
Upgrade ==
    \E r \in Rows \ Created :
        /\ \A q \in Rows \ Created : r <= q
        /\ status' = [status EXCEPT ![r] = "active"]
        /\ UNCHANGED <<grace_end, period_end, events, webhook, cancel, day>>
-----------------------------------------------------------------------------
(* process_webhook *)

Recorded(e) == \E r \in Rows : e \in ToSet(events[r])

LockedNever(r) == FALSE

\* select_for_update: the row is locked until the webhook commits.
Locked(r) ==
    \E d \in Deliveries : webhook[d].pc = "commit" /\ webhook[d].event.row = r

\* A known event is acknowledged without effect; the check takes no lock.
WebhookCheck(d, e) ==
    /\ webhook[d].pc = "new"
    /\ webhook' = [webhook EXCEPT ![d] =
          [pc |-> IF Recorded(e) \/ status[e.row] = "none" THEN "done" ELSE "lock",
           event |-> e, read |-> "none"]]
    /\ UNCHANGED <<status, grace_end, period_end, events, cancel, day>>

WebhookLock(d) ==
    LET r == webhook[d].event.row
    IN  /\ webhook[d].pc = "lock"
        /\ ~Locked(r)
        /\ webhook' = [webhook EXCEPT ![d].pc = "commit", ![d].read = status[r]]
        /\ UNCHANGED <<status, grace_end, period_end, events, cancel, day>>

GraceEnd == day + GracePeriod

\* _handle_payment_failed and _handle_payment_succeeded, on the status read.
Handle(e, read) ==
    LET r == e.row
    IN  CASE e.type = "payment_failed" /\ read \in {"trial", "active"} ->
                /\ status' = [status EXCEPT ![r] = "grace"]
                /\ grace_end' = [grace_end EXCEPT ![r] = GraceEnd]
                /\ UNCHANGED period_end
          [] e.type = "payment_succeeded" /\ read \in {"grace", "past_due"} ->
                /\ status' = [status EXCEPT ![r] = "active"]
                /\ grace_end' = [grace_end EXCEPT ![r] = None]
                /\ period_end' = IF e.period_end = None THEN period_end
                                 ELSE [period_end EXCEPT ![r] = e.period_end]
          [] OTHER -> UNCHANGED <<status, grace_end, period_end>>

WebhookCommitUnchecked(d) ==
    LET e == webhook[d].event
    IN  /\ webhook[d].pc = "commit"
        /\ events' = [events EXCEPT ![e.row] = Append(@, e)]
        /\ Handle(e, webhook[d].read)
        /\ webhook' = [webhook EXCEPT ![d].pc = "done"]
        /\ UNCHANGED <<cancel, day>>

\* The unique provider_event_id refuses the second of two deliveries that
\* both passed the check, and with it everything the request did.
WebhookCommit(d) ==
    LET e == webhook[d].event
    IN  /\ webhook[d].pc = "commit"
        /\ IF Recorded(e) THEN UNCHANGED <<status, grace_end, period_end, events>>
           ELSE /\ events' = [events EXCEPT ![e.row] = Append(@, e)]
                /\ Handle(e, webhook[d].read)
        /\ webhook' = [webhook EXCEPT ![d].pc = "done"]
        /\ UNCHANGED <<cancel, day>>
-----------------------------------------------------------------------------
(* cancel: the current row is read without a lock, then written. *)

CancelRead(c) ==
    /\ cancel[c].pc = "new"
    /\ Created # {}
    /\ cancel' = [cancel EXCEPT ![c] =
          IF status[Current] \in Cancellable THEN [pc |-> "write", row |-> Current]
          ELSE [pc |-> "refused", row |-> None]]
    /\ UNCHANGED <<status, grace_end, period_end, events, webhook, day>>

CancelWrite(c) ==
    LET r == cancel[c].row
    IN  /\ cancel[c].pc = "write"
        /\ ~Locked(r)
        /\ status' = [status EXCEPT ![r] = "cancelled"]
        /\ cancel' = [cancel EXCEPT ![c] = [pc |-> "done", row |-> None]]
        /\ UNCHANGED <<grace_end, period_end, events, webhook, day>>
-----------------------------------------------------------------------------
OverdueToday == {r \in Rows : status[r] = "grace" /\ grace_end[r] <= day}

Overdue == {r \in Rows : status[r] = "grace" /\ grace_end[r] < day}

\* expire_overdue_grace_subscriptions: one UPDATE; nothing schedules it.
Sweep ==
    /\ Overdue # {}
    /\ \A r \in Overdue : ~Locked(r)
    /\ status' = [r \in Rows |-> IF r \in Overdue THEN "expired" ELSE status[r]]
    /\ UNCHANGED <<grace_end, period_end, events, webhook, cancel, day>>

NextDay ==
    /\ day < MaxDay
    /\ day' = day + 1
    /\ UNCHANGED <<status, grace_end, period_end, events, webhook, cancel>>
-----------------------------------------------------------------------------
Next ==
    \/ Upgrade
    \/ \E d \in Deliveries : \/ \E e \in Events : WebhookCheck(d, e)
                             \/ WebhookLock(d)
                             \/ WebhookCommit(d)
    \/ \E c \in Cancels : CancelRead(c) \/ CancelWrite(c)
    \/ Sweep
    \/ NextDay

Spec == Init /\ [][Next]_vars
-----------------------------------------------------------------------------
\* Rows and requests have the shapes the code gives them.
TypeOK ==
    /\ status \in [Rows -> Status \cup {"none"}]
    /\ grace_end \in [Rows -> Nat \cup {None}]
    /\ period_end \in [Rows -> Nat \cup {None}]
    /\ events \in [Rows -> Seq(Events)]
    /\ webhook \in [Deliveries ->
          [pc : {"new", "lock", "commit", "done"}, event : Events \cup {None},
           read : Status \cup {"none"}]]
    /\ cancel \in [Cancels -> [pc : {"new", "write", "done", "refused"},
                               row : Rows \cup {None}]]
    /\ day \in 0..MaxDay

\* However often the provider delivers an event, and at the same time, the
\* event is recorded and applied once (process_webhook's docstring).
EventAppliedOnce ==
    /\ \A r \in Rows : IsInjective(events[r])
    /\ \A r, q \in Rows : r # q => ToSet(events[r]) \cap ToSet(events[q]) = {}

\* An open subscription stands as its last payment event says, although
\* events race with each other, with cancel requests and with the sweep.
StandingFollowsLastEvent ==
    \A r \in Rows :
        /\ status[r] = "grace" => /\ events[r] # <<>>
                                  /\ Last(events[r]).type = "payment_failed"
        /\ status[r] = "active" /\ events[r] # <<>> =>
              Last(events[r]).type = "payment_succeeded"

\* A failed payment cuts nobody off at once: access is lost only when a
\* cancel request of the very row it rests on is carried out, or when the last
\* payment has failed and its grace period is over.  A cancel request that is
\* overtaken by an upgrade, or a late event, costs nothing.  (The docstring of
\* cancel says that access remains until the end of the paid period; the
\* code takes it at once.)
AccessEndsForCause ==
    [][(HasAccess /\ ~HasAccess') =>
          \/ \E c \in Cancels : cancel[c].row = Current /\ cancel'[c].pc = "done"
          \/ /\ Last(events[Current]).type = "payment_failed"
             /\ grace_end[Current] < day]_vars

\* A subscription that ended never becomes active again: no late webhook
\* revives it; a cancel request in flight may still relabel an expired one.
EndedIsFinal ==
    [][\A r \in Rows :
          /\ status[r] = "cancelled" => status'[r] = "cancelled"
          /\ status[r] = "expired" => status'[r] \in {"expired", "cancelled"}]_vars
=============================================================================
