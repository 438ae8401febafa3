----------------------------- MODULE RevenueSales -----------------------------
(***************************************************************************)
(* The selling half of services/revenue/engine.js (VentureRevenueEngine):  *)
(* deals, checkouts, Stripe webhooks, attested receipts, clients and       *)
(* fulfillment, over the revenue_* tables of the mission database.         *)
(*                                                                         *)
(* One Node process serves it and every handler is synchronous code, so a  *)
(* handler is one action; but its writes are autocommitted one by one, so  *)
(* a crash, or an exception on the way (the evidence file cannot be        *)
(* written, the operator's metric is refused), leaves a prefix of them.    *)
(* A settling handler is therefore the list of its writes and the number   *)
(* of them that were made.                                                 *)
(*                                                                         *)
(* Amounts are left out: revenue_clients.lifetime_value_cents is kept as   *)
(* the terms of its sum, credits[p] being how often payment p was added.   *)
(* The open stages of a deal (lead to negotiation) are one.                *)
(***************************************************************************)
EXTENDS Naturals, Sequences

CONSTANTS Deals,
          Checkouts,   \* payment rows createCheckout may open
          Receipts,    \* payments outside Stripe, attested by an admin
          NoDeal,
          Faults,      \* of "late" (webhooks out of order) and "crash"
          MaxCredits   \* a bound: how often one payment is settled

ASSUME SalesAssumption ==
  /\ Checkouts \cap Receipts = {}
  /\ NoDeal \notin Deals
  /\ MaxCredits \in Nat \ {0}

Payments == Checkouts \cup Receipts

VARIABLES stage,     \* revenue_deals.stage
          client,    \* revenue_clients.status of the deal's client
          work,      \* revenue_fulfillments.status of the deal's work
          row,       \* revenue_payments.status
          lastEvent, \* revenue_payments.provider_event_id
          dealOf,    \* revenue_payments.deal_id
          credits,   \* how often a payment was added to the lifetime value
          evidence,  \* payments with an artifact in the evidence chain
          reported,  \* paid payments the operator's counters were synced with
          charged,   \* checkouts the customer has paid, as Stripe knows
          emitted,   \* the events Stripe has for each checkout
          cut        \* payments with a settlement that stopped half-way

saleVars   == <<stage, client, work>>
moneyVars  == <<row, lastEvent, dealOf, credits, evidence, reported>>
stripeVars == <<charged, emitted>>
vars       == <<saleVars, moneyVars, stripeVars, cut>>

EventKinds == {"unpaid", "failed", "paid"}

Init ==
  /\ stage     = [d \in Deals |-> "absent"]
  /\ client    = [d \in Deals |-> "absent"]
  /\ work      = [d \in Deals |-> "absent"]
  /\ row       = [p \in Payments |-> "absent"]
  /\ lastEvent = [p \in Payments |-> "none"]
  /\ dealOf    = [p \in Payments |-> NoDeal]
  /\ credits   = [p \in Payments |-> 0]
  /\ evidence  = {} /\ reported = {}
  /\ charged   = {}
  /\ emitted   = [p \in Checkouts |-> {}]
  /\ cut       = {}

TypeOK ==
  /\ stage     \in [Deals -> {"absent", "open", "won", "lost"}]
  /\ client    \in [Deals -> {"absent", "onboarding", "active", "completed"}]
  /\ work      \in [Deals -> {"absent", "queued", "completed"}]
  /\ row       \in [Payments -> {"absent", "pending", "paid", "failed"}]
  /\ lastEvent \in [Payments -> EventKinds \cup {"none"}]
  /\ dealOf    \in [Payments -> Deals \cup {NoDeal}]
  /\ credits   \in [Payments -> Nat]
  /\ evidence  \subseteq Payments
  /\ reported  \subseteq Payments
  /\ charged   \subseteq Checkouts
  /\ emitted   \in [Checkouts -> SUBSET EventKinds]
  /\ cut       \subseteq Payments

-----------------------------------------------------------------------------
(* The pipeline.                                                           *)

PaidRows(rows) == {p \in Payments : rows[p] = "paid"}

(* syncMetrics recomputes the counters from the rows.                      *)
SyncMetrics(rows) == reported' = PaidRows(rows)

(* createDeal, in any stage; a deal created won has no client yet.         *)
CreateDeal(d, at) ==
  /\ stage[d] = "absent"
  /\ stage' = [stage EXCEPT ![d] = at]
  /\ UNCHANGED <<client, work, moneyVars, stripeVars, cut>>

(* captureInbound: the open deal of a prospect is reused, and only a       *)
(* prospect without one gets a new deal.                                   *)
CaptureInbound(d) ==
  /\ \/ stage[d] = "open"   /\ UNCHANGED stage
     \/ stage[d] = "absent" /\ stage' = [stage EXCEPT ![d] = "open"]
  /\ SyncMetrics(row)
  /\ UNCHANGED <<client, work, row, lastEvent, dealOf, credits, evidence,
                 stripeVars, cut>>

EnsureClient(d) ==
  client' = [client EXCEPT ![d] = IF @ = "absent" THEN "onboarding" ELSE @]

(* advanceDeal: any stage follows any other, a paid deal may be lost.      *)
AdvanceDeal(d, to) ==
  /\ stage[d] # "absent"
  /\ stage' = [stage EXCEPT ![d] = to]
  /\ IF to = "won" THEN EnsureClient(d) ELSE UNCHANGED client
  /\ SyncMetrics(row)
  /\ UNCHANGED <<work, row, lastEvent, dealOf, credits, evidence,
                 stripeVars, cut>>

(* createCheckout.  The customer learns the session's URL only after the   *)
(* pending row is there, so the awaited Stripe call and the INSERT are one *)
(* step; a call that fails leaves nothing behind.                          *)
CreateCheckout(d, p) ==
  /\ stage[d] # "absent" /\ row[p] = "absent"
  /\ row'    = [row    EXCEPT ![p] = "pending"]
  /\ dealOf' = [dealOf EXCEPT ![p] = d]
  /\ UNCHANGED <<saleVars, lastEvent, credits, evidence, reported,
                 stripeVars, cut>>

-----------------------------------------------------------------------------
(* Stripe, as the webhooks show it: a checkout may report an attempt that  *)
(* failed, a completion still unpaid, and once that it is paid.            *)

StripeEmits(p, kind) ==
  /\ row[p] # "absent" /\ p \notin charged
  /\ kind \notin emitted[p]
  /\ emitted' = [emitted EXCEPT ![p] = @ \cup {kind}]
  /\ charged' = IF kind = "paid" THEN charged \cup {p} ELSE charged
  /\ UNCHANGED <<saleVars, moneyVars, cut>>

-----------------------------------------------------------------------------
(* Settling a payment: the writes of a handler, in the order of the code.  *)

WebhookWrites == <<"row", "deal", "client", "credit", "evidence", "work",
                   "sync">>
ReceiptWrites == <<"deal", "client", "evidence", "row", "credit", "work",
                   "sync">>
FailureWrites == <<"row", "sync">>

Made(writes, n) == {writes[i] : i \in 1..n}

(* Where a handler may stop: at its end, or anywhere if there are crashes. *)
Stops(writes) == IF "crash" \in Faults THEN 1..Len(writes) ELSE {Len(writes)}

(* A mutant: the work is only queued for a client the handler created.     *)
Settle_NewClient(p, d, writes, n) ==
  LET Does(write) == write \in Made(writes, n) IN
  /\ stage'    = [stage   EXCEPT ![d] = IF Does("deal")   THEN "won" ELSE @]
  /\ client'   = [client  EXCEPT ![d] = IF Does("credit") THEN "active"
                   ELSE IF Does("client") /\ @ = "absent" THEN "onboarding"
                   ELSE @]
  /\ work'     = [work    EXCEPT ![d] = IF Does("work") /\ client[d] = "absent"
                                          THEN "queued" ELSE @]
  /\ row'      = [row     EXCEPT ![p] = IF Does("row")    THEN "paid" ELSE @]
  /\ credits'  = [credits EXCEPT ![p] = IF Does("credit") THEN @ + 1 ELSE @]
  /\ evidence' = evidence \cup (IF Does("evidence") THEN {p} ELSE {})
  /\ IF Does("sync") THEN SyncMetrics(row') ELSE UNCHANGED reported
  /\ cut'      = cut \cup (IF n < Len(writes) THEN {p} ELSE {})

(* ensureClient and ensureFulfillment return the row that is there; the    *)
(* credit is the UPDATE that also makes the client active.                 *)
Settle(p, d, writes, n) ==
  LET Does(write) == write \in Made(writes, n) IN
  /\ stage'    = [stage   EXCEPT ![d] = IF Does("deal")   THEN "won" ELSE @]
  /\ client'   = [client  EXCEPT ![d] = IF Does("credit") THEN "active"
                   ELSE IF Does("client") /\ @ = "absent" THEN "onboarding"
                   ELSE @]
  /\ work'     = [work    EXCEPT ![d] = IF Does("work") /\ @ = "absent"
                                          THEN "queued" ELSE @]
  /\ row'      = [row     EXCEPT ![p] = IF Does("row")    THEN "paid" ELSE @]
  /\ credits'  = [credits EXCEPT ![p] = IF Does("credit") THEN @ + 1 ELSE @]
  /\ evidence' = evidence \cup (IF Does("evidence") THEN {p} ELSE {})
  /\ IF Does("sync") THEN SyncMetrics(row') ELSE UNCHANGED reported
  /\ cut'      = cut \cup (IF n < Len(writes) THEN {p} ELSE {})

(* A mutant: a completed checkout is taken for a paid one.                 *)
Settling_Completed == {"paid", "unpaid"}

(* The events that prove a payment: payment_status must be "paid" too.     *)
Settling == {"paid"}

(* A mutant: one event per payment is enough to call the next a duplicate. *)
IsDuplicate_AnyEvent(p, kind) == lastEvent[p] # "none"

(* A mutant: no event is a duplicate.                                      *)
IsDuplicate_Never(p, kind) == FALSE

(* processStripeWebhook knows an event again by the event id of the row,   *)
(* which the next event of the same payment overwrites.                    *)
IsDuplicate(p, kind) == lastEvent[p] = kind

(* Stripe may deliver an event any number of times and promises no order;  *)
(* without "late" an older event does not arrive after the paid one.       *)
Timely(p, kind) == "late" \in Faults \/ lastEvent[p] # "paid" \/ kind = "paid"

(* Duplicates, and events that are neither paid nor failed, are answered   *)
(* without a write.                                                        *)
PaidWebhook(p, kind, n) ==
  /\ kind \in emitted[p] \cap Settling /\ Timely(p, kind)
  /\ ~IsDuplicate(p, kind)
  /\ credits[p] < MaxCredits
  /\ Settle(p, dealOf[p], WebhookWrites, n)
  /\ lastEvent' = [lastEvent EXCEPT ![p] = kind]
  /\ UNCHANGED <<dealOf, stripeVars>>

FailedWebhook(p, n) ==
  /\ "failed" \in emitted[p] /\ Timely(p, "failed")
  /\ ~IsDuplicate(p, "failed")
  /\ row'       = [row       EXCEPT ![p] = "failed"]
  /\ lastEvent' = [lastEvent EXCEPT ![p] = "failed"]
  /\ IF n = Len(FailureWrites) THEN SyncMetrics(row') ELSE UNCHANGED reported
  /\ UNCHANGED <<saleVars, dealOf, credits, evidence, stripeVars, cut>>

(* recordManualPayment: the artifact comes before the row.  Nothing tells  *)
(* a second request with the same receipt from a second receipt.           *)
RecordManualPayment(p, d, n) ==
  /\ stage[d] # "absent" /\ row[p] = "absent"
  /\ Settle(p, d, ReceiptWrites, n)
  /\ dealOf' = [dealOf EXCEPT ![p] = IF row'[p] = "paid" THEN d ELSE @]
  /\ UNCHANGED <<lastEvent, stripeVars>>

(* completeFulfillment, of whatever status, with its evidence note.        *)
CompleteFulfillment(d) ==
  /\ work[d] # "absent"
  /\ work'   = [work   EXCEPT ![d] = "completed"]
  /\ client' = [client EXCEPT ![d] = "completed"]
  /\ UNCHANGED <<stage, moneyVars, stripeVars, cut>>

-----------------------------------------------------------------------------
Sell ==
  \E d \in Deals :
    \/ \E to \in {"open", "won", "lost"} : CreateDeal(d, to) \/ AdvanceDeal(d, to)
    \/ CaptureInbound(d)
    \/ CompleteFulfillment(d)
    \/ \E p \in Checkouts : CreateCheckout(d, p)
    \/ \E p \in Receipts, n \in Stops(ReceiptWrites) :
         RecordManualPayment(p, d, n)

Deliver ==
  \E p \in Checkouts :
    \/ \E kind \in EventKinds, n \in Stops(WebhookWrites) :
         PaidWebhook(p, kind, n)
    \/ \E n \in Stops(FailureWrites) : FailedWebhook(p, n)

Next ==
  \/ Sell
  \/ Deliver
  \/ \E p \in Checkouts, kind \in EventKinds : StripeEmits(p, kind)

(* Stripe repeats an event until it is answered, so what it has to say of  *)
(* a payment is heard in the end.                                          *)
Fairness ==
  \A p \in Checkouts :
    WF_vars(\E n \in Stops(WebhookWrites) : PaidWebhook(p, "paid", n))

Spec == Init /\ [][Next]_vars /\ Fairness

-----------------------------------------------------------------------------
(* The payments that were made.                                            *)
Received == charged \cup (Receipts \cap evidence)

(* Revenue is real: a paid row is a payment Stripe has, or one whose       *)
(* receipt is already in the evidence chain, however events are repeated,  *)
(* reordered or handlers cut short.                                        *)
RevenueIsReal == PaidRows(row) \subseteq Received

(* A payment is added to its client's lifetime value once, and only if it  *)
(* was made: webhook repetitions are recognized.                           *)
CountedOnce ==
  \A p \in Payments :
    /\ credits[p] <= 1
    /\ credits[p] = 1 => p \in Received

(* What a paid payment owes is there unless its handler was cut short: the *)
(* client, the credit, the artifact, the work, the counters.               *)
PaidIsHonoured ==
  \A p \in PaidRows(row) \ cut :
    /\ client[dealOf[p]] # "absent"
    /\ work[dealOf[p]] # "absent"
    /\ credits[p] >= 1
    /\ p \in evidence \cap reported

(* A customer's payment becomes revenue, whatever attempts failed before.  *)
ChargedIsRecorded ==
  \A p \in Checkouts : p \in charged ~> row[p] = "paid"

=============================================================================
