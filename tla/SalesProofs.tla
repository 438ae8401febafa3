----------------------------- MODULE SalesProofs -----------------------------
(***************************************************************************)
(* Revenue for any number of deals, checkouts and receipts: what the       *)
(* engine calls paid was paid and is honoured, and, as long as no old      *)
(* webhook overtakes a newer one, is counted once.                         *)
(***************************************************************************)
EXTENDS RevenueSales, TLAPS

USE SalesAssumption

(* Stripe's side: a checkout has its paid event exactly when it was paid,  *)
(* and events only for a session whose row was written.                    *)
StripeKnows ==
  \A p \in Checkouts :
    /\ "paid" \in emitted[p] => p \in charged
    /\ emitted[p] # {} => row[p] # "absent"

RowsHaveDeals ==
  \A p \in Payments : row[p] # "absent" => dealOf[p] \in Deals

SalesInv ==
  TypeOK /\ StripeKnows /\ RowsHaveDeals /\ RevenueIsReal /\ PaidIsHonoured

-----------------------------------------------------------------------------
(* The order of the writes.                                                *)

LEMMA WebhookStops ==
  ASSUME NEW n \in Stops(WebhookWrites)
  PROVE  n \in 1..7 /\ (n < Len(WebhookWrites) \/ n = 7)
BY DEF Stops, WebhookWrites

LEMMA ReceiptStops ==
  ASSUME NEW n \in Stops(ReceiptWrites)
  PROVE  n \in 1..7 /\ (n < Len(ReceiptWrites) \/ n = 7)
BY DEF Stops, ReceiptWrites

(* A handler that reached its end made every write.                        *)
LEMMA AllWebhookWrites ==
  \A w \in {"row", "deal", "client", "credit", "evidence", "work", "sync"} :
    w \in Made(WebhookWrites, 7)
<1>1. WebhookWrites[1] = "row" /\ WebhookWrites[2] = "deal"
      /\ WebhookWrites[3] = "client" /\ WebhookWrites[4] = "credit"
      /\ WebhookWrites[5] = "evidence" /\ WebhookWrites[6] = "work"
      /\ WebhookWrites[7] = "sync"
  BY DEF WebhookWrites
<1> QED
  BY <1>1 DEF Made

LEMMA AllReceiptWrites ==
  \A w \in {"row", "deal", "client", "credit", "evidence", "work", "sync"} :
    w \in Made(ReceiptWrites, 7)
<1>1. ReceiptWrites[1] = "deal" /\ ReceiptWrites[2] = "client"
      /\ ReceiptWrites[3] = "evidence" /\ ReceiptWrites[4] = "row"
      /\ ReceiptWrites[5] = "credit" /\ ReceiptWrites[6] = "work"
      /\ ReceiptWrites[7] = "sync"
  BY DEF ReceiptWrites
<1> QED
  BY <1>1 DEF Made

(* A receipt's artifact comes before its row, its row before its credit.   *)
LEMMA ArtifactFirst ==
  ASSUME NEW n \in 1..7
  PROVE  /\ "row" \in Made(ReceiptWrites, n) => "evidence" \in Made(ReceiptWrites, n)
         /\ "credit" \in Made(ReceiptWrites, n) => "row" \in Made(ReceiptWrites, n)
<1>1. \A i \in 1..7 : /\ ReceiptWrites[i] = "row" => i = 4
                      /\ ReceiptWrites[i] = "credit" => i = 5
  BY DEF ReceiptWrites
<1>2. ReceiptWrites[3] = "evidence" /\ ReceiptWrites[4] = "row"
  BY DEF ReceiptWrites
<1>3. n >= 4 => 3 \in 1..n
  OBVIOUS
<1>4. n >= 5 => 4 \in 1..n
  OBVIOUS
<1>5. "row" \in Made(ReceiptWrites, n) => n >= 4
  BY <1>1 DEF Made
<1>6. "credit" \in Made(ReceiptWrites, n) => n >= 5
  BY <1>1 DEF Made
<1> QED
  BY <1>2, <1>3, <1>4, <1>5, <1>6 DEF Made

LEMMA SettleTypes ==
  ASSUME TypeOK, NEW p \in Payments, NEW d \in Deals, NEW writes, NEW n,
         Settle(p, d, writes, n)
  PROVE  /\ stage' \in [Deals -> {"absent", "open", "won", "lost"}]
         /\ client' \in [Deals -> {"absent", "onboarding", "active", "completed"}]
         /\ work' \in [Deals -> {"absent", "queued", "completed"}]
         /\ row' \in [Payments -> {"absent", "pending", "paid", "failed"}]
         /\ credits' \in [Payments -> Nat]
         /\ evidence' \subseteq Payments
         /\ reported' \subseteq Payments
         /\ cut' \subseteq Payments
<1>1. stage' \in [Deals -> {"absent", "open", "won", "lost"}]
  BY DEF TypeOK, Settle
<1>2. client' \in [Deals -> {"absent", "onboarding", "active", "completed"}]
  BY DEF TypeOK, Settle
<1>3. work' \in [Deals -> {"absent", "queued", "completed"}]
  BY DEF TypeOK, Settle
<1>4. row' \in [Payments -> {"absent", "pending", "paid", "failed"}]
  BY DEF TypeOK, Settle
<1>5. credits' \in [Payments -> Nat]
  BY DEF TypeOK, Settle
<1>6. evidence' \subseteq Payments /\ reported' \subseteq Payments
      /\ cut' \subseteq Payments
  BY DEF TypeOK, Settle, SyncMetrics, PaidRows
<1> QED
  BY <1>1, <1>2, <1>3, <1>4, <1>5, <1>6

-----------------------------------------------------------------------------
LEMMA InitSales == ASSUME Init PROVE SalesInv
BY DEF Init, SalesInv, TypeOK, StripeKnows, RowsHaveDeals, RevenueIsReal,
       PaidIsHonoured, PaidRows, Payments

(* Only steps that touch neither rows nor money: clients and work come.    *)
LEMMA SellingKeepsInv ==
  ASSUME SalesInv, UNCHANGED <<row, dealOf, credits, evidence, charged, emitted, cut>>,
         lastEvent' = lastEvent,
         reported' = reported \/ SyncMetrics(row),
         stage' \in [Deals -> {"absent", "open", "won", "lost"}],
         client' \in [Deals -> {"absent", "onboarding", "active", "completed"}],
         work' \in [Deals -> {"absent", "queued", "completed"}],
         \A d \in Deals : /\ client[d] # "absent" => client'[d] # "absent"
                          /\ work[d] # "absent" => work'[d] # "absent"
  PROVE  SalesInv'
<1>1. TypeOK'
  BY DEF SalesInv, TypeOK, SyncMetrics, PaidRows
<1>2. StripeKnows' /\ RowsHaveDeals' /\ RevenueIsReal'
  BY DEF SalesInv, StripeKnows, RowsHaveDeals, RevenueIsReal, PaidRows, Received
<1>3. PaidIsHonoured'
  BY DEF SalesInv, PaidIsHonoured, PaidRows, SyncMetrics, RowsHaveDeals, TypeOK
<1> QED
  BY <1>1, <1>2, <1>3 DEF SalesInv

LEMMA PaidWebhookKeepsInv ==
  ASSUME SalesInv, NEW p \in Checkouts, NEW kind \in EventKinds,
         NEW n \in Stops(WebhookWrites), PaidWebhook(p, kind, n)
  PROVE  SalesInv'
<1>1. p \in Payments /\ kind = "paid" /\ p \in charged /\ row[p] # "absent"
      /\ dealOf[p] \in Deals
  BY DEF PaidWebhook, Settling, SalesInv, StripeKnows, RowsHaveDeals, Payments
<1>2. Settle(p, dealOf[p], WebhookWrites, n)
      /\ UNCHANGED <<dealOf, charged, emitted>>
  BY DEF PaidWebhook, stripeVars
<1>3. TypeOK'
  BY <1>1, <1>2, SettleTypes DEF PaidWebhook, SalesInv, TypeOK
<1>4. StripeKnows' /\ RowsHaveDeals'
  BY <1>1, <1>2 DEF Settle, SalesInv, StripeKnows, RowsHaveDeals, TypeOK
<1>5. evidence \subseteq evidence' /\ PaidRows(row') \subseteq PaidRows(row) \cup {p}
  BY <1>1, <1>2 DEF Settle, PaidRows, SalesInv, TypeOK
<1>6. RevenueIsReal'
  BY <1>1, <1>2, <1>5 DEF SalesInv, RevenueIsReal, Received, PaidRows
<1>7. ASSUME NEW q \in PaidRows(row') \ cut'
      PROVE  /\ client'[dealOf[q]] # "absent" /\ work'[dealOf[q]] # "absent"
             /\ credits'[q] >= 1 /\ q \in evidence' /\ q \in reported'
  <2>1. CASE q = p
    <3>1. n = 7
      BY <1>1, <1>2, <1>7, <2>1, WebhookStops DEF Settle
    <3> QED
      BY <1>1, <1>2, <1>7, <2>1, <3>1, AllWebhookWrites
         DEF Settle, SalesInv, TypeOK, SyncMetrics
  <2>2. CASE q # p
    <3>1. q \in PaidRows(row) \ cut /\ q \in Payments
      BY <1>2, <1>5, <1>7, <2>2 DEF Settle, PaidRows
    <3>2. dealOf[q] \in Deals
      BY <3>1 DEF SalesInv, RowsHaveDeals, PaidRows
    <3>3. q \in reported'
      BY <1>2, <1>7, <3>1 DEF Settle, SyncMetrics, SalesInv, PaidIsHonoured
    <3> QED
      BY <1>1, <1>2, <1>5, <2>2, <3>1, <3>2, <3>3
         DEF Settle, SalesInv, PaidIsHonoured, TypeOK
  <2> QED
    BY <2>1, <2>2
<1>8. PaidIsHonoured'
  BY <1>2, <1>7 DEF PaidIsHonoured, PaidRows
<1> QED
  BY <1>3, <1>4, <1>6, <1>8 DEF SalesInv

LEMMA ReceiptKeepsInv ==
  ASSUME SalesInv, NEW p \in Receipts, NEW d \in Deals,
         NEW n \in Stops(ReceiptWrites), RecordManualPayment(p, d, n)
  PROVE  SalesInv'
<1>1. p \in Payments /\ p \notin Checkouts /\ row[p] = "absent" /\ n \in 1..7
  BY ReceiptStops DEF RecordManualPayment, Payments
<1>2. Settle(p, d, ReceiptWrites, n) /\ UNCHANGED <<lastEvent, charged, emitted>>
      /\ dealOf' = [dealOf EXCEPT ![p] = IF row'[p] = "paid" THEN d ELSE @]
  BY DEF RecordManualPayment, stripeVars
<1>3. TypeOK'
  BY <1>1, <1>2, SettleTypes DEF SalesInv, TypeOK
<1>4. \A q \in Payments : q # p => row'[q] = row[q] /\ dealOf'[q] = dealOf[q]
  BY <1>1, <1>2 DEF Settle, SalesInv, TypeOK
<1>5. row'[p] # "absent" => /\ row'[p] = "paid" /\ dealOf'[p] = d
                            /\ p \in evidence'
  BY <1>1, <1>2, ArtifactFirst DEF Settle, SalesInv, TypeOK
<1>6. StripeKnows' /\ RowsHaveDeals'
  BY <1>1, <1>2, <1>4, <1>5 DEF SalesInv, StripeKnows, RowsHaveDeals, Payments
<1>7. evidence \subseteq evidence'
  BY <1>2 DEF Settle
<1>8. RevenueIsReal'
  BY <1>2, <1>4, <1>5, <1>7 DEF SalesInv, RevenueIsReal, Received, PaidRows
<1>9. ASSUME NEW q \in PaidRows(row') \ cut'
      PROVE  /\ client'[dealOf'[q]] # "absent" /\ work'[dealOf'[q]] # "absent"
             /\ credits'[q] >= 1 /\ q \in evidence' /\ q \in reported'
  <2>1. CASE q = p
    <3>1. n = 7 /\ dealOf'[q] = d
      BY <1>1, <1>2, <1>5, <1>9, <2>1, ReceiptStops DEF Settle, PaidRows
    <3> QED
      BY <1>1, <1>2, <1>9, <2>1, <3>1, AllReceiptWrites
         DEF Settle, SalesInv, TypeOK, SyncMetrics
  <2>2. CASE q # p
    <3>1. q \in PaidRows(row) \ cut /\ q \in Payments /\ dealOf'[q] = dealOf[q]
      BY <1>2, <1>4, <1>9, <2>2 DEF Settle, PaidRows
    <3>2. dealOf[q] \in Deals
      BY <3>1 DEF SalesInv, RowsHaveDeals, PaidRows
    <3>3. q \in reported'
      BY <1>2, <1>9, <3>1 DEF Settle, SyncMetrics, SalesInv, PaidIsHonoured
    <3> QED
      BY <1>1, <1>2, <1>7, <2>2, <3>1, <3>2, <3>3
         DEF Settle, SalesInv, PaidIsHonoured, TypeOK
  <2> QED
    BY <2>1, <2>2
<1>10. PaidIsHonoured'
  BY <1>9 DEF PaidIsHonoured, PaidRows
<1> QED
  BY <1>3, <1>6, <1>8, <1>10 DEF SalesInv

LEMMA FailedWebhookKeepsInv ==
  ASSUME SalesInv, NEW p \in Checkouts, NEW n \in Stops(FailureWrites),
         FailedWebhook(p, n)
  PROVE  SalesInv'
<1>1. p \in Payments /\ row[p] # "absent"
      /\ row' = [row EXCEPT ![p] = "failed"]
      /\ lastEvent' = [lastEvent EXCEPT ![p] = "failed"]
      /\ UNCHANGED <<stage, client, work, dealOf, credits, evidence, charged,
                     emitted, cut>>
      /\ (reported' = reported \/ SyncMetrics(row'))
  BY DEF FailedWebhook, saleVars, stripeVars, SalesInv, StripeKnows, Payments
<1>2. PaidRows(row') \subseteq PaidRows(row)
  BY <1>1 DEF PaidRows, SalesInv, TypeOK
<1>3. TypeOK'
  BY <1>1 DEF SalesInv, TypeOK, SyncMetrics, PaidRows, EventKinds
<1>4. StripeKnows' /\ RowsHaveDeals'
  BY <1>1 DEF SalesInv, StripeKnows, RowsHaveDeals, TypeOK
<1>5. RevenueIsReal' /\ PaidIsHonoured'
  BY <1>1, <1>2 DEF SalesInv, RevenueIsReal, PaidIsHonoured, PaidRows, Received,
                    SyncMetrics
<1> QED
  BY <1>3, <1>4, <1>5 DEF SalesInv

-----------------------------------------------------------------------------
LEMMA NextKeepsSalesInv ==
  ASSUME SalesInv, [Next]_vars
  PROVE  SalesInv'
<1>1. ASSUME NEW d \in Deals, NEW to \in {"open", "won", "lost"}, CreateDeal(d, to)
      PROVE  SalesInv'
  BY <1>1, SellingKeepsInv
     DEF CreateDeal, moneyVars, stripeVars, SalesInv, TypeOK
<1>2. ASSUME NEW d \in Deals, NEW to \in {"open", "won", "lost"}, AdvanceDeal(d, to)
      PROVE  SalesInv'
  <2>1. client' \in [Deals -> {"absent", "onboarding", "active", "completed"}]
        /\ \A e \in Deals : client[e] # "absent" => client'[e] # "absent"
    BY <1>2 DEF AdvanceDeal, EnsureClient, SalesInv, TypeOK
  <2> QED
    BY <1>2, <2>1, SellingKeepsInv
       DEF AdvanceDeal, stripeVars, SalesInv, TypeOK
<1>3. ASSUME NEW d \in Deals, CaptureInbound(d)
      PROVE  SalesInv'
  BY <1>3, SellingKeepsInv DEF CaptureInbound, stripeVars, SalesInv, TypeOK
<1>4. ASSUME NEW d \in Deals, CompleteFulfillment(d)
      PROVE  SalesInv'
  BY <1>4, SellingKeepsInv
     DEF CompleteFulfillment, moneyVars, stripeVars, SalesInv, TypeOK
<1>5. ASSUME NEW d \in Deals, NEW p \in Checkouts, CreateCheckout(d, p)
      PROVE  SalesInv'
  <2>1. p \in Payments /\ row[p] = "absent"
        /\ row' = [row EXCEPT ![p] = "pending"]
        /\ dealOf' = [dealOf EXCEPT ![p] = d]
        /\ UNCHANGED <<stage, client, work, lastEvent, credits, evidence,
                       reported, charged, emitted, cut>>
    BY <1>5 DEF CreateCheckout, Payments, saleVars, stripeVars
  <2>2. PaidRows(row') = PaidRows(row) /\ p \notin PaidRows(row)
    BY <2>1 DEF PaidRows, SalesInv, TypeOK
  <2>3. TypeOK'
    BY <2>1 DEF SalesInv, TypeOK
  <2>4. StripeKnows' /\ RowsHaveDeals'
    BY <2>1 DEF SalesInv, StripeKnows, RowsHaveDeals, TypeOK
  <2>5. RevenueIsReal'
    BY <2>1, <2>2 DEF SalesInv, RevenueIsReal, Received
  <2>6. \A q \in PaidRows(row) : dealOf'[q] = dealOf[q]
    BY <2>1, <2>2 DEF SalesInv, TypeOK, PaidRows
  <2>7. PaidIsHonoured'
    BY <2>1, <2>2, <2>6 DEF SalesInv, PaidIsHonoured
  <2> QED
    BY <2>3, <2>4, <2>5, <2>7 DEF SalesInv
<1>6. ASSUME NEW d \in Deals, NEW p \in Receipts, NEW n \in Stops(ReceiptWrites),
             RecordManualPayment(p, d, n)
      PROVE  SalesInv'
  BY <1>6, ReceiptKeepsInv
<1>7. CASE Deliver
  BY <1>7, PaidWebhookKeepsInv, FailedWebhookKeepsInv DEF Deliver
<1>8. ASSUME NEW p \in Checkouts, NEW kind \in EventKinds, StripeEmits(p, kind)
      PROVE  SalesInv'
  <2>1. UNCHANGED <<stage, client, work, row, lastEvent, dealOf, credits,
                    evidence, reported, cut>>
        /\ emitted' = [emitted EXCEPT ![p] = @ \cup {kind}]
        /\ charged \subseteq charged' /\ charged' \subseteq Checkouts
        /\ (kind = "paid" => p \in charged') /\ row[p] # "absent"
    BY <1>8 DEF StripeEmits, saleVars, moneyVars, SalesInv, TypeOK
  <2>2. TypeOK'
    BY <2>1 DEF SalesInv, TypeOK
  <2>3. StripeKnows' /\ RowsHaveDeals'
    BY <2>1 DEF SalesInv, StripeKnows, RowsHaveDeals, TypeOK
  <2>4. RevenueIsReal' /\ PaidIsHonoured'
    BY <2>1 DEF SalesInv, RevenueIsReal, PaidIsHonoured, PaidRows, Received
  <2> QED
    BY <2>2, <2>3, <2>4 DEF SalesInv
<1>9. CASE UNCHANGED vars
  BY <1>9, SellingKeepsInv
     DEF vars, saleVars, moneyVars, stripeVars, SalesInv, TypeOK
<1> QED
  BY <1>1, <1>2, <1>3, <1>4, <1>5, <1>6, <1>7, <1>8, <1>9 DEF Next, Sell

(* What makes it inductive: see SalesInv.                                  *)
LEMMA SalesInvHolds == Spec => []SalesInv
BY InitSales, NextKeepsSalesInv, PTL DEF Spec

(* The tables of the revenue engine hold values of their columns.          *)
THEOREM SalesTypes == Spec => []TypeOK
BY SalesInvHolds, PTL DEF SalesInv

(* Revenue is real for every number of payments and whatever Faults there  *)
(* are: late webhooks and handlers cut short included.                     *)
THEOREM RevenueStaysReal == Spec => []RevenueIsReal
BY SalesInvHolds, PTL DEF SalesInv

(* A paid payment whose handler was not cut short has its client, its      *)
(* credit, its artifact and its work, whatever came after.                 *)
THEOREM PaymentsAreHonoured == Spec => []PaidIsHonoured
BY SalesInvHolds, PTL DEF SalesInv

-----------------------------------------------------------------------------
(* Counting once needs the order of Stripe's events.  The event id of a    *)
(* counted checkout stays "paid"; a counted receipt has its row.           *)
Counted ==
  \A p \in Payments :
    /\ credits[p] <= 1
    /\ p \in Checkouts /\ credits[p] = 1 => lastEvent[p] = "paid"
    /\ p \in Receipts /\ credits[p] = 1 => row[p] = "paid"
    /\ p \in Checkouts /\ lastEvent[p] = "paid" => p \in charged

LEMMA NextKeepsCounted ==
  ASSUME "late" \notin Faults, SalesInv, Counted, [Next]_vars
  PROVE  Counted'
<1>1. ASSUME NEW d \in Deals, NEW p \in Checkouts, CreateCheckout(d, p)
      PROVE  Counted'
  BY <1>1 DEF CreateCheckout, Counted, stripeVars, Payments, SalesInv, TypeOK
<1>2. ASSUME NEW d \in Deals, NEW p \in Receipts, NEW n \in Stops(ReceiptWrites),
             RecordManualPayment(p, d, n)
      PROVE  Counted'
  <2>1. p \in Payments /\ p \notin Checkouts /\ row[p] = "absent" /\ n \in 1..7
    BY <1>2, ReceiptStops DEF RecordManualPayment, Payments
  <2>2. Settle(p, d, ReceiptWrites, n) /\ UNCHANGED <<lastEvent, charged>>
    BY <1>2 DEF RecordManualPayment, stripeVars
  <2>3. credits[p] = 0
    BY <2>1 DEF Counted, SalesInv, TypeOK, Payments
  <2>4. credits'[p] <= 1 /\ (credits'[p] = 1 => row'[p] = "paid")
    BY <2>1, <2>2, <2>3, ArtifactFirst DEF Settle, SalesInv, TypeOK
  <2>5. \A q \in Payments : q # p => credits'[q] = credits[q] /\ row'[q] = row[q]
    BY <2>1, <2>2 DEF Settle, SalesInv, TypeOK
  <2> QED
    BY <2>1, <2>2, <2>4, <2>5 DEF Counted
<1>3. ASSUME NEW p \in Checkouts, NEW kind \in EventKinds,
             NEW n \in Stops(WebhookWrites), PaidWebhook(p, kind, n)
      PROVE  Counted'
  <2>1. p \in Payments /\ p \notin Receipts /\ kind = "paid" /\ p \in charged
        /\ lastEvent[p] # "paid"
    BY <1>3 DEF PaidWebhook, Settling, IsDuplicate, SalesInv, StripeKnows, Payments
  <2>2. Settle(p, dealOf[p], WebhookWrites, n) /\ UNCHANGED charged
        /\ lastEvent' = [lastEvent EXCEPT ![p] = "paid"]
    BY <1>3, <2>1 DEF PaidWebhook, stripeVars
  <2>3. credits[p] = 0
    BY <2>1 DEF Counted, SalesInv, TypeOK
  <2>4. credits'[p] <= 1 /\ lastEvent'[p] = "paid"
    BY <2>1, <2>2, <2>3 DEF Settle, SalesInv, TypeOK
  <2>5. \A q \in Payments : q # p => /\ credits'[q] = credits[q]
                                     /\ row'[q] = row[q]
                                     /\ lastEvent'[q] = lastEvent[q]
    BY <2>1, <2>2 DEF Settle, SalesInv, TypeOK
  <2> QED
    BY <2>1, <2>2, <2>4, <2>5 DEF Counted
<1>4. ASSUME NEW p \in Checkouts, NEW n \in Stops(FailureWrites), FailedWebhook(p, n)
      PROVE  Counted'
  <2>1. lastEvent[p] # "paid" /\ p \in Payments /\ p \notin Receipts
    BY <1>4 DEF FailedWebhook, Timely, Payments
  <2>2. credits[p] = 0
    BY <2>1 DEF Counted, SalesInv, TypeOK
  <2> QED
    BY <1>4, <2>1, <2>2
       DEF FailedWebhook, Counted, stripeVars, SalesInv, TypeOK
<1>5. ASSUME NEW p \in Checkouts, NEW kind \in EventKinds, StripeEmits(p, kind)
      PROVE  Counted'
  BY <1>5 DEF StripeEmits, Counted, moneyVars
<1>6. ASSUME NEW d \in Deals,
             \/ \E to \in {"open", "won", "lost"} : CreateDeal(d, to) \/ AdvanceDeal(d, to)
             \/ CaptureInbound(d)
             \/ CompleteFulfillment(d)
      PROVE  Counted'
  BY <1>6 DEF CreateDeal, AdvanceDeal, CaptureInbound, CompleteFulfillment,
              moneyVars, stripeVars, Counted
<1>7. CASE UNCHANGED vars
  BY <1>7 DEF vars, moneyVars, stripeVars, Counted
<1> QED
  BY <1>1, <1>2, <1>3, <1>4, <1>5, <1>6, <1>7 DEF Next, Sell, Deliver

LEMMA CountedOnceFollows ==
  ASSUME SalesInv, Counted
  PROVE  CountedOnce
BY DEF SalesInv, RevenueIsReal, PaidRows, Received, Counted, CountedOnce, Payments,
       TypeOK

(* Stripe's repetitions never count a payment twice, for every number of   *)
(* payments and handlers cut short anywhere, if its events keep their      *)
(* order; the run with "late" shows that the order is needed.              *)
THEOREM PaymentsCountOnce ==
  ASSUME "late" \notin Faults
  PROVE  Spec => []CountedOnce
<1>1. Init => Counted
  BY DEF Init, Counted, Payments
<1>2. SalesInv /\ Counted /\ [Next]_vars => Counted'
  BY NextKeepsCounted
<1>3. SalesInv /\ Counted => CountedOnce
  BY CountedOnceFollows
<1> QED
  BY <1>1, <1>2, <1>3, SalesInvHolds, PTL DEF Spec

=============================================================================
