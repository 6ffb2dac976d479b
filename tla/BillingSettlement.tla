------------------------- MODULE BillingSettlement -------------------------
(***************************************************************************)
(* Payments of the API server: checkout, the callback of the gateway,      *)
(* verification, the sweep with its expiry and adoption, refunds and card  *)
(* transfers (apps/api/src/services/billing.ts, reconcile.ts,              *)
(* card-transfer.ts and their routes).                                     *)
(*                                                                         *)
(* A worker is a request or a sweep on some node.  A transaction that      *)
(* awaits the gateway, or a row that somebody else has locked, takes       *)
(* several actions; it writes when it commits and its locks are read off   *)
(* the step it is in.  A subscription has the name of the payment that     *)
(* activated it (activated_by_payment_id).                                 *)
(***************************************************************************)
EXTENDS Naturals, FiniteSets

CONSTANTS
    Payments,        \* rows of `payments`, one per idempotency key
    Authorities,     \* what the gateway calls a payment; never drawn twice
    Workers,         \* requests and sweeps that run at the same time
    Refs,            \* reference numbers of bank transfers
    TeamOf,          \* the team that buys with a payment
    PlanOf,          \* the plan it buys
    AmountOf,        \* the amount of its invoice
    Discounted,      \* the payments whose checkout names the coupon
    MaxRedemptions,  \* coupons.max_redemptions
    MaxFaults,       \* bound: repeated checkouts, and requests that die
    None

Teams == {TeamOf[p] : p \in Payments}

ASSUME NoneAssumption == None \notin Payments \cup Authorities \cup Refs
ASSUME LimitAssumption == MaxRedemptions \in Nat

VARIABLES
    provider,   \* PAYMENT_PROVIDER: an online gateway or card transfers
    status, invoice, authority,  \* of a payment's rows
    asked,      \* failure_code is set: the gateway said once "not paid"
    aged,       \* older than the sweep's thresholds
    claimed, reference,          \* transfer_claimed_at, transfer_ref
    sub,        \* status of the subscription the payment activated
    follows,    \* the subscription whose end is the start of this one
    ended, leaving,              \* period over; cancel_at_period_end
    redeemed, redeemedCount,     \* coupon_redemptions; coupons.redeemed_count
    gw, madeFor,                 \* the gateway's books; history: for whom
    handed,     \* history: authorities whose redirect a user may have
    job,        \* what each worker is doing
    faults

db == <<status, invoice, authority, asked, claimed, reference>>
subs == <<sub, follows, ended, leaving, redeemed, redeemedCount>>
gateway == <<gw, madeFor, handed>>
clock == <<provider, aged, faults>>
vars == <<db, subs, gateway, clock, job>>

Idle == [kind |-> "idle", step |-> "idle", pay |-> None, auth |-> None,
         live |-> None, ref |-> None]

Job == [kind : {"idle", "checkout", "settle", "expire", "refund", "adopt", "approve"},
        step : {"idle", "create", "store", "void", "fail", "wait", "verify",
                "activate", "expire", "refund", "restore", "adopt"},
        pay : Payments \cup {None}, auth : Authorities \cup {None},
        live : Payments \cup {None}, ref : Refs \cup {None}]

RowTypes ==
    /\ status \in [Payments ->
           {"none", "pending", "paid", "failed", "canceled", "refunded"}]
    /\ invoice \in [Payments -> {"none", "open", "paid", "void", "refunded"}]
    /\ authority \in [Payments -> Authorities \cup {None}]
    /\ asked \in SUBSET Payments /\ claimed \in SUBSET Payments
    /\ reference \in [Payments -> Refs \cup {None}]

SubTypes ==
    /\ sub \in [Payments -> {"none", "active", "expired", "canceled"}]
    /\ follows \in [Payments -> Payments \cup {None}]
    /\ ended \in SUBSET Payments /\ leaving \in SUBSET Payments
    /\ redeemed \in SUBSET Teams /\ redeemedCount \in Nat

GatewayTypes ==
    /\ gw \in [Authorities -> {"unused", "open", "paid", "verified", "returned"}]
    /\ madeFor \in [Authorities -> Payments \cup {None}]
    /\ handed \in SUBSET Authorities

TypeOK ==
    /\ RowTypes /\ SubTypes /\ GatewayTypes
    /\ provider \in {"online", "transfer"} /\ aged \in SUBSET Payments /\ faults \in Nat
    /\ job \in [Workers -> Job]

Init ==
    /\ provider \in {"online", "transfer"}
    /\ status = [p \in Payments |-> "none"]
    /\ invoice = [p \in Payments |-> "none"]
    /\ authority = [p \in Payments |-> None]
    /\ asked = {} /\ aged = {} /\ claimed = {}
    /\ reference = [p \in Payments |-> None]
    /\ sub = [p \in Payments |-> "none"]
    /\ follows = [p \in Payments |-> None]
    /\ ended = {} /\ leaving = {} /\ redeemed = {} /\ redeemedCount = 0
    /\ gw = [a \in Authorities |-> "unused"]
    /\ madeFor = [a \in Authorities |-> None]
    /\ handed = {}
    /\ job = [w \in Workers |-> Idle]
    /\ faults = 0

-----------------------------------------------------------------------------
(***************************************************************************)
(* Row locks.  SELECT ... FOR UPDATE on the payment is held from the step  *)
(* after "wait" to the end of the transaction; a refund that has cancelled *)
(* a subscription holds that row too until it commits.                     *)
(***************************************************************************)
Locked(p) == \E w \in Workers :
    job[w].pay = p /\ job[w].step \in {"verify", "activate", "expire", "refund", "restore"}

SubLocked(p) == \E w \in Workers : job[w].step = "restore" /\ job[w].live = p

Becomes(w, j) == job' = [job EXCEPT ![w] = j]
Goto(w, step) == Becomes(w, [job[w] EXCEPT !.step = step])
End(w) == Becomes(w, Idle)
Begin(w, kind, step, p) ==
    /\ job[w] = Idle
    /\ Becomes(w, [Idle EXCEPT !.kind = kind, !.step = step, !.pay = p])

ActiveOf(t) == {p \in Payments : TeamOf[p] = t /\ sub[p] = "active"}

Unused == {a \in Authorities : gw[a] = "unused"}

-----------------------------------------------------------------------------
(***************************************************************************)
(* Checkout.                                                               *)
(***************************************************************************)

\* resolveCoupon: validated here, used up at the activation.
CouponIsFree(p) ==
    p \in Discounted => /\ redeemedCount < MaxRedemptions
                        /\ TeamOf[p] \notin redeemed

\* createCheckout: invoice and pending payment in one transaction.
CreateCheckout(w, p) ==
    /\ status[p] = "none" /\ CouponIsFree(p)
    /\ Begin(w, "checkout", "create", p)
    /\ status' = [status EXCEPT ![p] = "pending"]
    /\ invoice' = [invoice EXCEPT ![p] = "open"]
    /\ UNCHANGED <<authority, asked, claimed, reference, subs, gateway, clock>>

\* The same idempotency key again, and the answer is not in this node's memory:
\* the draft is the row that exists, whatever its status, and the route goes on.
ReplayCheckout(w, p) ==
    /\ status[p] # "none" /\ faults < MaxFaults
    /\ Begin(w, "checkout", "create", p)
    /\ faults' = faults + 1
    /\ UNCHANGED <<db, subs, gateway, provider, aged>>

\* gateway.createPayment answers.
CreatePayment(w) ==
    /\ job[w].step = "create" /\ Unused # {}
    /\ LET a == CHOOSE a \in Unused : TRUE
       IN /\ gw' = [gw EXCEPT ![a] = "open"]
          /\ madeFor' = [madeFor EXCEPT ![a] = job[w].pay]
          /\ Becomes(w, [job[w] EXCEPT !.step = "store", !.auth = a])
    /\ UNCHANGED <<db, subs, handed, clock>>

\* It throws; a card transfer draws its authority itself.
CreateFails(w) ==
    /\ job[w].step = "create" /\ provider = "online"
    /\ Goto(w, "void")
    /\ UNCHANGED <<db, subs, gateway, clock>>

\* The UPDATE of the authority, and the redirect goes to the user.
StoreAuthority(w) ==
    LET p == job[w].pay
        a == job[w].auth
    IN  /\ job[w].step = "store" /\ ~Locked(p)
        /\ \A q \in Payments : authority[q] # a
        /\ authority' = [authority EXCEPT ![p] = a]
        /\ handed' = handed \cup {a}
        /\ End(w)
        /\ UNCHANGED <<status, invoice, asked, claimed, reference, subs,
                       gw, madeFor, clock>>

\* The UPDATE fails, because the authority is taken or for another reason.
StoreFails(w) ==
    /\ job[w].step = "store"
    /\ Goto(w, "void")
    /\ UNCHANGED <<db, subs, gateway, clock>>

VoidedAlways(p) == "void"

\* UPDATE invoices SET status = 'void' ... AND status = 'open'
Voided(p) == IF invoice[p] = "open" THEN "void" ELSE invoice[p]

\* voidFailedCheckout: two statements without a transaction.
VoidInvoice(w) ==
    LET p == job[w].pay
    IN  /\ job[w].step = "void"
        /\ invoice' = [invoice EXCEPT ![p] = Voided(p)]
        /\ Goto(w, "fail")
        /\ UNCHANGED <<status, authority, asked, claimed, reference, subs, gateway, clock>>

VoidPayment(w) ==
    LET p == job[w].pay
    IN  /\ job[w].step = "fail" /\ ~Locked(p)
        /\ status' = [status EXCEPT ![p] = IF @ = "pending" THEN "failed" ELSE @]
        /\ asked' = IF status[p] = "pending" THEN asked \cup {p} ELSE asked
        /\ End(w)
        /\ UNCHANGED <<invoice, authority, claimed, reference, subs, gateway, clock>>

-----------------------------------------------------------------------------
(***************************************************************************)
(* Settlement: settlePayment and expireStalePayment, from the callback,    *)
(* the verify routes and the sweep.                                        *)
(***************************************************************************)

\* A sweep that does not ask again about what was once not paid.
AsksOnce(p) == status[p] # "none" /\ p \notin asked

\* What the sweep asks again, and what a verify route may be called for.
Asks(p) == status[p] # "none"

\* A request or the sweep sets out to ask the gateway about p.
AskSettle(w, p) ==
    /\ Asks(p)
    /\ Begin(w, "settle", "wait", p)
    /\ UNCHANGED <<db, subs, gateway, clock>>

\* The callback finds its payment by the authority in the URL.
Callback(w, a) ==
    /\ a \in handed /\ job[w] = Idle
    /\ Becomes(w, [Idle EXCEPT !.kind = "settle", !.step = "wait", !.auth = a])
    /\ UNCHANGED <<db, subs, gateway, clock>>

\* planSweep and expireBlockedReason: asked once, and old.
AskExpire(w, p) ==
    /\ status[p] = "pending" /\ authority[p] # None
    /\ p \in asked /\ p \in aged
    /\ Begin(w, "expire", "wait", p)
    /\ UNCHANGED <<db, subs, gateway, clock>>

SettlesAgain(p) == status[p] # "none" /\ authority[p] # None

\* The early returns of settleLocked, read under the lock.
Settles(p) == status[p] = "pending" /\ authority[p] # None

\* lockPaymentForSettle, and settleLocked up to the call of the gateway.
LockToSettle(w) ==
    /\ job[w].step = "wait" /\ job[w].kind \in {"settle", "expire"}
    /\ \/ \E p \in Payments :
            /\ IF job[w].pay = None THEN authority[p] = job[w].auth ELSE p = job[w].pay
            /\ ~Locked(p)
            /\ IF Settles(p)
               THEN Becomes(w, [job[w] EXCEPT !.step = "verify", !.pay = p])
               ELSE End(w)
       \/ /\ job[w].pay = None /\ \A p \in Payments : authority[p] # job[w].auth
          /\ End(w)
    /\ UNCHANGED <<db, subs, gateway, clock>>

\* decideTransfer without its look at transfer_claimed_at.
VerdictIgnoresClaim(p) ==
    IF provider = "online"
    THEN IF gw[authority[p]] \in {"paid", "verified"} THEN "paid" ELSE "notPaid"
    ELSE IF reference[p] # None THEN "paid"
         ELSE IF p \notin aged THEN "gatewayError" ELSE "notPaid"

\* A charge that is only believed to be one the first time.
VerdictOnlyFresh(p) ==
    IF provider = "online"
    THEN IF gw[authority[p]] = "paid" THEN "paid" ELSE "notPaid"
    ELSE CASE reference[p] # None -> "paid"
           [] p \in claimed \/ p \notin aged -> "gatewayError"
           [] OTHER -> "notPaid"

\* What verifyPayment may answer about p; decideTransfer for card transfers.
Verdict(p) ==
    IF provider = "online"
    THEN IF gw[authority[p]] \in {"paid", "verified"} THEN "paid" ELSE "notPaid"
    ELSE CASE reference[p] # None -> "paid"
           [] p \in claimed \/ p \notin aged -> "gatewayError"
           [] OTHER -> "notPaid"

\* The gateway's own record of having answered "paid".
MarkVerified(p) ==
    gw' = IF provider = "online" THEN [gw EXCEPT ![authority[p]] = "verified"] ELSE gw

\* No answer, or one that is lost: nothing is known and nothing changes here.
VerifyError(w) ==
    LET p == job[w].pay
    IN  /\ job[w].step = "verify"
        /\ \/ /\ provider = "online" /\ gw' = gw
           \/ /\ provider = "online" /\ Verdict(p) = "paid" /\ MarkVerified(p)
           \/ /\ Verdict(p) = "gatewayError" /\ gw' = gw
        /\ End(w)
        /\ UNCHANGED <<db, subs, madeFor, handed, clock>>

\* Not paid: the row stays pending, unless this is an expiry.
VerifyNotPaid(w) ==
    LET p == job[w].pay
    IN  /\ job[w].step = "verify" /\ Verdict(p) = "notPaid"
        /\ IF job[w].kind = "expire"
           THEN asked' = asked /\ Goto(w, "expire")
           ELSE asked' = asked \cup {p} /\ End(w)
        /\ UNCHANGED <<status, invoice, authority, claimed, reference, subs, gateway, clock>>

\* A value that the CHECK of the column does not know.
ExpiryStatusUnknown == "expired"

ExpiryStatus == "canceled"

\* applyExpiry and the commit.
ApplyExpiry(w) ==
    LET p == job[w].pay
    IN  /\ job[w].step = "expire"
        /\ status' = [status EXCEPT ![p] = ExpiryStatus]
        /\ invoice' = [invoice EXCEPT ![p] = Voided(p)]
        /\ End(w)
        /\ UNCHANGED <<authority, asked, claimed, reference, subs, gateway, clock>>

\* The live subscription of the team as upsertSubscription's SELECT finds it.
LiveOf(p) ==
    IF ActiveOf(TeamOf[p]) = {} THEN None ELSE CHOOSE q \in ActiveOf(TeamOf[p]) : TRUE

\* Paid: the transaction goes on to the activation.
VerifyPaid(w) ==
    LET p == job[w].pay
    IN  /\ job[w].step = "verify" /\ Verdict(p) = "paid"
        /\ MarkVerified(p)
        /\ Becomes(w, [job[w] EXCEPT !.step = "activate", !.live = LiveOf(p)])
        /\ UNCHANGED <<db, subs, madeFor, handed, clock>>

\* The row is locked by now: somebody may have ended it since it was found.
Replaced(w) ==
    {q \in Payments : q = job[w].live /\ sub[q] = "active"}

\* The count raised without a look at ON CONFLICT DO NOTHING.
RedeemsAgain(p) == p \in Discounted

\* A new row in coupon_redemptions; a team has one at most.
Redeems(p) == p \in Discounted /\ TeamOf[p] \notin redeemed

\* Without the unique index on live subscriptions.
MayActivateBeside(w) ==
    LET p == job[w].pay
    IN  /\ Redeems(p) => redeemedCount < MaxRedemptions
        /\ job[w].ref # None => \A q \in Payments : reference[q] # job[w].ref

\* Without the unique index on bank references.
MayActivateTwice(w) ==
    LET p == job[w].pay
    IN  /\ Redeems(p) => redeemedCount < MaxRedemptions
        /\ ActiveOf(TeamOf[p]) \subseteq Replaced(w)

\* The constraints the statements of the activation can run into:
\* coupons_redemptions_ck, subscriptions_active_uq, payments_transfer_ref_uq.
MayActivate(w) ==
    LET p == job[w].pay
    IN  /\ Redeems(p) => redeemedCount < MaxRedemptions
        /\ ActiveOf(TeamOf[p]) \subseteq Replaced(w)
        /\ job[w].ref # None => \A q \in Payments : reference[q] # job[w].ref

\* The locks on the rows the activation reads or replaces.
SubsAreFree(p) == \A q \in ActiveOf(TeamOf[p]) : ~SubLocked(q)

\* activateFromPayment, upsertSubscription, the UPDATE to paid, and the commit.
\* A renewal of the same plan starts where the replaced period ends.
Activate(w) ==
    LET p == job[w].pay
        old == Replaced(w)
    IN  /\ job[w].step = "activate" /\ SubsAreFree(p) /\ MayActivate(w)
        /\ status' = [status EXCEPT ![p] = "paid"]
        /\ invoice' = [invoice EXCEPT ![p] = "paid"]
        /\ asked' = asked \ {p}
        /\ reference' = IF job[w].ref = None THEN reference
                        ELSE [reference EXCEPT ![p] = job[w].ref]
        /\ redeemed' = IF Redeems(p) THEN redeemed \cup {TeamOf[p]} ELSE redeemed
        /\ redeemedCount' = redeemedCount + (IF Redeems(p) THEN 1 ELSE 0)
        /\ sub' = [q \in Payments |->
                     IF q = p THEN "active" ELSE IF q \in old THEN "expired" ELSE sub[q]]
        /\ follows' = [follows EXCEPT ![p] =
                         IF old # {} /\ PlanOf[job[w].live] = PlanOf[p]
                            /\ job[w].live \notin ended
                         THEN job[w].live ELSE None]
        /\ End(w)
        /\ UNCHANGED <<authority, claimed, ended, leaving, gateway, clock>>

\* A constraint fails: the transaction is rolled back, the payment stays pending.
ActivateFails(w) ==
    /\ job[w].step = "activate" /\ SubsAreFree(job[w].pay) /\ ~MayActivate(w)
    /\ End(w)
    /\ UNCHANGED <<db, subs, gateway, clock>>

-----------------------------------------------------------------------------
(***************************************************************************)
(* Refunds.                                                                *)
(***************************************************************************)
AskRefund(w, p) ==
    /\ status[p] = "paid"
    /\ Begin(w, "refund", "wait", p)
    /\ UNCHANGED <<db, subs, gateway, clock>>

LockToRefund(w) ==
    /\ job[w].step = "wait" /\ job[w].kind = "refund" /\ ~Locked(job[w].pay)
    /\ IF status[job[w].pay] = "paid" THEN Goto(w, "refund") ELSE End(w)
    /\ UNCHANGED <<db, subs, gateway, clock>>

\* The subscription that goes with the refunded payment is found and locked.
FindTarget(w) ==
    LET p == job[w].pay
    IN  /\ ~SubLocked(p)
        /\ Becomes(w, [job[w] EXCEPT !.step = "restore",
                                   !.live = IF sub[p] = "active" THEN p ELSE None])

\* Money returned by hand, with the reference number of the bank.
RefundByHand(w) ==
    /\ job[w].step = "refund"
    /\ FindTarget(w)
    /\ UNCHANGED <<db, subs, gateway, clock>>

\* resolveRefundRef on the gateway's channel: it returns what it has verified once.
RefundByGateway(w) ==
    LET a == authority[job[w].pay]
    IN  /\ job[w].step = "refund" /\ provider = "online"
        /\ a # None /\ gw[a] = "verified"
        /\ gw' = [gw EXCEPT ![a] = "returned"]
        /\ FindTarget(w)
        /\ UNCHANGED <<db, subs, madeFor, handed, clock>>

\* Refused, unavailable, or the answer is lost after the money was returned.
RefundFails(w) ==
    LET a == authority[job[w].pay]
    IN  /\ job[w].step = "refund"
        /\ gw' \in IF provider = "online" /\ a # None /\ gw[a] = "verified"
                   THEN {gw, [gw EXCEPT ![a] = "returned"]} ELSE {gw}
        /\ End(w)
        /\ UNCHANGED <<db, subs, madeFor, handed, clock>>

\* The period that the cancelled one had replaced: expired but not over, and the
\* payment behind it still paid (FOR UPDATE OF s, p waits for a refund of it).
Restorable(w) ==
    {q \in Payments : /\ job[w].live # None /\ q = follows[job[w].live]
                      /\ sub[q] = "expired" /\ q \notin ended /\ status[q] = "paid"}

RestoreUnlocked(w) == TRUE

RestoreIsFree(w) == \A q \in Restorable(w) : ~Locked(q)

RefundCommit(w) ==
    LET p == job[w].pay
    IN  /\ job[w].step = "restore" /\ RestoreIsFree(w)
        /\ status' = [status EXCEPT ![p] = "refunded"]
        /\ invoice' = [invoice EXCEPT ![p] = IF @ = "paid" THEN "refunded" ELSE @]
        /\ sub' = [q \in Payments |->
                     IF q = job[w].live THEN "canceled"
                     ELSE IF q \in Restorable(w) THEN "active" ELSE sub[q]]
        /\ End(w)
        /\ UNCHANGED <<authority, asked, claimed, reference, follows, ended, leaving,
                       redeemed, redeemedCount, gateway, clock>>

-----------------------------------------------------------------------------
(***************************************************************************)
(* Adoption of an authority that no row has, by the sweep (online only).   *)
(***************************************************************************)
Orphans == {p \in Payments : status[p] = "pending" /\ authority[p] = None /\ p \in aged}

\* listUnverified without the authorities that some row knows.
Candidates(amount) ==
    {a \in Authorities : /\ gw[a] = "paid" /\ AmountOf[madeFor[a]] = amount
                         /\ \A q \in Payments : authority[q] # a}

\* matchOrphans: one orphan and one candidate of this amount, or nothing.
MatchOrphans(p, a) ==
    /\ {q \in Orphans : AmountOf[q] = AmountOf[p]} = {p}
    /\ Candidates(AmountOf[p]) = {a}

PlanAdoption(w, p, a) ==
    /\ provider = "online" /\ MatchOrphans(p, a)
    /\ job[w] = Idle
    /\ Becomes(w, [Idle EXCEPT !.kind = "adopt", !.step = "adopt", !.pay = p, !.auth = a])
    /\ UNCHANGED <<db, subs, gateway, clock>>

\* UPDATE ... WHERE authority IS NULL, then settleOne.
Adopt(w) ==
    LET p == job[w].pay
        a == job[w].auth
    IN  /\ job[w].step = "adopt" /\ ~Locked(p)
        /\ IF authority[p] = None /\ \A q \in Payments : authority[q] # a
           THEN /\ authority' = [authority EXCEPT ![p] = a]
                /\ Becomes(w, [Idle EXCEPT !.kind = "settle", !.step = "wait", !.pay = p])
           ELSE authority' = authority /\ End(w)
        /\ UNCHANGED <<status, invoice, asked, claimed, reference, subs, gateway, clock>>

-----------------------------------------------------------------------------
(***************************************************************************)
(* Card transfers.                                                         *)
(***************************************************************************)

\* claimTransfer: the user says that the money was sent.
ClaimTransfer(p) ==
    /\ provider = "transfer" /\ authority[p] # None
    /\ status[p] = "pending" /\ ~Locked(p)
    /\ claimed' = claimed \cup {p}
    /\ UNCHANGED <<status, invoice, authority, asked, reference, subs, gateway, clock, job>>

\* An operator found the transfer r in the bank's statement and approves p.
AskApprove(w, p, r) ==
    /\ provider = "transfer" /\ status[p] # "none" /\ job[w] = Idle
    /\ Becomes(w, [Idle EXCEPT !.kind = "approve", !.step = "wait", !.pay = p, !.ref = r])
    /\ UNCHANGED <<db, subs, gateway, clock>>

\* approveTransfer under the lock: refused, or settled in the same transaction.
\* Without an authority the approval alone is written.
LockToApprove(w) ==
    LET p == job[w].pay
        r == job[w].ref
        refused == status[p] # "pending"
                   \/ \E q \in Payments \ {p} : reference[q] = r
    IN  /\ job[w].step = "wait" /\ job[w].kind = "approve" /\ ~Locked(p)
        /\ IF ~refused /\ authority[p] # None
           THEN /\ Becomes(w, [job[w] EXCEPT !.step = "activate", !.live = LiveOf(p)])
                /\ UNCHANGED reference
           ELSE /\ End(w)
                /\ reference' = IF refused THEN reference
                                ELSE [reference EXCEPT ![p] = r]
        /\ UNCHANGED <<status, invoice, authority, asked, claimed, subs, gateway, clock>>

-----------------------------------------------------------------------------
(***************************************************************************)
(* Subscriptions, time and failures.                                       *)
(***************************************************************************)

\* POST /teams/:teamId/billing/cancel
CancelAtPeriodEnd(t) ==
    /\ ActiveOf(t) # {} /\ \A p \in ActiveOf(t) : ~SubLocked(p) /\ p \notin leaving
    /\ leaving' = leaving \cup ActiveOf(t)
    /\ UNCHANGED <<db, sub, follows, ended, redeemed, redeemedCount, gateway, clock, job>>

\* endFinishedSubscriptions, at the end of a sweep.
EndFinished ==
    LET over == {p \in ended : sub[p] = "active"}
    IN  /\ over # {} /\ \A p \in over : ~SubLocked(p)
        /\ sub' = [p \in Payments |->
                     IF p \notin over THEN sub[p]
                     ELSE IF p \in leaving THEN "canceled" ELSE "expired"]
        /\ UNCHANGED <<db, follows, ended, leaving, redeemed, redeemedCount,
                       gateway, clock, job>>

\* The user pays on the gateway's page.
UserPays(a) ==
    /\ provider = "online" /\ gw[a] = "open" /\ a \in handed
    /\ gw' = [gw EXCEPT ![a] = "paid"]
    /\ UNCHANGED <<db, subs, madeFor, handed, clock, job>>

\* A period is over; the ones it follows ended before it.
PeriodEnds(p) ==
    /\ sub[p] \in {"active", "expired"} /\ p \notin ended
    /\ follows[p] = None \/ follows[p] \in ended
    /\ ended' = ended \cup {p}
    /\ UNCHANGED <<db, sub, follows, leaving, redeemed, redeemedCount, gateway, clock, job>>

\* The thresholds of the sweep pass for every payment there is; a checkout takes
\* seconds, so none is under way.
TimePasses ==
    /\ \A w \in Workers : job[w].kind # "checkout"
    /\ \E p \in Payments \ aged : status[p] # "none"
    /\ aged' = {p \in Payments : status[p] # "none"}
    /\ UNCHANGED <<db, subs, gateway, provider, faults, job>>

\* The process dies or the database closes the connection: rollback.  That a user
\* may pay for what the row does not know yet is matchOrphans' own assumption.
Crash(w) ==
    /\ job[w] # Idle /\ faults < MaxFaults
    /\ faults' = faults + 1
    /\ handed' = IF job[w].step = "store" THEN handed \cup {job[w].auth} ELSE handed
    /\ End(w)
    /\ UNCHANGED <<db, subs, gw, madeFor, provider, aged>>

Checkout(w) ==
    \/ \E p \in Payments : CreateCheckout(w, p) \/ ReplayCheckout(w, p)
    \/ CreatePayment(w) \/ CreateFails(w) \/ StoreAuthority(w) \/ StoreFails(w)
    \/ VoidInvoice(w) \/ VoidPayment(w)

Settle(w) ==
    \/ \E p \in Payments : AskSettle(w, p) \/ AskExpire(w, p)
    \/ \E a \in Authorities : Callback(w, a)
    \/ LockToSettle(w) \/ VerifyError(w) \/ VerifyNotPaid(w) \/ VerifyPaid(w)
    \/ ApplyExpiry(w)
    \/ Activate(w) \/ ActivateFails(w)

Refund(w) ==
    \/ \E p \in Payments : AskRefund(w, p)
    \/ LockToRefund(w) \/ RefundByHand(w) \/ RefundByGateway(w) \/ RefundFails(w)
    \/ RefundCommit(w)

Operate(w) ==
    \/ \E p \in Payments, a \in Authorities : PlanAdoption(w, p, a)
    \/ \E p \in Payments, r \in Refs : AskApprove(w, p, r)
    \/ Adopt(w) \/ LockToApprove(w) \/ Crash(w)

Environment ==
    \/ \E p \in Payments : ClaimTransfer(p) \/ PeriodEnds(p)
    \/ \E t \in Teams : CancelAtPeriodEnd(t)
    \/ \E a \in Authorities : UserPays(a)
    \/ EndFinished \/ TimePasses

Next ==
    \/ \E w \in Workers : Checkout(w) \/ Settle(w) \/ Refund(w) \/ Operate(w)
    \/ Environment

Spec == Init /\ [][Next]_vars
-----------------------------------------------------------------------------
(***************************************************************************)
(* Properties.                                                             *)
(***************************************************************************)

\* A team has one live subscription at most, also when two payments of it are
\* settled or refunded at the same time.  Only the activation leans on the unique
\* index; a refund that restores a period must get there by its locks.
OneLivePerTeam ==
    \A p, q \in Payments :
        sub[p] = "active" /\ sub[q] = "active" /\ TeamOf[p] = TeamOf[q] => p = q

\* No live subscription without a paid payment behind it: a refund of a renewal
\* does not bring back a period whose own payment is being refunded.
LiveIsPaidFor == \A p \in Payments : sub[p] = "active" => status[p] = "paid"

\* Invoice and payment agree at the end of every transaction, though a checkout
\* that failed voids the two one after the other while others settle the payment.
InvoiceAgrees ==
    \A p \in Payments :
        /\ status[p] = "paid" <=> invoice[p] = "paid"
        /\ status[p] = "refunded" <=> invoice[p] = "refunded"
        /\ status[p] \in {"failed", "canceled"} => invoice[p] = "void"

\* What a user has claimed to have transferred is never expired by the sweep.
ClaimedIsNotExpired == \A p \in claimed : status[p] # "canceled"

\* An expired payment is one the gateway has not settled: the user who pays while
\* the sweep gives up on the payment is activated or not charged.
ExpiredWasNotCharged ==
    \A p \in Payments :
        status[p] = "canceled" /\ authority[p] # None => gw[authority[p]] # "verified"

\* A bank transfer pays for one payment.
TransferPaysOnce ==
    \A p, q \in Payments : reference[p] = reference[q] /\ reference[p] # None => p = q

\* A coupon is counted once for each team, however many checkouts named it.
RedemptionsAreCounted ==
    redeemedCount = Cardinality(redeemed) /\ redeemedCount <= MaxRedemptions

\* A payment the gateway has charged for is one that can still be activated.
ChargedFitsCoupon ==
    \A p \in Payments :
        /\ status[p] = "pending" /\ authority[p] # None
        /\ provider = "online" /\ gw[authority[p]] = "verified"
        => (Redeems(p) => redeemedCount < MaxRedemptions)

\* What the gateway has charged for is activated or not pending any more.
Owed(p) ==
    /\ status[p] = "pending" /\ authority[p] # None
    /\ provider = "online" /\ gw[authority[p]] = "verified"

PaidIsActivated == \A p \in Payments : Owed(p) ~> ~Owed(p)

\* Everything above moves payments and subscriptions along their lifecycle only.
Lifecycle == INSTANCE PaymentLifecycle
FollowsLifecycle == Lifecycle!Spec

\* An adopted authority was made for the payment that gets it, or at least for one
\* that has lost its own: never for one whose row says that it has another.
AdoptedIsOwn ==
    \A p \in Payments :
        authority[p] # None /\ madeFor[authority[p]] # p
        => authority[madeFor[authority[p]]] = None

(***************************************************************************)
(* The sweep comes back to every pending payment; a transaction ends; the  *)
(* gateway and the database do not fail for ever.                          *)
(***************************************************************************)
Fairness ==
    /\ \A p \in Payments :
         SF_vars(status[p] = "pending" /\ \E w \in Workers : AskSettle(w, p))
    /\ \A w \in Workers :
         /\ WF_vars(LockToSettle(w) \/ LockToRefund(w) \/ LockToApprove(w) \/ Adopt(w))
         /\ WF_vars(CreatePayment(w) \/ CreateFails(w) \/ StoreFails(w) \/ VoidInvoice(w) \/ VoidPayment(w))
         /\ WF_vars(VerifyNotPaid(w) \/ VerifyError(w) \/ ApplyExpiry(w))
         /\ WF_vars(RefundFails(w) \/ RefundCommit(w) \/ ActivateFails(w))
         /\ \A p \in Payments :
              /\ SF_vars(job[w].pay = p /\ VerifyPaid(w))
              /\ SF_vars(job[w].pay = p /\ Activate(w))

FairSpec == Spec /\ Fairness
=============================================================================
