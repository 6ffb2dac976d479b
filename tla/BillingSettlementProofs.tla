---------------------- MODULE BillingSettlementProofs ----------------------
(***************************************************************************)
(* What holds of the payments for any number of payments, gateway          *)
(* authorities, workers and failures.                                      *)
(***************************************************************************)
EXTENDS BillingSettlement, FiniteSetTheorems, TLAPS

(***************************************************************************)
(* The inductive invariant, in layers: what the rows say (Rows), then      *)
(* subscriptions (Subs) and authorities (Books) and expiry (Expiry) on top *)
(* of it.  The locks are read off the steps of the workers, so what a      *)
(* worker has read under its lock is a fact about its step.                *)
(***************************************************************************)
LockSteps == {"verify", "activate", "expire", "refund", "restore"}

JobShape ==
    \A w \in Workers :
        /\ job[w].step \notin {"idle", "wait"} => job[w].pay # None
        /\ job[w].kind \in {"refund", "approve"} => job[w].pay # None
        /\ job[w].step \in {"store", "adopt"} => job[w].auth # None

\* FOR UPDATE: one transaction at a time has a payment's row.
LocksExclude ==
    \A v, w \in Workers :
        /\ job[v].step \in LockSteps /\ job[w].step \in LockSteps
        /\ job[v].pay = job[w].pay
        => v = w

\* Authorities are drawn once and are in one row at most.
StoreAt(w) ==
    job[w].step = "store" =>
        /\ gw[job[w].auth] = "open" /\ job[w].auth \notin handed
        /\ \A p \in Payments : authority[p] # job[w].auth

AuthoritiesAreFresh ==
    /\ \A p, q \in Payments : authority[p] = authority[q] /\ authority[p] # None => p = q
    /\ \A p \in Payments : authority[p] # None => gw[authority[p]] # "unused"
    /\ \A a \in handed : gw[a] # "unused"
    /\ \A a \in Authorities : gw[a] = "paid" => a \in handed
    /\ \A w \in Workers : job[w].step = "adopt" => job[w].auth \in handed
    /\ \A w \in Workers : StoreAt(w)
    /\ \A v, w \in Workers :
          job[v].step = "store" /\ job[w].step = "store" /\ job[v].auth = job[w].auth => v = w

\* What the rows say while a worker has them, and what never changes back.
HeldAt(w) ==
    /\ job[w].step \in {"verify", "activate", "expire"} => status[job[w].pay] = "pending"
    /\ job[w].step \in {"verify", "expire"} => authority[job[w].pay] # None
    /\ job[w].step \in {"refund", "restore"} => status[job[w].pay] = "paid"
    /\ job[w].step \in {"create", "store", "void", "fail"} => status[job[w].pay] # "none"
    /\ job[w].step = "fail" => invoice[job[w].pay] # "open"

RowsHeld == \A w \in Workers : HeldAt(w)

RowsAgree ==
    /\ InvoiceAgrees
    /\ \A p \in Payments :
          /\ status[p] = "none" => invoice[p] = "none"
          /\ status[p] = "pending" => invoice[p] \in {"open", "void"}
          /\ status[p] = "canceled" => authority[p] # None

LiveAt(w) ==
    /\ job[w].step = "restore" =>
          /\ job[w].live \in {None, job[w].pay}
          /\ sub[job[w].pay] = "active" => job[w].live = job[w].pay
          /\ job[w].live # None => sub[job[w].live] = "active"
    /\ job[w].step = "activate" /\ job[w].live # None =>
          TeamOf[job[w].live] = TeamOf[job[w].pay]

SubsHeld == \A w \in Workers : LiveAt(w)

SubsAgree ==
    /\ OneLivePerTeam /\ LiveIsPaidFor
    /\ \A p \in Payments : follows[p] # None => TeamOf[follows[p]] = TeamOf[p]

\* What an expiry has found out stays true until it commits.
ExpiryHeld ==
    /\ provider = "online" => claimed = {}
    /\ provider = "transfer" => \A a \in Authorities : gw[a] # "verified"
    /\ \A w \in Workers : job[w].step = "expire" =>
          job[w].pay \notin claimed /\ gw[authority[job[w].pay]] # "verified"
    /\ ClaimedIsNotExpired /\ ExpiredWasNotCharged

-----------------------------------------------------------------------------
(***************************************************************************)
(* The moves of the workers.                                               *)
(***************************************************************************)
Kinds == {"idle", "checkout", "settle", "expire", "refund", "adopt", "approve"}

Steps == {"idle", "create", "store", "void", "fail", "wait", "verify",
          "activate", "expire", "refund", "restore", "adopt"}

\* Worker w is here now, and the others are where they were.
Moved(w, kind, step, pay, auth, live, ref) ==
    /\ job' \in [Workers -> Job]
    /\ job'[w].kind = kind /\ job'[w].step = step /\ job'[w].pay = pay
    /\ job'[w].auth = auth /\ job'[w].live = live /\ job'[w].ref = ref
    /\ \A v \in Workers : v # w => job'[v] = job[v]

LEMMA JobFields ==
    ASSUME TypeOK, NEW w \in Workers
    PROVE  /\ job[w].kind \in Kinds /\ job[w].step \in Steps
           /\ job[w].pay \in Payments \cup {None} /\ job[w].auth \in Authorities \cup {None}
           /\ job[w].live \in Payments \cup {None} /\ job[w].ref \in Refs \cup {None}
           /\ job[w] \in Job
  BY DEF TypeOK, Job, Kinds, Steps

LEMMA IdleJob == Idle \in Job
  BY DEF Idle, Job

LEMMA MoveTo ==
    ASSUME TypeOK, NEW w \in Workers, NEW j \in Job, Becomes(w, j)
    PROVE  Moved(w, j.kind, j.step, j.pay, j.auth, j.live, j.ref)
  BY DEF Moved, Becomes, TypeOK

\* A job whose fields are given.
LEMMA MoveFields ==
    ASSUME TypeOK, NEW w \in Workers, NEW j, NEW kind \in Kinds, NEW step \in Steps,
           NEW p \in Payments \cup {None}, NEW a \in Authorities \cup {None},
           NEW l \in Payments \cup {None}, NEW r \in Refs \cup {None},
           j = [kind |-> kind, step |-> step, pay |-> p, auth |-> a, live |-> l, ref |-> r],
           Becomes(w, j)
    PROVE  Moved(w, kind, step, p, a, l, r)
  <1>1. j \in Job
    BY DEF Job, Kinds, Steps
  <1>2. /\ j.kind = kind /\ j.step = step /\ j.pay = p /\ j.auth = a /\ j.live = l
        /\ j.ref = r
    OBVIOUS
  <1>3. Moved(w, j.kind, j.step, j.pay, j.auth, j.live, j.ref)
    BY <1>1, MoveTo
  <1> QED  BY <1>2, <1>3

LEMMA MoveEnd ==
    ASSUME TypeOK, NEW w \in Workers, End(w)
    PROVE  Moved(w, "idle", "idle", None, None, None, None)
  BY MoveFields DEF End, Idle, Kinds, Steps

LEMMA MoveGoto ==
    ASSUME TypeOK, NEW w \in Workers, NEW step \in Steps, Goto(w, step)
    PROVE  Moved(w, job[w].kind, step, job[w].pay, job[w].auth, job[w].live, job[w].ref)
  <1>1. job[w] \in Job
    BY JobFields
  <1>2. [job[w] EXCEPT !.step = step] =
          [kind |-> job[w].kind, step |-> step, pay |-> job[w].pay, auth |-> job[w].auth,
           live |-> job[w].live, ref |-> job[w].ref]
    BY <1>1 DEF Job
  <1> QED  BY <1>2, JobFields, MoveFields DEF Goto

\* A worker that begins something.
LEMMA MoveBegin ==
    ASSUME TypeOK, NEW w \in Workers, NEW kind \in Kinds, NEW step \in Steps,
           NEW p \in Payments, Begin(w, kind, step, p)
    PROVE  Moved(w, kind, step, p, None, None, None)
  <1> DEFINE j == [Idle EXCEPT !.kind = kind, !.step = step, !.pay = p]
  <1>1. j \in Job
    BY IdleJob DEF Idle, Job, Kinds, Steps
  <1>2. /\ j.kind = kind /\ j.step = step /\ j.pay = p
        /\ j.auth = None /\ j.live = None /\ j.ref = None
    BY IdleJob DEF Idle, Job
  <1>3. Becomes(w, j)
    BY DEF Begin
  <1> HIDE DEF j
  <1>4. Moved(w, j.kind, j.step, j.pay, j.auth, j.live, j.ref)
    BY <1>1, <1>3, MoveTo
  <1> QED  BY <1>2, <1>4

\* The other ways on.
LEMMA MoveCallback ==
    ASSUME TypeOK, NEW w \in Workers, NEW a \in Authorities, Callback(w, a)
    PROVE  Moved(w, "settle", "wait", None, a, None, None)
  <1> DEFINE j == [Idle EXCEPT !.kind = "settle", !.step = "wait", !.auth = a]
  <1>1. j \in Job
    BY IdleJob DEF Idle, Job, Kinds, Steps
  <1>2. /\ j.kind = "settle" /\ j.step = "wait" /\ j.pay = None
        /\ j.auth = a /\ j.live = None /\ j.ref = None
    BY IdleJob DEF Idle, Job
  <1>3. Becomes(w, j)
    BY DEF Callback
  <1> HIDE DEF j
  <1>4. Moved(w, j.kind, j.step, j.pay, j.auth, j.live, j.ref)
    BY <1>1, <1>3, MoveTo
  <1> QED  BY <1>2, <1>4

LEMMA MoveApprove ==
    ASSUME TypeOK, NEW w \in Workers, NEW p \in Payments, NEW r \in Refs, AskApprove(w, p, r)
    PROVE  Moved(w, "approve", "wait", p, None, None, r)
  <1> DEFINE j == [Idle EXCEPT !.kind = "approve", !.step = "wait", !.pay = p, !.ref = r]
  <1>1. j \in Job
    BY IdleJob DEF Idle, Job, Kinds, Steps
  <1>2. /\ j.kind = "approve" /\ j.step = "wait" /\ j.pay = p
        /\ j.auth = None /\ j.live = None /\ j.ref = r
    BY IdleJob DEF Idle, Job
  <1>3. Becomes(w, j)
    BY DEF AskApprove
  <1> HIDE DEF j
  <1>4. Moved(w, j.kind, j.step, j.pay, j.auth, j.live, j.ref)
    BY <1>1, <1>3, MoveTo
  <1> QED  BY <1>2, <1>4

LEMMA MoveAdoption ==
    ASSUME TypeOK, NEW w \in Workers, NEW p \in Payments, NEW a \in Authorities,
           PlanAdoption(w, p, a)
    PROVE  Moved(w, "adopt", "adopt", p, a, None, None)
  <1> DEFINE j == [Idle EXCEPT !.kind = "adopt", !.step = "adopt", !.pay = p, !.auth = a]
  <1>1. j \in Job
    BY IdleJob DEF Idle, Job, Kinds, Steps
  <1>2. /\ j.kind = "adopt" /\ j.step = "adopt" /\ j.pay = p
        /\ j.auth = a /\ j.live = None /\ j.ref = None
    BY IdleJob DEF Idle, Job
  <1>3. Becomes(w, j)
    BY DEF PlanAdoption
  <1> HIDE DEF j
  <1>4. Moved(w, j.kind, j.step, j.pay, j.auth, j.live, j.ref)
    BY <1>1, <1>3, MoveTo
  <1> QED  BY <1>2, <1>4

LEMMA MoveStore ==
    ASSUME TypeOK, NEW w \in Workers, NEW a \in Authorities,
           Becomes(w, [job[w] EXCEPT !.step = "store", !.auth = a])
    PROVE  Moved(w, job[w].kind, "store", job[w].pay, a, job[w].live, job[w].ref)
  <1> DEFINE j == [job[w] EXCEPT !.step = "store", !.auth = a]
  <1>1. j \in Job
    BY JobFields DEF Job, Kinds, Steps
  <1>2. /\ j.kind = job[w].kind /\ j.step = "store" /\ j.pay = job[w].pay
        /\ j.auth = a /\ j.live = job[w].live /\ j.ref = job[w].ref
    BY JobFields DEF Job
  <1>3. Becomes(w, j)
    OBVIOUS
  <1> HIDE DEF j
  <1>4. Moved(w, j.kind, j.step, j.pay, j.auth, j.live, j.ref)
    BY <1>1, <1>3, MoveTo
  <1> QED  BY <1>2, <1>4

LEMMA MoveVerify ==
    ASSUME TypeOK, NEW w \in Workers, NEW p \in Payments,
           Becomes(w, [job[w] EXCEPT !.step = "verify", !.pay = p])
    PROVE  Moved(w, job[w].kind, "verify", p, job[w].auth, job[w].live, job[w].ref)
  <1> DEFINE j == [job[w] EXCEPT !.step = "verify", !.pay = p]
  <1>1. j \in Job
    BY JobFields DEF Job, Kinds, Steps
  <1>2. /\ j.kind = job[w].kind /\ j.step = "verify" /\ j.pay = p
        /\ j.auth = job[w].auth /\ j.live = job[w].live /\ j.ref = job[w].ref
    BY JobFields DEF Job
  <1>3. Becomes(w, j)
    OBVIOUS
  <1> HIDE DEF j
  <1>4. Moved(w, j.kind, j.step, j.pay, j.auth, j.live, j.ref)
    BY <1>1, <1>3, MoveTo
  <1> QED  BY <1>2, <1>4

LEMMA MoveLive ==
    ASSUME TypeOK, NEW w \in Workers, NEW step \in Steps, NEW l \in Payments \cup {None},
           Becomes(w, [job[w] EXCEPT !.step = step, !.live = l])
    PROVE  Moved(w, job[w].kind, step, job[w].pay, job[w].auth, l, job[w].ref)
  <1> DEFINE j == [job[w] EXCEPT !.step = step, !.live = l]
  <1>1. j \in Job
    BY JobFields DEF Job, Kinds, Steps
  <1>2. /\ j.kind = job[w].kind /\ j.step = step /\ j.pay = job[w].pay
        /\ j.auth = job[w].auth /\ j.live = l /\ j.ref = job[w].ref
    BY JobFields DEF Job
  <1>3. Becomes(w, j)
    OBVIOUS
  <1> HIDE DEF j
  <1>4. Moved(w, j.kind, j.step, j.pay, j.auth, j.live, j.ref)
    BY <1>1, <1>3, MoveTo
  <1> QED  BY <1>2, <1>4

\* The live subscription that an activation finds is one of the team, or none.
LEMMA LiveOfType ==
    ASSUME NEW p \in Payments
    PROVE  /\ LiveOf(p) \in Payments \cup {None}
           /\ LiveOf(p) # None => TeamOf[LiveOf(p)] = TeamOf[p]
  <1>1. CASE ActiveOf(TeamOf[p]) = {}
    BY <1>1 DEF LiveOf
  <1>2. CASE ActiveOf(TeamOf[p]) # {}
    <2>1. LiveOf(p) \in ActiveOf(TeamOf[p])
      BY <1>2 DEF LiveOf
    <2> QED  BY <2>1 DEF ActiveOf
  <1> QED  BY <1>1, <1>2

\* The worker is done.
Ended(w) == Moved(w, "idle", "idle", None, None, None, None)

\* It goes to the next step of what it is doing.
Went(w, step) == Moved(w, job[w].kind, step, job[w].pay, job[w].auth, job[w].live, job[w].ref)

\* It found the live subscription l, if any.
Found(w, step, l) == Moved(w, job[w].kind, step, job[w].pay, job[w].auth, l, job[w].ref)

LEMMA CheckoutMoves ==
    ASSUME TypeOK, JobShape, NEW w \in Workers
    PROVE  /\ \A p \in Payments : CreateCheckout(w, p) \/ ReplayCheckout(w, p)
                => Moved(w, "checkout", "create", p, None, None, None)
           /\ CreatePayment(w) => \E a \in Authorities :
                /\ gw[a] = "unused" /\ gw' = [gw EXCEPT ![a] = "open"]
                /\ Moved(w, job[w].kind, "store", job[w].pay, a, job[w].live, job[w].ref)
           /\ CreateFails(w) \/ StoreFails(w) => Went(w, "void")
           /\ VoidInvoice(w) => Went(w, "fail")
           /\ StoreAuthority(w) \/ VoidPayment(w) => Ended(w)
  <1>1. ASSUME NEW p \in Payments, CreateCheckout(w, p) \/ ReplayCheckout(w, p)
        PROVE  Moved(w, "checkout", "create", p, None, None, None)
    BY <1>1, MoveBegin DEF CreateCheckout, ReplayCheckout, Kinds, Steps
  <1>2. ASSUME CreatePayment(w)
        PROVE  \E a \in Authorities :
                /\ gw[a] = "unused" /\ gw' = [gw EXCEPT ![a] = "open"]
                /\ Moved(w, job[w].kind, "store", job[w].pay, a, job[w].live, job[w].ref)
    <2> DEFINE a == CHOOSE b \in Unused : TRUE
    <2>1. a \in Unused
      BY <1>2 DEF CreatePayment
    <2>2. a \in Authorities /\ gw[a] = "unused"
      BY <2>1 DEF Unused
    <2>3. gw' = [gw EXCEPT ![a] = "open"] /\ Becomes(w, [job[w] EXCEPT !.step = "store", !.auth = a])
      BY <1>2 DEF CreatePayment
    <2> HIDE DEF a
    <2> QED  BY <2>2, <2>3, MoveStore
  <1>3. CreateFails(w) \/ StoreFails(w) => Went(w, "void")
    BY MoveGoto DEF CreateFails, StoreFails, Went, Steps
  <1>4. VoidInvoice(w) => Went(w, "fail")
    BY MoveGoto DEF VoidInvoice, Went, Steps
  <1>5. StoreAuthority(w) \/ VoidPayment(w) => Ended(w)
    BY MoveEnd DEF StoreAuthority, VoidPayment, Ended
  <1> QED  BY <1>1, <1>2, <1>3, <1>4, <1>5

LEMMA SettleMoves ==
    ASSUME TypeOK, JobShape, NEW w \in Workers
    PROVE  /\ \A p \in Payments : AskSettle(w, p)
                => Moved(w, "settle", "wait", p, None, None, None)
           /\ \A p \in Payments : AskExpire(w, p)
                => Moved(w, "expire", "wait", p, None, None, None)
           /\ \A a \in Authorities : Callback(w, a)
                => Moved(w, "settle", "wait", None, a, None, None)
           /\ LockToSettle(w) => \/ Ended(w)
                                 \/ \E p \in Payments :
                                      /\ ~Locked(p) /\ Settles(p)
                                      /\ Moved(w, job[w].kind, "verify", p, job[w].auth,
                                               job[w].live, job[w].ref)
           /\ VerifyNotPaid(w) => Ended(w) \/ (job[w].kind = "expire" /\ Went(w, "expire"))
           /\ VerifyPaid(w) => \E l \in Payments \cup {None} :
                /\ l # None => TeamOf[l] = TeamOf[job[w].pay]
                /\ Found(w, "activate", l)
           /\ VerifyError(w) \/ ApplyExpiry(w) \/ Activate(w) \/ ActivateFails(w) => Ended(w)
  <1>1. ASSUME NEW p \in Payments
        PROVE  /\ AskSettle(w, p) => Moved(w, "settle", "wait", p, None, None, None)
               /\ AskExpire(w, p) => Moved(w, "expire", "wait", p, None, None, None)
    BY MoveBegin DEF AskSettle, AskExpire, Kinds, Steps
  <1>2. ASSUME LockToSettle(w), ~Ended(w)
        PROVE  \E p \in Payments :
                  /\ ~Locked(p) /\ Settles(p)
                  /\ Moved(w, job[w].kind, "verify", p, job[w].auth, job[w].live, job[w].ref)
    <2>1. ~End(w)
      BY <1>2, MoveEnd DEF Ended
    <2>2. PICK p \in Payments : /\ ~Locked(p) /\ Settles(p)
                                /\ Becomes(w, [job[w] EXCEPT !.step = "verify", !.pay = p])
      BY <1>2, <2>1 DEF LockToSettle
    <2> QED  BY <2>2, MoveVerify
  <1>3. VerifyNotPaid(w) => Ended(w) \/ (job[w].kind = "expire" /\ Went(w, "expire"))
    BY MoveEnd, MoveGoto DEF VerifyNotPaid, Ended, Went, Steps
  <1>4. ASSUME VerifyPaid(w)
        PROVE  \E l \in Payments \cup {None} :
                /\ l # None => TeamOf[l] = TeamOf[job[w].pay]
                /\ Found(w, "activate", l)
    <2>1. job[w].pay \in Payments
      BY <1>4, JobFields DEF VerifyPaid, JobShape
    <2>2. LiveOf(job[w].pay) \in Payments \cup {None}
      BY <2>1, LiveOfType
    <2>3. Found(w, "activate", LiveOf(job[w].pay))
      BY <1>4, <2>2, MoveLive DEF VerifyPaid, Found, Steps
    <2> QED  BY <2>1, <2>2, <2>3, LiveOfType
  <1>5. VerifyError(w) \/ ApplyExpiry(w) \/ Activate(w) \/ ActivateFails(w) => Ended(w)
    BY MoveEnd DEF VerifyError, ApplyExpiry, Activate, ActivateFails, Ended
  <1> QED  BY <1>1, <1>2, <1>3, <1>4, <1>5, MoveCallback

LEMMA RefundMoves ==
    ASSUME TypeOK, JobShape, NEW w \in Workers
    PROVE  /\ \A p \in Payments : AskRefund(w, p)
                => Moved(w, "refund", "wait", p, None, None, None)
           /\ LockToRefund(w) => \/ Ended(w)
                                 \/ /\ status[job[w].pay] = "paid" /\ ~Locked(job[w].pay)
                                    /\ Went(w, "refund")
           /\ RefundByHand(w) \/ RefundByGateway(w) =>
                Found(w, "restore", IF sub[job[w].pay] = "active" THEN job[w].pay ELSE None)
           /\ RefundFails(w) \/ RefundCommit(w) => Ended(w)
  <1>1. ASSUME NEW p \in Payments, AskRefund(w, p)
        PROVE  Moved(w, "refund", "wait", p, None, None, None)
    BY <1>1, MoveBegin DEF AskRefund, Kinds, Steps
  <1>2. LockToRefund(w) => \/ Ended(w)
                           \/ /\ status[job[w].pay] = "paid" /\ ~Locked(job[w].pay)
                              /\ Went(w, "refund")
    BY MoveEnd, MoveGoto DEF LockToRefund, Ended, Went, Steps
  <1>3. ASSUME RefundByHand(w) \/ RefundByGateway(w)
        PROVE  Found(w, "restore", IF sub[job[w].pay] = "active" THEN job[w].pay ELSE None)
    <2>1. FindTarget(w)
      BY <1>3 DEF RefundByHand, RefundByGateway
    <2> QED  BY <2>1, MoveLive, JobFields DEF FindTarget, Found, Steps
  <1>4. RefundFails(w) \/ RefundCommit(w) => Ended(w)
    BY MoveEnd DEF RefundFails, RefundCommit, Ended
  <1> QED  BY <1>1, <1>2, <1>3, <1>4

LEMMA OperateMoves ==
    ASSUME TypeOK, JobShape, NEW w \in Workers
    PROVE  /\ \A p \in Payments, a \in Authorities : PlanAdoption(w, p, a)
                => Moved(w, "adopt", "adopt", p, a, None, None)
           /\ \A p \in Payments, r \in Refs : AskApprove(w, p, r)
                => Moved(w, "approve", "wait", p, None, None, r)
           /\ Adopt(w) => Ended(w) \/ Moved(w, "settle", "wait", job[w].pay, None, None, None)
           /\ LockToApprove(w) =>
                \/ Ended(w)
                \/ /\ status[job[w].pay] = "pending" /\ ~Locked(job[w].pay)
                   /\ \E l \in Payments \cup {None} :
                        /\ l # None => TeamOf[l] = TeamOf[job[w].pay]
                        /\ Found(w, "activate", l)
           /\ Crash(w) => Ended(w)
  <1>1. ASSUME Adopt(w), ~Ended(w)
        PROVE  Moved(w, "settle", "wait", job[w].pay, None, None, None)
    <2>1. Becomes(w, [Idle EXCEPT !.kind = "settle", !.step = "wait", !.pay = job[w].pay])
      BY <1>1, MoveEnd DEF Adopt, Ended
    <2> DEFINE j == [Idle EXCEPT !.kind = "settle", !.step = "wait", !.pay = job[w].pay]
    <2>2. j \in Job
      BY IdleJob, JobFields DEF Idle, Job
    <2>3. /\ j.kind = "settle" /\ j.step = "wait" /\ j.pay = job[w].pay
          /\ j.auth = None /\ j.live = None /\ j.ref = None
      BY IdleJob DEF Idle, Job
    <2>4. Becomes(w, j)
      BY <2>1
    <2> HIDE DEF j
    <2>5. Moved(w, j.kind, j.step, j.pay, j.auth, j.live, j.ref)
      BY <2>2, <2>4, MoveTo
    <2> QED  BY <2>3, <2>5
  <1>2. ASSUME LockToApprove(w), ~Ended(w)
        PROVE  /\ status[job[w].pay] = "pending" /\ ~Locked(job[w].pay)
               /\ \E l \in Payments \cup {None} :
                    /\ l # None => TeamOf[l] = TeamOf[job[w].pay]
                    /\ Found(w, "activate", l)
    <2>1. /\ status[job[w].pay] = "pending" /\ ~Locked(job[w].pay)
          /\ Becomes(w, [job[w] EXCEPT !.step = "activate", !.live = LiveOf(job[w].pay)])
      BY <1>2, MoveEnd DEF LockToApprove, Ended
    <2>2. job[w].pay \in Payments
      BY <1>2, JobFields DEF LockToApprove, JobShape
    <2>3. LiveOf(job[w].pay) \in Payments \cup {None}
      BY <2>2, LiveOfType
    <2>4. Found(w, "activate", LiveOf(job[w].pay))
      BY <2>1, <2>3, MoveLive DEF Found, Steps
    <2> QED  BY <2>1, <2>2, <2>3, <2>4, LiveOfType
  <1>3. Crash(w) => Ended(w)
    BY MoveEnd DEF Crash, Ended
  <1> QED  BY <1>1, <1>2, <1>3, MoveAdoption, MoveApprove

-----------------------------------------------------------------------------
\* Types

LEMMA MovedType ==
    ASSUME TypeOK, JobShape, NEW w \in Workers, NEW kind, NEW step, NEW p, NEW a, NEW l, NEW r,
           Moved(w, kind, step, p, a, l, r),
           step \notin {"idle", "wait"} => p # None,
           kind \in {"refund", "approve"} => p # None,
           step \in {"store", "adopt"} => a # None
    PROVE  job' \in [Workers -> Job] /\ JobShape'
  BY DEF Moved, JobShape

LEMMA EndedType ==
    ASSUME TypeOK, JobShape, NEW w \in Workers, Ended(w)
    PROVE  job' \in [Workers -> Job] /\ JobShape'
  BY MovedType DEF Ended

\* A worker that goes on keeps its payment.
LEMMA WentType ==
    ASSUME TypeOK, JobShape, NEW w \in Workers, job[w].step # "idle",
           job[w].pay # None, NEW step \in Steps, step \notin {"store", "adopt"},
           \E l : Found(w, step, l)
    PROVE  job' \in [Workers -> Job] /\ JobShape'
  <1>1. PICK l : Found(w, step, l)
    OBVIOUS
  <1> QED  BY <1>1, MovedType DEF Found

LEMMA ShapeTypes ==
    ASSUME TypeOK, JobShape, NEW w \in Workers
    PROVE  Checkout(w) \/ Settle(w) \/ Refund(w) \/ Operate(w)
             => job' \in [Workers -> Job] /\ JobShape'
  <1>1. ASSUME Checkout(w) PROVE job' \in [Workers -> Job] /\ JobShape'
    <2>1. CASE \E p \in Payments : CreateCheckout(w, p)
      <3>1. PICK p \in Payments : Moved(w, "checkout", "create", p, None, None, None)
        BY <2>1, CheckoutMoves
      <3> QED  BY <3>1, MovedType, NoneAssumption
    <2>2. CASE \E p \in Payments : ReplayCheckout(w, p)
      <3>1. PICK p \in Payments : Moved(w, "checkout", "create", p, None, None, None)
        BY <2>2, CheckoutMoves
      <3> QED  BY <3>1, MovedType, NoneAssumption
    <2>3. CASE CreatePayment(w)
      <3>1. PICK a \in Authorities :
                Moved(w, job[w].kind, "store", job[w].pay, a, job[w].live, job[w].ref)
        BY <2>3, CheckoutMoves
      <3>2. job[w].pay # None
        BY <2>3 DEF CreatePayment, JobShape
      <3> QED  BY <3>1, <3>2, MovedType, NoneAssumption
    <2>4. CASE CreateFails(w)
      BY <2>4, CheckoutMoves, WentType DEF CreateFails, Went, Found, JobShape, Steps
    <2>5. CASE StoreAuthority(w)
      BY <2>5, CheckoutMoves, EndedType
    <2>6. CASE StoreFails(w)
      BY <2>6, CheckoutMoves, WentType DEF StoreFails, Went, Found, JobShape, Steps
    <2>7. CASE VoidInvoice(w)
      BY <2>7, CheckoutMoves, WentType DEF VoidInvoice, Went, Found, JobShape, Steps
    <2>8. CASE VoidPayment(w)
      BY <2>8, CheckoutMoves, EndedType
    <2> QED  BY <1>1, <2>1, <2>2, <2>3, <2>4, <2>5, <2>6, <2>7, <2>8 DEF Checkout
  <1>2. ASSUME Settle(w) PROVE job' \in [Workers -> Job] /\ JobShape'
    <2>1. CASE \E p \in Payments : AskSettle(w, p)
      <3>1. PICK p \in Payments : Moved(w, "settle", "wait", p, None, None, None)
        BY <2>1, SettleMoves
      <3> QED  BY <3>1, MovedType, NoneAssumption
    <2>2. CASE \E p \in Payments : AskExpire(w, p)
      <3>1. PICK p \in Payments : Moved(w, "expire", "wait", p, None, None, None)
        BY <2>2, SettleMoves
      <3> QED  BY <3>1, MovedType, NoneAssumption
    <2>3. CASE \E a \in Authorities : Callback(w, a)
      <3>1. PICK a \in Authorities : Moved(w, "settle", "wait", None, a, None, None)
        BY <2>3, SettleMoves
      <3> QED  BY <3>1, MovedType, NoneAssumption
    <2>4. CASE LockToSettle(w)
      <3>1. CASE Ended(w)
        BY <3>1, EndedType
      <3>2. CASE ~Ended(w)
        <4>1. PICK p \in Payments : Moved(w, job[w].kind, "verify", p, job[w].auth,
                                          job[w].live, job[w].ref)
          BY <2>4, <3>2, SettleMoves
        <4> QED  BY <4>1, MovedType, NoneAssumption
      <3> QED  BY <3>1, <3>2
    <2>5. CASE VerifyError(w)
      BY <2>5, SettleMoves, EndedType
    <2>6. CASE VerifyNotPaid(w)
      <3>1. Ended(w) \/ Went(w, "expire")
        BY <2>6, SettleMoves
      <3> QED  BY <2>6, <3>1, EndedType, WentType DEF VerifyNotPaid, Went, Found, JobShape, Steps
    <2>7. CASE VerifyPaid(w)
      <3>1. \E l : Found(w, "activate", l)
        BY <2>7, SettleMoves
      <3> QED  BY <2>7, <3>1, WentType DEF VerifyPaid, JobShape, Steps
    <2>8. CASE ApplyExpiry(w)
      BY <2>8, SettleMoves, EndedType
    <2>9. CASE Activate(w)
      BY <2>9, SettleMoves, EndedType
    <2>10. CASE ActivateFails(w)
      BY <2>10, SettleMoves, EndedType
    <2> QED  BY <1>2, <2>1, <2>2, <2>3, <2>4, <2>5, <2>6, <2>7, <2>8, <2>9, <2>10 DEF Settle
  <1>3. ASSUME Refund(w) PROVE job' \in [Workers -> Job] /\ JobShape'
    <2>1. CASE \E p \in Payments : AskRefund(w, p)
      <3>1. PICK p \in Payments : Moved(w, "refund", "wait", p, None, None, None)
        BY <2>1, RefundMoves
      <3> QED  BY <3>1, MovedType, NoneAssumption
    <2>2. CASE LockToRefund(w)
      <3>1. Ended(w) \/ Went(w, "refund")
        BY <2>2, RefundMoves
      <3> QED  BY <2>2, <3>1, EndedType, WentType DEF LockToRefund, Went, Found, JobShape, Steps
    <2>3. CASE RefundByHand(w)
      <3>1. \E l : Found(w, "restore", l)
        BY <2>3, RefundMoves
      <3> QED  BY <2>3, <3>1, WentType DEF RefundByHand, JobShape, Steps
    <2>4. CASE RefundByGateway(w)
      <3>1. \E l : Found(w, "restore", l)
        BY <2>4, RefundMoves
      <3> QED  BY <2>4, <3>1, WentType DEF RefundByGateway, JobShape, Steps
    <2>5. CASE RefundFails(w)
      BY <2>5, RefundMoves, EndedType
    <2>6. CASE RefundCommit(w)
      BY <2>6, RefundMoves, EndedType
    <2> QED  BY <1>3, <2>1, <2>2, <2>3, <2>4, <2>5, <2>6 DEF Refund
  <1>4. ASSUME Operate(w) PROVE job' \in [Workers -> Job] /\ JobShape'
    <2>1. CASE \E p \in Payments, a \in Authorities : PlanAdoption(w, p, a)
      <3>1. PICK p \in Payments, a \in Authorities : Moved(w, "adopt", "adopt", p, a, None, None)
        BY <2>1, OperateMoves
      <3> QED  BY <3>1, MovedType, NoneAssumption
    <2>2. CASE \E p \in Payments, r \in Refs : AskApprove(w, p, r)
      <3>1. PICK p \in Payments, r \in Refs : Moved(w, "approve", "wait", p, None, None, r)
        BY <2>2, OperateMoves
      <3> QED  BY <3>1, MovedType, NoneAssumption
    <2>3. CASE Adopt(w)
      <3>1. Ended(w) \/ Moved(w, "settle", "wait", job[w].pay, None, None, None)
        BY <2>3, OperateMoves
      <3> QED  BY <3>1, EndedType, MovedType
    <2>4. CASE LockToApprove(w)
      <3>1. Ended(w) \/ \E l : Found(w, "activate", l)
        BY <2>4, OperateMoves
      <3> QED  BY <2>4, <3>1, EndedType, WentType DEF LockToApprove, JobShape, Steps
    <2>5. CASE Crash(w)
      BY <2>5, OperateMoves, EndedType
    <2> QED  BY <1>4, <2>1, <2>2, <2>3, <2>4, <2>5 DEF Operate
  <1> QED  BY <1>1, <1>2, <1>3, <1>4

LEMMA TypeCheckout ==
    ASSUME TypeOK, JobShape, NEW w \in Workers, Checkout(w)
    PROVE  TypeOK' /\ JobShape'
  <1>0. job' \in [Workers -> Job] /\ JobShape'
    BY ShapeTypes
  <1>1. CASE \E p \in Payments : CreateCheckout(w, p)
    BY <1>1, <1>0, JobFields DEF CreateCheckout, TypeOK, RowTypes, SubTypes, GatewayTypes,
           db, subs, gateway, clock
  <1>2. CASE \E p \in Payments : ReplayCheckout(w, p)
    BY <1>2, <1>0, JobFields DEF ReplayCheckout, TypeOK, RowTypes, SubTypes, GatewayTypes,
           db, subs, gateway, clock
  <1>3. CASE CreatePayment(w)
    BY <1>3, <1>0, JobFields DEF CreatePayment, TypeOK, RowTypes, SubTypes, GatewayTypes,
           db, subs, gateway, clock
  <1>4. CASE CreateFails(w)
    BY <1>4, <1>0, JobFields DEF CreateFails, TypeOK, RowTypes, SubTypes, GatewayTypes,
           db, subs, gateway, clock
  <1>5. CASE StoreAuthority(w)
    BY <1>5, <1>0, JobFields DEF StoreAuthority, TypeOK, RowTypes, SubTypes, GatewayTypes,
           db, subs, gateway, clock, JobShape
  <1>6. CASE StoreFails(w)
    BY <1>6, <1>0, JobFields DEF StoreFails, TypeOK, RowTypes, SubTypes, GatewayTypes,
           db, subs, gateway, clock
  <1>7. CASE VoidInvoice(w)
    BY <1>7, <1>0, JobFields DEF VoidInvoice, TypeOK, RowTypes, SubTypes, GatewayTypes,
           db, subs, gateway, clock, Voided
  <1>8. CASE VoidPayment(w)
    <2>1. job[w].pay \in Payments
      BY <1>8, JobFields DEF VoidPayment, JobShape
    <2>2. asked' \in SUBSET Payments
      BY <1>8, <2>1 DEF VoidPayment, TypeOK, RowTypes
    <2>3. status' \in [Payments -> {"none", "pending", "paid", "failed", "canceled", "refunded"}]
      BY <1>8, <2>1 DEF VoidPayment, TypeOK, RowTypes
    <2> QED  BY <1>8, <1>0, <2>2, <2>3 DEF VoidPayment, TypeOK, RowTypes, SubTypes,
           GatewayTypes, subs, gateway, clock
  <1> QED  BY <1>1, <1>2, <1>3, <1>4, <1>5, <1>6, <1>7, <1>8 DEF Checkout

LEMMA TypeSettle ==
    ASSUME TypeOK, JobShape, NEW w \in Workers, Settle(w)
    PROVE  TypeOK' /\ JobShape'
  <1>0. job' \in [Workers -> Job] /\ JobShape'
    BY ShapeTypes
  <1>1. CASE \E p \in Payments : AskSettle(w, p)
    BY <1>1, <1>0, JobFields DEF AskSettle, TypeOK, RowTypes, SubTypes, GatewayTypes,
           db, subs, gateway, clock
  <1>2. CASE \E p \in Payments : AskExpire(w, p)
    BY <1>2, <1>0, JobFields DEF AskExpire, TypeOK, RowTypes, SubTypes, GatewayTypes,
           db, subs, gateway, clock
  <1>3. CASE \E a \in Authorities : Callback(w, a)
    BY <1>3, <1>0, JobFields DEF Callback, TypeOK, RowTypes, SubTypes, GatewayTypes,
           db, subs, gateway, clock
  <1>4. CASE LockToSettle(w)
    BY <1>4, <1>0, JobFields DEF LockToSettle, TypeOK, RowTypes, SubTypes, GatewayTypes,
           db, subs, gateway, clock
  <1>5. CASE VerifyError(w)
    BY <1>5, <1>0, JobFields DEF VerifyError, TypeOK, RowTypes, SubTypes, GatewayTypes,
           db, subs, gateway, clock, MarkVerified
  <1>6. CASE VerifyNotPaid(w)
    <2>1. job[w].pay \in Payments
      BY <1>6, JobFields DEF VerifyNotPaid, JobShape
    <2>2. asked' \in SUBSET Payments
      BY <1>6, <2>1 DEF VerifyNotPaid, TypeOK, RowTypes
    <2> QED  BY <1>6, <1>0, <2>2 DEF VerifyNotPaid, TypeOK, RowTypes, SubTypes,
           GatewayTypes, subs, gateway, clock
  <1>7. CASE VerifyPaid(w)
    BY <1>7, <1>0, JobFields DEF VerifyPaid, TypeOK, RowTypes, SubTypes, GatewayTypes,
           db, subs, gateway, clock, MarkVerified
  <1>8. CASE ApplyExpiry(w)
    BY <1>8, <1>0, JobFields DEF ApplyExpiry, TypeOK, RowTypes, SubTypes, GatewayTypes,
           db, subs, gateway, clock, ExpiryStatus, Voided
  <1>9. CASE Activate(w)
    <2>1. job[w].pay \in Payments
      BY <1>9, JobFields DEF Activate, JobShape
    <2>2. reference' \in [Payments -> Refs \cup {None}]
      BY <1>9, JobFields DEF Activate, TypeOK, RowTypes
    <2>3. RowTypes'
      BY <1>9, <2>2 DEF Activate, TypeOK, RowTypes
    <2>4. redeemed' \in SUBSET Teams /\ redeemedCount' \in Nat
      BY <1>9, <2>1 DEF Activate, TypeOK, SubTypes, Teams
    <2>5. sub' \in [Payments -> {"none", "active", "expired", "canceled"}]
      BY <1>9 DEF Activate, TypeOK, SubTypes
    <2>6. follows' \in [Payments -> Payments \cup {None}]
      BY <1>9, JobFields DEF Activate, TypeOK, SubTypes
    <2>7. SubTypes'
      BY <1>9, <2>4, <2>5, <2>6 DEF Activate, TypeOK, SubTypes
    <2> QED  BY <1>9, <1>0, <2>3, <2>7 DEF Activate, TypeOK, GatewayTypes, gateway, clock
  <1>10. CASE ActivateFails(w)
    BY <1>10, <1>0, JobFields DEF ActivateFails, TypeOK, RowTypes, SubTypes, GatewayTypes,
           db, subs, gateway, clock
  <1> QED  BY <1>1, <1>2, <1>3, <1>4, <1>5, <1>6, <1>7, <1>8, <1>9, <1>10 DEF Settle

LEMMA TypeRefund ==
    ASSUME TypeOK, JobShape, NEW w \in Workers, Refund(w)
    PROVE  TypeOK' /\ JobShape'
  <1>0. job' \in [Workers -> Job] /\ JobShape'
    BY ShapeTypes
  <1>1. CASE \E p \in Payments : AskRefund(w, p)
    BY <1>1, <1>0, JobFields DEF AskRefund, TypeOK, RowTypes, SubTypes, GatewayTypes,
           db, subs, gateway, clock
  <1>2. CASE LockToRefund(w)
    BY <1>2, <1>0, JobFields DEF LockToRefund, TypeOK, RowTypes, SubTypes, GatewayTypes,
           db, subs, gateway, clock
  <1>3. CASE RefundByHand(w)
    BY <1>3, <1>0, JobFields DEF RefundByHand, TypeOK, RowTypes, SubTypes, GatewayTypes,
           db, subs, gateway, clock
  <1>4. CASE RefundByGateway(w)
    BY <1>4, <1>0, JobFields DEF RefundByGateway, TypeOK, RowTypes, SubTypes, GatewayTypes,
           db, subs, gateway, clock
  <1>5. CASE RefundFails(w)
    BY <1>5, <1>0, JobFields DEF RefundFails, TypeOK, RowTypes, SubTypes, GatewayTypes,
           db, subs, gateway, clock
  <1>6. CASE RefundCommit(w)
    BY <1>6, <1>0, JobFields DEF RefundCommit, TypeOK, RowTypes, SubTypes, GatewayTypes,
           db, subs, gateway, clock
  <1> QED  BY <1>1, <1>2, <1>3, <1>4, <1>5, <1>6 DEF Refund

LEMMA TypeOperate ==
    ASSUME TypeOK, JobShape, NEW w \in Workers, Operate(w)
    PROVE  TypeOK' /\ JobShape'
  <1>0. job' \in [Workers -> Job] /\ JobShape'
    BY ShapeTypes
  <1>1. CASE \E p \in Payments, a \in Authorities : PlanAdoption(w, p, a)
    BY <1>1, <1>0, JobFields DEF PlanAdoption, TypeOK, RowTypes, SubTypes, GatewayTypes,
           db, subs, gateway, clock
  <1>2. CASE \E p \in Payments, r \in Refs : AskApprove(w, p, r)
    BY <1>2, <1>0, JobFields DEF AskApprove, TypeOK, RowTypes, SubTypes, GatewayTypes,
           db, subs, gateway, clock
  <1>3. CASE Adopt(w)
    BY <1>3, <1>0, JobFields DEF Adopt, TypeOK, RowTypes, SubTypes, GatewayTypes,
           db, subs, gateway, clock
  <1>4. CASE LockToApprove(w)
    BY <1>4, <1>0, JobFields DEF LockToApprove, TypeOK, RowTypes, SubTypes, GatewayTypes,
           db, subs, gateway, clock
  <1>5. CASE Crash(w)
    BY <1>5, <1>0, JobFields DEF Crash, TypeOK, RowTypes, SubTypes, GatewayTypes,
           db, subs, gateway, clock, JobShape
  <1> QED  BY <1>1, <1>2, <1>3, <1>4, <1>5 DEF Operate

LEMMA TypeEnvironment ==
    ASSUME TypeOK, JobShape, Environment
    PROVE  TypeOK' /\ JobShape'
  <1>1. CASE \E p \in Payments : ClaimTransfer(p)
    BY <1>1 DEF ClaimTransfer, TypeOK, RowTypes, SubTypes, GatewayTypes,
           db, subs, gateway, clock, JobShape
  <1>2. CASE \E p \in Payments : PeriodEnds(p)
    BY <1>2 DEF PeriodEnds, TypeOK, RowTypes, SubTypes, GatewayTypes,
           db, subs, gateway, clock, JobShape
  <1>3. CASE \E t \in Teams : CancelAtPeriodEnd(t)
    <2>1. leaving' \in SUBSET Payments
      BY <1>3 DEF CancelAtPeriodEnd, TypeOK, SubTypes, ActiveOf
    <2> QED  BY <1>3, <2>1 DEF CancelAtPeriodEnd, TypeOK, RowTypes, SubTypes, GatewayTypes,
           db, gateway, clock, JobShape
  <1>4. CASE \E a \in Authorities : UserPays(a)
    BY <1>4 DEF UserPays, TypeOK, RowTypes, SubTypes, GatewayTypes,
           db, subs, gateway, clock, JobShape
  <1>5. CASE EndFinished
    BY <1>5 DEF EndFinished, TypeOK, RowTypes, SubTypes, GatewayTypes,
           db, subs, gateway, clock, JobShape
  <1>6. CASE TimePasses
    BY <1>6 DEF TimePasses, TypeOK, RowTypes, SubTypes, GatewayTypes,
           db, subs, gateway, clock, JobShape
  <1> QED  BY <1>1, <1>2, <1>3, <1>4, <1>5, <1>6 DEF Environment

LEMMA TypeNext ==
    ASSUME TypeOK, JobShape, [Next]_vars
    PROVE  TypeOK' /\ JobShape'
  <1>1. CASE \E w \in Workers : Checkout(w) \/ Settle(w) \/ Refund(w) \/ Operate(w)
    BY <1>1, TypeCheckout, TypeSettle, TypeRefund, TypeOperate
  <1>2. CASE Environment
    BY <1>2, TypeEnvironment
  <1>3. CASE UNCHANGED vars
    BY <1>3 DEF vars, db, subs, gateway, clock, TypeOK, RowTypes, SubTypes, GatewayTypes, JobShape
  <1> QED  BY <1>1, <1>2, <1>3 DEF Next

LEMMA TypeInit == Init => TypeOK /\ JobShape
  BY IdleJob DEF Init, TypeOK, RowTypes, SubTypes, GatewayTypes, JobShape, Idle

\* Every variable keeps its type: what a worker holds, stores or hands out exists.
THEOREM TypeCorrect == Spec => []TypeOK
  <1>1. TypeOK /\ JobShape /\ [Next]_vars => (TypeOK /\ JobShape)'
    BY TypeNext
  <1> QED  BY <1>1, TypeInit, PTL DEF Spec

-----------------------------------------------------------------------------
\* Locks

LEMMA MovedLocks ==
    ASSUME LocksExclude, NEW w \in Workers,
           NEW kind, NEW step, NEW p, NEW a, NEW l, NEW r, Moved(w, kind, step, p, a, l, r),
           step \in LockSteps =>
               \/ \A v \in Workers : job[v].step \in LockSteps => job[v].pay # p
               \/ job[w].step \in LockSteps /\ p = job[w].pay
    PROVE  LocksExclude'
  BY DEF Moved, LocksExclude

LEMMA LockedBy ==
    ASSUME NEW p, ~Locked(p)
    PROVE  \A v \in Workers : job[v].step \in LockSteps => job[v].pay # p
  BY DEF Locked, LockSteps

LEMMA EndedLocks ==
    ASSUME LocksExclude, NEW w \in Workers, Ended(w)
    PROVE  LocksExclude'
  BY MovedLocks DEF Ended, LockSteps

LEMMA LocksCheckout ==
    ASSUME TypeOK, JobShape, LocksExclude, NEW w \in Workers, Checkout(w)
    PROVE  LocksExclude'
  <1>1. CASE \E p \in Payments : CreateCheckout(w, p)
    <2>1. PICK p \in Payments : Moved(w, "checkout", "create", p, None, None, None)
      BY <1>1, CheckoutMoves
    <2> QED  BY <2>1, MovedLocks DEF LockSteps
  <1>2. CASE \E p \in Payments : ReplayCheckout(w, p)
    <2>1. PICK p \in Payments : Moved(w, "checkout", "create", p, None, None, None)
      BY <1>2, CheckoutMoves
    <2> QED  BY <2>1, MovedLocks DEF LockSteps
  <1>3. CASE CreatePayment(w)
    <2>1. PICK a \in Authorities :
              Moved(w, job[w].kind, "store", job[w].pay, a, job[w].live, job[w].ref)
      BY <1>3, CheckoutMoves
    <2> QED  BY <2>1, MovedLocks DEF LockSteps
  <1>4. CASE CreateFails(w)
    BY <1>4, CheckoutMoves, MovedLocks DEF Went, LockSteps
  <1>5. CASE StoreAuthority(w)
    BY <1>5, CheckoutMoves, EndedLocks
  <1>6. CASE StoreFails(w)
    BY <1>6, CheckoutMoves, MovedLocks DEF Went, LockSteps
  <1>7. CASE VoidInvoice(w)
    BY <1>7, CheckoutMoves, MovedLocks DEF Went, LockSteps
  <1>8. CASE VoidPayment(w)
    BY <1>8, CheckoutMoves, EndedLocks
  <1> QED  BY <1>1, <1>2, <1>3, <1>4, <1>5, <1>6, <1>7, <1>8 DEF Checkout

LEMMA LocksSettle ==
    ASSUME TypeOK, JobShape, LocksExclude, NEW w \in Workers, Settle(w)
    PROVE  LocksExclude'
  <1>1. CASE \E p \in Payments : AskSettle(w, p)
    <2>1. PICK p \in Payments : Moved(w, "settle", "wait", p, None, None, None)
      BY <1>1, SettleMoves
    <2> QED  BY <2>1, MovedLocks DEF LockSteps
  <1>2. CASE \E p \in Payments : AskExpire(w, p)
    <2>1. PICK p \in Payments : Moved(w, "expire", "wait", p, None, None, None)
      BY <1>2, SettleMoves
    <2> QED  BY <2>1, MovedLocks DEF LockSteps
  <1>3. CASE \E a \in Authorities : Callback(w, a)
    <2>1. PICK a \in Authorities : Moved(w, "settle", "wait", None, a, None, None)
      BY <1>3, SettleMoves
    <2> QED  BY <2>1, MovedLocks DEF LockSteps
  <1>4. CASE LockToSettle(w)
    <2>1. CASE Ended(w)
      BY <2>1, EndedLocks
    <2>2. CASE ~Ended(w)
      <3>1. PICK p \in Payments :
                ~Locked(p) /\ Moved(w, job[w].kind, "verify", p, job[w].auth,
                                    job[w].live, job[w].ref)
        BY <1>4, <2>2, SettleMoves
      <3> QED  BY <3>1, LockedBy, MovedLocks
    <2> QED  BY <2>1, <2>2
  <1>5. CASE VerifyError(w)
    BY <1>5, SettleMoves, EndedLocks
  <1>6. CASE VerifyNotPaid(w)
    <2>1. Ended(w) \/ Went(w, "expire")
      BY <1>6, SettleMoves
    <2> QED  BY <1>6, <2>1, EndedLocks, MovedLocks DEF VerifyNotPaid, Went, LockSteps
  <1>7. CASE VerifyPaid(w)
    <2>1. PICK l : Found(w, "activate", l)
      BY <1>7, SettleMoves
    <2> QED  BY <1>7, <2>1, MovedLocks DEF VerifyPaid, Found, LockSteps
  <1>8. CASE ApplyExpiry(w)
    BY <1>8, SettleMoves, EndedLocks
  <1>9. CASE Activate(w)
    BY <1>9, SettleMoves, EndedLocks
  <1>10. CASE ActivateFails(w)
    BY <1>10, SettleMoves, EndedLocks
  <1> QED  BY <1>1, <1>2, <1>3, <1>4, <1>5, <1>6, <1>7, <1>8, <1>9, <1>10 DEF Settle

LEMMA LocksRefund ==
    ASSUME TypeOK, JobShape, LocksExclude, NEW w \in Workers, Refund(w)
    PROVE  LocksExclude'
  <1>1. CASE \E p \in Payments : AskRefund(w, p)
    <2>1. PICK p \in Payments : Moved(w, "refund", "wait", p, None, None, None)
      BY <1>1, RefundMoves
    <2> QED  BY <2>1, MovedLocks DEF LockSteps
  <1>2. CASE LockToRefund(w)
    <2>1. Ended(w) \/ (~Locked(job[w].pay) /\ Went(w, "refund"))
      BY <1>2, RefundMoves
    <2> QED  BY <2>1, EndedLocks, MovedLocks, LockedBy DEF Went
  <1>3. CASE RefundByHand(w)
    <2>1. PICK l : Found(w, "restore", l)
      BY <1>3, RefundMoves
    <2> QED  BY <1>3, <2>1, MovedLocks DEF RefundByHand, Found, LockSteps
  <1>4. CASE RefundByGateway(w)
    <2>1. PICK l : Found(w, "restore", l)
      BY <1>4, RefundMoves
    <2> QED  BY <1>4, <2>1, MovedLocks DEF RefundByGateway, Found, LockSteps
  <1>5. CASE RefundFails(w)
    BY <1>5, RefundMoves, EndedLocks
  <1>6. CASE RefundCommit(w)
    BY <1>6, RefundMoves, EndedLocks
  <1> QED  BY <1>1, <1>2, <1>3, <1>4, <1>5, <1>6 DEF Refund

LEMMA LocksOperate ==
    ASSUME TypeOK, JobShape, LocksExclude, NEW w \in Workers, Operate(w)
    PROVE  LocksExclude'
  <1>1. CASE \E p \in Payments, a \in Authorities : PlanAdoption(w, p, a)
    <2>1. PICK p \in Payments, a \in Authorities : Moved(w, "adopt", "adopt", p, a, None, None)
      BY <1>1, OperateMoves
    <2> QED  BY <2>1, MovedLocks DEF LockSteps
  <1>2. CASE \E p \in Payments, r \in Refs : AskApprove(w, p, r)
    <2>1. PICK p \in Payments, r \in Refs : Moved(w, "approve", "wait", p, None, None, r)
      BY <1>2, OperateMoves
    <2> QED  BY <2>1, MovedLocks DEF LockSteps
  <1>3. CASE Adopt(w)
    <2>1. Ended(w) \/ Moved(w, "settle", "wait", job[w].pay, None, None, None)
      BY <1>3, OperateMoves
    <2> QED  BY <2>1, EndedLocks, MovedLocks DEF LockSteps
  <1>4. CASE LockToApprove(w)
    <2>1. CASE Ended(w)
      BY <2>1, EndedLocks
    <2>2. CASE ~Ended(w)
      <3>1. PICK l : ~Locked(job[w].pay) /\ Found(w, "activate", l)
        BY <1>4, <2>2, OperateMoves
      <3> QED  BY <3>1, LockedBy, MovedLocks DEF Found
    <2> QED  BY <2>1, <2>2
  <1>5. CASE Crash(w)
    BY <1>5, OperateMoves, EndedLocks
  <1> QED  BY <1>1, <1>2, <1>3, <1>4, <1>5 DEF Operate

LEMMA LocksNext ==
    ASSUME TypeOK, JobShape, LocksExclude, [Next]_vars
    PROVE  LocksExclude'
  <1>1. CASE \E w \in Workers : Checkout(w) \/ Settle(w) \/ Refund(w) \/ Operate(w)
    BY <1>1, LocksCheckout, LocksSettle, LocksRefund, LocksOperate
  <1>2. CASE UNCHANGED job
    BY <1>2 DEF LocksExclude
  <1>3. Environment => UNCHANGED job
    BY DEF Environment, ClaimTransfer, PeriodEnds, CancelAtPeriodEnd, UserPays, EndFinished, TimePasses
  <1> QED  BY <1>1, <1>2, <1>3 DEF Next, vars

-----------------------------------------------------------------------------
(***************************************************************************)
(* Who writes what.                                                        *)
(***************************************************************************)
LEMMA RowWriters ==
    ASSUME [Next]_vars
    PROVE  \/ UNCHANGED <<status, invoice>>
           \/ \E w \in Workers : \E p \in Payments : CreateCheckout(w, p)
           \/ \E w \in Workers : VoidInvoice(w)
           \/ \E w \in Workers : VoidPayment(w)
           \/ \E w \in Workers : ApplyExpiry(w)
           \/ \E w \in Workers : Activate(w)
           \/ \E w \in Workers : RefundCommit(w)
  <1>1. ASSUME NEW w \in Workers, Checkout(w), ~UNCHANGED <<status, invoice>>
        PROVE  (\E p \in Payments : CreateCheckout(w, p)) \/ VoidInvoice(w) \/ VoidPayment(w)
    BY <1>1 DEF Checkout, ReplayCheckout, CreatePayment, CreateFails, StoreAuthority, StoreFails,
           db, subs
  <1>2. ASSUME NEW w \in Workers, Settle(w), ~UNCHANGED <<status, invoice>>
        PROVE  ApplyExpiry(w) \/ Activate(w)
    BY <1>2 DEF Settle, AskSettle, AskExpire, Callback, LockToSettle, VerifyError, VerifyNotPaid, VerifyPaid, ActivateFails,
           db, subs
  <1>3. ASSUME NEW w \in Workers, Refund(w), ~UNCHANGED <<status, invoice>>
        PROVE  RefundCommit(w)
    BY <1>3 DEF Refund, AskRefund, LockToRefund, RefundByHand, RefundByGateway, RefundFails,
           db, subs
  <1>4. ASSUME NEW w \in Workers, Operate(w), ~UNCHANGED <<status, invoice>>
        PROVE  FALSE
    BY <1>4 DEF Operate, PlanAdoption, AskApprove, Adopt, LockToApprove, Crash,
           db, subs
  <1>5. ASSUME Environment, ~UNCHANGED <<status, invoice>>
        PROVE  FALSE
    BY <1>5 DEF Environment, ClaimTransfer, PeriodEnds, CancelAtPeriodEnd, UserPays, EndFinished, TimePasses, db, subs
  <1>6. CASE UNCHANGED vars
    BY <1>6 DEF vars, db, subs
  <1> QED  BY <1>1, <1>2, <1>3, <1>4, <1>5, <1>6 DEF Next

LEMMA AuthorityWriters ==
    ASSUME [Next]_vars
    PROVE  \/ UNCHANGED authority
           \/ \E w \in Workers : StoreAuthority(w)
           \/ \E w \in Workers : Adopt(w)
  <1>1. ASSUME NEW w \in Workers, Checkout(w), ~UNCHANGED authority
        PROVE  StoreAuthority(w)
    BY <1>1 DEF Checkout, CreateCheckout, ReplayCheckout, CreatePayment, CreateFails, StoreFails, VoidInvoice, VoidPayment,
           db, subs
  <1>2. ASSUME NEW w \in Workers, Settle(w), ~UNCHANGED authority
        PROVE  FALSE
    BY <1>2 DEF Settle, AskSettle, AskExpire, Callback, LockToSettle, VerifyError, VerifyNotPaid, VerifyPaid, ApplyExpiry, Activate, ActivateFails,
           db, subs
  <1>3. ASSUME NEW w \in Workers, Refund(w), ~UNCHANGED authority
        PROVE  FALSE
    BY <1>3 DEF Refund, AskRefund, LockToRefund, RefundByHand, RefundByGateway, RefundFails, RefundCommit,
           db, subs
  <1>4. ASSUME NEW w \in Workers, Operate(w), ~UNCHANGED authority
        PROVE  Adopt(w)
    BY <1>4 DEF Operate, PlanAdoption, AskApprove, LockToApprove, Crash,
           db, subs
  <1>5. ASSUME Environment, ~UNCHANGED authority
        PROVE  FALSE
    BY <1>5 DEF Environment, ClaimTransfer, PeriodEnds, CancelAtPeriodEnd, UserPays, EndFinished, TimePasses, db, subs
  <1>6. CASE UNCHANGED vars
    BY <1>6 DEF vars, db, subs
  <1> QED  BY <1>1, <1>2, <1>3, <1>4, <1>5, <1>6 DEF Next

LEMMA SubWriters ==
    ASSUME [Next]_vars
    PROVE  \/ UNCHANGED <<sub, follows>>
           \/ \E w \in Workers : Activate(w)
           \/ \E w \in Workers : RefundCommit(w)
           \/ EndFinished
  <1>1. ASSUME NEW w \in Workers, Checkout(w), ~UNCHANGED <<sub, follows>>
        PROVE  FALSE
    BY <1>1 DEF Checkout, CreateCheckout, ReplayCheckout, CreatePayment, CreateFails, StoreAuthority, StoreFails, VoidInvoice, VoidPayment,
           db, subs
  <1>2. ASSUME NEW w \in Workers, Settle(w), ~UNCHANGED <<sub, follows>>
        PROVE  Activate(w)
    BY <1>2 DEF Settle, AskSettle, AskExpire, Callback, LockToSettle, VerifyError, VerifyNotPaid, VerifyPaid, ApplyExpiry, ActivateFails,
           db, subs
  <1>3. ASSUME NEW w \in Workers, Refund(w), ~UNCHANGED <<sub, follows>>
        PROVE  RefundCommit(w)
    BY <1>3 DEF Refund, AskRefund, LockToRefund, RefundByHand, RefundByGateway, RefundFails,
           db, subs
  <1>4. ASSUME NEW w \in Workers, Operate(w), ~UNCHANGED <<sub, follows>>
        PROVE  FALSE
    BY <1>4 DEF Operate, PlanAdoption, AskApprove, Adopt, LockToApprove, Crash,
           db, subs
  <1>5. ASSUME Environment, ~UNCHANGED <<sub, follows>>
        PROVE  EndFinished
    BY <1>5 DEF Environment, ClaimTransfer, PeriodEnds, CancelAtPeriodEnd, UserPays, TimePasses, db, subs
  <1>6. CASE UNCHANGED vars
    BY <1>6 DEF vars, db, subs
  <1> QED  BY <1>1, <1>2, <1>3, <1>4, <1>5, <1>6 DEF Next

LEMMA ClaimWriters ==
    ASSUME [Next]_vars
    PROVE  \/ UNCHANGED claimed
           \/ \E p \in Payments : ClaimTransfer(p)
  <1>1. ASSUME NEW w \in Workers, Checkout(w), ~UNCHANGED claimed
        PROVE  FALSE
    BY <1>1 DEF Checkout, CreateCheckout, ReplayCheckout, CreatePayment, CreateFails, StoreAuthority, StoreFails, VoidInvoice, VoidPayment,
           db, subs
  <1>2. ASSUME NEW w \in Workers, Settle(w), ~UNCHANGED claimed
        PROVE  FALSE
    BY <1>2 DEF Settle, AskSettle, AskExpire, Callback, LockToSettle, VerifyError, VerifyNotPaid, VerifyPaid, ApplyExpiry, Activate, ActivateFails,
           db, subs
  <1>3. ASSUME NEW w \in Workers, Refund(w), ~UNCHANGED claimed
        PROVE  FALSE
    BY <1>3 DEF Refund, AskRefund, LockToRefund, RefundByHand, RefundByGateway, RefundFails, RefundCommit,
           db, subs
  <1>4. ASSUME NEW w \in Workers, Operate(w), ~UNCHANGED claimed
        PROVE  FALSE
    BY <1>4 DEF Operate, PlanAdoption, AskApprove, Adopt, LockToApprove, Crash,
           db, subs
  <1>5. ASSUME Environment, ~UNCHANGED claimed
        PROVE  (\E p \in Payments : ClaimTransfer(p))
    BY <1>5 DEF Environment, PeriodEnds, CancelAtPeriodEnd, UserPays, EndFinished, TimePasses, db, subs
  <1>6. CASE UNCHANGED vars
    BY <1>6 DEF vars, db, subs
  <1> QED  BY <1>1, <1>2, <1>3, <1>4, <1>5, <1>6 DEF Next

-----------------------------------------------------------------------------
\* Payments and invoices

Rows == TypeOK /\ JobShape /\ LocksExclude /\ RowsHeld /\ RowsAgree

LEMMA PayType ==
    ASSUME TypeOK, JobShape, NEW w \in Workers, job[w].step \notin {"idle", "wait"}
    PROVE  job[w].pay \in Payments
  BY JobFields DEF JobShape

\* A worker in a transaction keeps the other workers off its payment.
LEMMA LockedRow ==
    ASSUME Rows, [Next]_vars, NEW v \in Workers, job[v].step \in LockSteps, job'[v] = job[v]
    PROVE  status'[job[v].pay] = status[job[v].pay]
  <1>0. job[v].pay \in Payments /\ status[job[v].pay] # "none"
    BY PayType DEF Rows, RowsHeld, HeldAt, LockSteps
  <1>1. CASE UNCHANGED <<status, invoice>>
    BY <1>1
  <1>2. ASSUME NEW w \in Workers, NEW p \in Payments, CreateCheckout(w, p)
        PROVE  status'[job[v].pay] = status[job[v].pay]
    BY <1>0, <1>2 DEF CreateCheckout, Rows, TypeOK, RowTypes
  <1>3. ASSUME NEW w \in Workers, VoidInvoice(w)
        PROVE  status'[job[v].pay] = status[job[v].pay]
    BY <1>3 DEF VoidInvoice
  <1>4. ASSUME NEW w \in Workers, VoidPayment(w)
        PROVE  status'[job[v].pay] = status[job[v].pay]
    <2>1. job[w].pay # job[v].pay
      BY <1>4, LockedBy DEF VoidPayment
    <2> QED  BY <1>0, <1>4, <2>1 DEF VoidPayment, Rows, TypeOK, RowTypes
  <1>5. ASSUME NEW w \in Workers, ApplyExpiry(w) \/ Activate(w) \/ RefundCommit(w)
        PROVE  status'[job[v].pay] = status[job[v].pay]
    <2>1. job'[w].step = "idle"
      BY <1>5, SettleMoves, RefundMoves DEF Rows, Ended, Moved
    <2>2. w # v
      BY <2>1 DEF LockSteps
    <2>3. job[w].step \in LockSteps
      BY <1>5 DEF ApplyExpiry, Activate, RefundCommit, LockSteps
    <2>4. job[w].pay # job[v].pay
      BY <2>2, <2>3 DEF Rows, LocksExclude
    <2> QED  BY <1>0, <1>5, <2>4 DEF ApplyExpiry, Activate, RefundCommit, Rows, TypeOK, RowTypes
  <1> QED  BY <1>1, <1>2, <1>3, <1>4, <1>5, RowWriters

LEMMA LockedAuthority ==
    ASSUME Rows, [Next]_vars, NEW v \in Workers, job[v].step \in LockSteps
    PROVE  authority'[job[v].pay] = authority[job[v].pay]
  <1>0. job[v].pay \in Payments
    BY PayType DEF Rows, LockSteps
  <1>1. ASSUME NEW w \in Workers, StoreAuthority(w) \/ Adopt(w)
        PROVE  authority'[job[v].pay] = authority[job[v].pay]
    <2>1. job[w].pay # job[v].pay
      BY <1>1, LockedBy DEF StoreAuthority, Adopt
    <2> QED  BY <1>0, <1>1, <2>1 DEF StoreAuthority, Adopt, Rows, TypeOK, RowTypes
  <1> QED  BY <1>1, AuthorityWriters

\* A row that exists stays, and its invoice is open at the beginning only.
LEMMA RowStays ==
    ASSUME Rows, [Next]_vars, NEW p \in Payments, status[p] # "none"
    PROVE  /\ status'[p] # "none"
           /\ invoice[p] # "open" => invoice'[p] # "open"
  <1>1. CASE UNCHANGED <<status, invoice>>
    BY <1>1
  <1>2. ASSUME NEW w \in Workers, NEW q \in Payments, CreateCheckout(w, q)
        PROVE  status'[p] # "none" /\ (invoice[p] # "open" => invoice'[p] # "open")
    BY <1>2 DEF CreateCheckout, Rows, TypeOK, RowTypes
  <1>3. ASSUME NEW w \in Workers, VoidInvoice(w)
        PROVE  status'[p] # "none" /\ (invoice[p] # "open" => invoice'[p] # "open")
    BY <1>3 DEF VoidInvoice, Voided, Rows, TypeOK, RowTypes
  <1>4. ASSUME NEW w \in Workers, VoidPayment(w)
        PROVE  status'[p] # "none" /\ (invoice[p] # "open" => invoice'[p] # "open")
    BY <1>4 DEF VoidPayment, Rows, TypeOK, RowTypes
  <1>5. ASSUME NEW w \in Workers, ApplyExpiry(w)
        PROVE  status'[p] # "none" /\ (invoice[p] # "open" => invoice'[p] # "open")
    BY <1>5 DEF ApplyExpiry, ExpiryStatus, Voided, Rows, TypeOK, RowTypes
  <1>6. ASSUME NEW w \in Workers, Activate(w)
        PROVE  status'[p] # "none" /\ (invoice[p] # "open" => invoice'[p] # "open")
    BY <1>6 DEF Activate, Rows, TypeOK, RowTypes
  <1>7. ASSUME NEW w \in Workers, RefundCommit(w)
        PROVE  status'[p] # "none" /\ (invoice[p] # "open" => invoice'[p] # "open")
    BY <1>7 DEF RefundCommit, Rows, TypeOK, RowTypes
  <1> QED  BY <1>1, <1>2, <1>3, <1>4, <1>5, <1>6, <1>7, RowWriters

LEMMA HeldOthers ==
    ASSUME Rows, [Next]_vars, NEW v \in Workers, job'[v] = job[v]
    PROVE  HeldAt(v)'
  <1>1. CASE job[v].step \in LockSteps
    <2>1. status'[job[v].pay] = status[job[v].pay] /\ authority'[job[v].pay] = authority[job[v].pay]
      BY <1>1, LockedRow, LockedAuthority
    <2> QED  BY <1>1, <2>1 DEF Rows, RowsHeld, HeldAt, LockSteps
  <1>2. CASE job[v].step \in {"create", "store", "void", "fail"}
    <2>1. job[v].pay \in Payments
      BY <1>2, PayType DEF Rows
    <2>2. status[job[v].pay] # "none" /\ (job[v].step = "fail" => invoice[job[v].pay] # "open")
      BY <1>2 DEF Rows, RowsHeld, HeldAt
    <2>3. /\ status'[job[v].pay] # "none"
          /\ invoice[job[v].pay] # "open" => invoice'[job[v].pay] # "open"
      BY <2>1, <2>2, RowStays
    <2> QED  BY <1>2, <2>2, <2>3 DEF HeldAt
  <1>3. CASE job[v].step \notin LockSteps \cup {"create", "store", "void", "fail"}
    BY <1>3 DEF HeldAt, LockSteps
  <1> QED  BY <1>1, <1>2, <1>3

\* What the worker that moves has read.
LEMMA IdleHeld ==
    ASSUME NEW w \in Workers, job'[w].step \in {"idle", "wait", "adopt"}
    PROVE  HeldAt(w)'
  BY DEF HeldAt

LEMMA GoneHeld ==
    ASSUME NEW w \in Workers, Ended(w)
    PROVE  HeldAt(w)'
  BY IdleHeld DEF Ended, Moved

LEMMA HeldCheckout ==
    ASSUME Rows, NEW w \in Workers, Checkout(w)
    PROVE  HeldAt(w)'
  <1>0. TypeOK /\ JobShape /\ (job[w].step \notin {"idle", "wait"} => job[w].pay \in Payments)
    BY PayType DEF Rows
  <1>1. CASE \E p \in Payments : CreateCheckout(w, p)
    <2>1. PICK p \in Payments : CreateCheckout(w, p)
      BY <1>1
    <2>2. Moved(w, "checkout", "create", p, None, None, None)
      BY <1>0, <2>1, CheckoutMoves
    <2>3. status'[p] # "none"
      BY <2>1 DEF CreateCheckout, db, Rows, TypeOK, RowTypes
    <2> QED  BY <2>2, <2>3 DEF Moved, HeldAt
  <1>2. CASE \E p \in Payments : ReplayCheckout(w, p)
    <2>1. PICK p \in Payments : ReplayCheckout(w, p)
      BY <1>2
    <2>2. Moved(w, "checkout", "create", p, None, None, None)
      BY <1>0, <2>1, CheckoutMoves
    <2>3. status'[p] # "none"
      BY <2>1 DEF ReplayCheckout, db, Rows, TypeOK, RowTypes
    <2> QED  BY <2>2, <2>3 DEF Moved, HeldAt
  <1>3. CASE CreatePayment(w)
    <2>1. PICK a \in Authorities :
              Moved(w, job[w].kind, "store", job[w].pay, a, job[w].live, job[w].ref)
      BY <1>0, <1>3, CheckoutMoves
    <2>2. status'[job[w].pay] # "none"
      BY <1>3 DEF CreatePayment, db, Rows, RowsHeld, HeldAt
    <2> QED  BY <2>1, <2>2 DEF Moved, HeldAt
  <1>4. CASE CreateFails(w)
    <2>1. status'[job[w].pay] # "none"
      BY <1>4 DEF CreateFails, db, Rows, RowsHeld, HeldAt
    <2> QED  BY <1>0, <1>4, <2>1, CheckoutMoves DEF Went, Moved, HeldAt
  <1>5. CASE StoreAuthority(w)
    BY <1>0, <1>5, CheckoutMoves, GoneHeld
  <1>6. CASE StoreFails(w)
    <2>1. status'[job[w].pay] # "none"
      BY <1>6 DEF StoreFails, db, Rows, RowsHeld, HeldAt
    <2> QED  BY <1>0, <1>6, <2>1, CheckoutMoves DEF Went, Moved, HeldAt
  <1>7. CASE VoidInvoice(w)
    <2>1. status'[job[w].pay] # "none"
      BY <1>7 DEF VoidInvoice, Rows, RowsHeld, HeldAt
    <2>2. invoice'[job[w].pay] # "open"
      BY <1>0, <1>7 DEF VoidInvoice, Voided, Rows, TypeOK, RowTypes
    <2> QED  BY <1>0, <1>7, <2>1, <2>2, CheckoutMoves DEF Went, Moved, HeldAt
  <1>8. CASE VoidPayment(w)
    BY <1>0, <1>8, CheckoutMoves, GoneHeld
  <1> QED  BY <1>1, <1>2, <1>3, <1>4, <1>5, <1>6, <1>7, <1>8 DEF Checkout

LEMMA HeldSettle ==
    ASSUME Rows, NEW w \in Workers, Settle(w)
    PROVE  HeldAt(w)'
  <1>0. TypeOK /\ JobShape /\ (job[w].step \notin {"idle", "wait"} => job[w].pay \in Payments)
    BY PayType DEF Rows
  <1>1. CASE \E p \in Payments : AskSettle(w, p)
    <2>1. PICK p \in Payments : Moved(w, "settle", "wait", p, None, None, None)
      BY <1>0, <1>1, SettleMoves
    <2> QED  BY <2>1, IdleHeld DEF Moved
  <1>2. CASE \E p \in Payments : AskExpire(w, p)
    <2>1. PICK p \in Payments : Moved(w, "expire", "wait", p, None, None, None)
      BY <1>0, <1>2, SettleMoves
    <2> QED  BY <2>1, IdleHeld DEF Moved
  <1>3. CASE \E a \in Authorities : Callback(w, a)
    <2>1. PICK a \in Authorities : Moved(w, "settle", "wait", None, a, None, None)
      BY <1>0, <1>3, SettleMoves
    <2> QED  BY <2>1, IdleHeld DEF Moved
  <1>4. CASE LockToSettle(w)
    <2>1. CASE Ended(w)
      BY <2>1, GoneHeld
    <2>2. CASE ~Ended(w)
      <3>1. PICK p \in Payments :
                Settles(p) /\ Moved(w, job[w].kind, "verify", p, job[w].auth,
                                    job[w].live, job[w].ref)
        BY <1>0, <1>4, <2>2, SettleMoves
      <3>2. status'[p] = "pending" /\ authority'[p] # None
        BY <1>4, <3>1 DEF LockToSettle, Settles, db
      <3> QED  BY <3>1, <3>2 DEF Moved, HeldAt
    <2> QED  BY <2>1, <2>2
  <1>5. CASE VerifyError(w)
    BY <1>0, <1>5, SettleMoves, GoneHeld
  <1>6. CASE VerifyNotPaid(w)
    <2>1. Ended(w) \/ Went(w, "expire")
      BY <1>0, <1>6, SettleMoves
    <2>2. status'[job[w].pay] = "pending" /\ authority'[job[w].pay] # None
      BY <1>6 DEF VerifyNotPaid, Rows, RowsHeld, HeldAt
    <2>3. Went(w, "expire") => HeldAt(w)'
      BY <2>2 DEF Went, Moved, HeldAt
    <2> QED  BY <2>1, <2>3, GoneHeld
  <1>7. CASE VerifyPaid(w)
    <2>1. PICK l : Found(w, "activate", l)
      BY <1>0, <1>7, SettleMoves
    <2>2. status'[job[w].pay] = "pending"
      BY <1>7 DEF VerifyPaid, db, Rows, RowsHeld, HeldAt
    <2> QED  BY <2>1, <2>2 DEF Found, Moved, HeldAt
  <1>8. CASE ApplyExpiry(w)
    BY <1>0, <1>8, SettleMoves, GoneHeld
  <1>9. CASE Activate(w)
    BY <1>0, <1>9, SettleMoves, GoneHeld
  <1>10. CASE ActivateFails(w)
    BY <1>0, <1>10, SettleMoves, GoneHeld
  <1> QED  BY <1>1, <1>2, <1>3, <1>4, <1>5, <1>6, <1>7, <1>8, <1>9, <1>10 DEF Settle

LEMMA HeldRefund ==
    ASSUME Rows, NEW w \in Workers, Refund(w)
    PROVE  HeldAt(w)'
  <1>0. TypeOK /\ JobShape /\ (job[w].step \notin {"idle", "wait"} => job[w].pay \in Payments)
    BY PayType DEF Rows
  <1>1. CASE \E p \in Payments : AskRefund(w, p)
    <2>1. PICK p \in Payments : Moved(w, "refund", "wait", p, None, None, None)
      BY <1>0, <1>1, RefundMoves
    <2> QED  BY <2>1, IdleHeld DEF Moved
  <1>2. CASE LockToRefund(w)
    <2>1. Ended(w) \/ (status[job[w].pay] = "paid" /\ Went(w, "refund"))
      BY <1>0, <1>2, RefundMoves
    <2>2. status' = status
      BY <1>2 DEF LockToRefund, db
    <2>3. status[job[w].pay] = "paid" /\ Went(w, "refund") => HeldAt(w)'
      BY <2>2 DEF Went, Moved, HeldAt
    <2> QED  BY <2>1, <2>3, GoneHeld
  <1>3. CASE RefundByHand(w)
    <2>1. PICK l : Found(w, "restore", l)
      BY <1>0, <1>3, RefundMoves
    <2>2. status'[job[w].pay] = "paid"
      BY <1>3 DEF RefundByHand, db, Rows, RowsHeld, HeldAt
    <2> QED  BY <2>1, <2>2 DEF Found, Moved, HeldAt
  <1>4. CASE RefundByGateway(w)
    <2>1. PICK l : Found(w, "restore", l)
      BY <1>0, <1>4, RefundMoves
    <2>2. status'[job[w].pay] = "paid"
      BY <1>4 DEF RefundByGateway, db, Rows, RowsHeld, HeldAt
    <2> QED  BY <2>1, <2>2 DEF Found, Moved, HeldAt
  <1>5. CASE RefundFails(w)
    BY <1>0, <1>5, RefundMoves, GoneHeld
  <1>6. CASE RefundCommit(w)
    BY <1>0, <1>6, RefundMoves, GoneHeld
  <1> QED  BY <1>1, <1>2, <1>3, <1>4, <1>5, <1>6 DEF Refund

LEMMA HeldOperate ==
    ASSUME Rows, NEW w \in Workers, Operate(w)
    PROVE  HeldAt(w)'
  <1>0. TypeOK /\ JobShape /\ (job[w].step \notin {"idle", "wait"} => job[w].pay \in Payments)
    BY PayType DEF Rows
  <1>1. CASE \E p \in Payments, a \in Authorities : PlanAdoption(w, p, a)
    <2>1. PICK p \in Payments, a \in Authorities : Moved(w, "adopt", "adopt", p, a, None, None)
      BY <1>0, <1>1, OperateMoves
    <2> QED  BY <2>1, IdleHeld DEF Moved
  <1>2. CASE \E p \in Payments, r \in Refs : AskApprove(w, p, r)
    <2>1. PICK p \in Payments, r \in Refs : Moved(w, "approve", "wait", p, None, None, r)
      BY <1>0, <1>2, OperateMoves
    <2> QED  BY <2>1, IdleHeld DEF Moved
  <1>3. CASE Adopt(w)
    <2>1. Ended(w) \/ Moved(w, "settle", "wait", job[w].pay, None, None, None)
      BY <1>0, <1>3, OperateMoves
    <2> QED  BY <2>1, GoneHeld, IdleHeld DEF Moved
  <1>4. CASE LockToApprove(w)
    <2>1. CASE Ended(w)
      BY <2>1, GoneHeld
    <2>2. CASE ~Ended(w)
      <3>1. PICK l : status[job[w].pay] = "pending" /\ Found(w, "activate", l)
        BY <1>0, <1>4, <2>2, OperateMoves
      <3>2. status' = status
        BY <1>4 DEF LockToApprove
      <3> QED  BY <3>1, <3>2 DEF Found, Moved, HeldAt
    <2> QED  BY <2>1, <2>2
  <1>5. CASE Crash(w)
    BY <1>0, <1>5, OperateMoves, GoneHeld
  <1> QED  BY <1>1, <1>2, <1>3, <1>4, <1>5 DEF Operate

LEMMA MovesOne ==
    ASSUME TypeOK, JobShape, NEW w \in Workers, Checkout(w) \/ Settle(w) \/ Refund(w) \/ Operate(w)
    PROVE  \A v \in Workers : v # w => job'[v] = job[v]
  <1>1. CASE Checkout(w)
    <2>1. CASE \E p \in Payments : CreateCheckout(w, p)
      BY <2>1 DEF CreateCheckout, Begin, Goto, End, Becomes, TypeOK
    <2>2. CASE \E p \in Payments : ReplayCheckout(w, p)
      BY <2>2 DEF ReplayCheckout, Begin, Goto, End, Becomes, TypeOK
    <2>3. CASE CreatePayment(w)
      BY <2>3 DEF CreatePayment, Begin, Goto, End, Becomes, TypeOK
    <2>4. CASE CreateFails(w)
      BY <2>4 DEF CreateFails, Begin, Goto, End, Becomes, TypeOK
    <2>5. CASE StoreAuthority(w)
      BY <2>5 DEF StoreAuthority, Begin, Goto, End, Becomes, TypeOK
    <2>6. CASE StoreFails(w)
      BY <2>6 DEF StoreFails, Begin, Goto, End, Becomes, TypeOK
    <2>7. CASE VoidInvoice(w)
      BY <2>7 DEF VoidInvoice, Begin, Goto, End, Becomes, TypeOK
    <2>8. CASE VoidPayment(w)
      BY <2>8 DEF VoidPayment, Begin, Goto, End, Becomes, TypeOK
    <2> QED  BY <1>1, <2>1, <2>2, <2>3, <2>4, <2>5, <2>6, <2>7, <2>8 DEF Checkout
  <1>2. CASE Settle(w)
    <2>1. CASE \E p \in Payments : AskSettle(w, p)
      BY <2>1 DEF AskSettle, Begin, Goto, End, Becomes, TypeOK
    <2>2. CASE \E p \in Payments : AskExpire(w, p)
      BY <2>2 DEF AskExpire, Begin, Goto, End, Becomes, TypeOK
    <2>3. CASE \E a \in Authorities : Callback(w, a)
      BY <2>3 DEF Callback, Begin, Goto, End, Becomes, TypeOK
    <2>4. CASE LockToSettle(w)
      BY <2>4 DEF LockToSettle, Begin, Goto, End, Becomes, TypeOK
    <2>5. CASE VerifyError(w)
      BY <2>5 DEF VerifyError, Begin, Goto, End, Becomes, TypeOK
    <2>6. CASE VerifyNotPaid(w)
      BY <2>6 DEF VerifyNotPaid, Begin, Goto, End, Becomes, TypeOK
    <2>7. CASE VerifyPaid(w)
      BY <2>7 DEF VerifyPaid, Begin, Goto, End, Becomes, TypeOK
    <2>8. CASE ApplyExpiry(w)
      BY <2>8 DEF ApplyExpiry, Begin, Goto, End, Becomes, TypeOK
    <2>9. CASE Activate(w)
      BY <2>9 DEF Activate, Begin, Goto, End, Becomes, TypeOK
    <2>10. CASE ActivateFails(w)
      BY <2>10 DEF ActivateFails, Begin, Goto, End, Becomes, TypeOK
    <2> QED  BY <1>2, <2>1, <2>2, <2>3, <2>4, <2>5, <2>6, <2>7, <2>8, <2>9, <2>10 DEF Settle
  <1>3. CASE Refund(w)
    <2>1. CASE \E p \in Payments : AskRefund(w, p)
      BY <2>1 DEF AskRefund, Begin, Goto, End, Becomes, TypeOK
    <2>2. CASE LockToRefund(w)
      BY <2>2 DEF LockToRefund, Begin, Goto, End, Becomes, TypeOK
    <2>3. CASE RefundByHand(w)
      BY <2>3 DEF RefundByHand, FindTarget, Begin, Goto, End, Becomes, TypeOK
    <2>4. CASE RefundByGateway(w)
      BY <2>4 DEF RefundByGateway, FindTarget, Begin, Goto, End, Becomes, TypeOK
    <2>5. CASE RefundFails(w)
      BY <2>5 DEF RefundFails, Begin, Goto, End, Becomes, TypeOK
    <2>6. CASE RefundCommit(w)
      BY <2>6 DEF RefundCommit, Begin, Goto, End, Becomes, TypeOK
    <2> QED  BY <1>3, <2>1, <2>2, <2>3, <2>4, <2>5, <2>6 DEF Refund
  <1>4. CASE Operate(w)
    <2>1. CASE \E p \in Payments, a \in Authorities : PlanAdoption(w, p, a)
      BY <2>1 DEF PlanAdoption, Begin, Goto, End, Becomes, TypeOK
    <2>2. CASE \E p \in Payments, r \in Refs : AskApprove(w, p, r)
      BY <2>2 DEF AskApprove, Begin, Goto, End, Becomes, TypeOK
    <2>3. CASE Adopt(w)
      BY <2>3 DEF Adopt, Begin, Goto, End, Becomes, TypeOK
    <2>4. CASE LockToApprove(w)
      BY <2>4 DEF LockToApprove, Begin, Goto, End, Becomes, TypeOK
    <2>5. CASE Crash(w)
      BY <2>5 DEF Crash, Begin, Goto, End, Becomes, TypeOK
    <2> QED  BY <1>4, <2>1, <2>2, <2>3, <2>4, <2>5 DEF Operate
  <1> QED  BY <1>1, <1>2, <1>3, <1>4

LEMMA OthersWait ==
    ASSUME Environment \/ UNCHANGED vars
    PROVE  job' = job
  BY DEF Environment, ClaimTransfer, PeriodEnds, CancelAtPeriodEnd, UserPays, EndFinished, TimePasses, vars

LEMMA HeldNext ==
    ASSUME Rows, [Next]_vars
    PROVE  RowsHeld'
  <1>1. ASSUME NEW w \in Workers, Checkout(w) \/ Settle(w) \/ Refund(w) \/ Operate(w),
               NEW v \in Workers
        PROVE  HeldAt(v)'
    <2>1. CASE v = w
      BY <1>1, <2>1, HeldCheckout, HeldSettle, HeldRefund, HeldOperate
    <2>2. CASE v # w
      BY <1>1, <2>2, MovesOne, HeldOthers DEF Rows
    <2> QED  BY <2>1, <2>2
  <1>2. ASSUME Environment \/ UNCHANGED vars, NEW v \in Workers
        PROVE  HeldAt(v)'
    BY <1>2, OthersWait, HeldOthers
  <1>3. \A v \in Workers : HeldAt(v)'
    BY <1>1, <1>2 DEF Next
  <1> QED  BY <1>3 DEF RowsHeld

\* The two rows of a payment through each statement that writes them.
LEMMA AgreeNext ==
    ASSUME Rows, [Next]_vars
    PROVE  RowsAgree'
  <1> DEFINE A(p) == /\ status[p] = "paid" <=> invoice[p] = "paid"
                     /\ status[p] = "refunded" <=> invoice[p] = "refunded"
                     /\ status[p] \in {"failed", "canceled"} => invoice[p] = "void"
                     /\ status[p] = "none" => invoice[p] = "none"
                     /\ status[p] = "pending" => invoice[p] \in {"open", "void"}
  <1>0. \A p \in Payments : A(p)
    BY DEF Rows, RowsAgree, InvoiceAgrees
  <1>a. \A p \in Payments : authority[p] # None => authority'[p] # None
    <2>1. ASSUME NEW w \in Workers, StoreAuthority(w)
          PROVE  \A p \in Payments : authority[p] # None => authority'[p] # None
      BY <2>1 DEF StoreAuthority, JobShape, Rows, TypeOK, RowTypes
    <2>2. ASSUME NEW w \in Workers, Adopt(w)
          PROVE  \A p \in Payments : authority[p] # None => authority'[p] # None
      BY <2>2 DEF Adopt, JobShape, Rows, TypeOK, RowTypes
    <2> QED  BY <2>1, <2>2, AuthorityWriters
  <1>1. CASE UNCHANGED <<status, invoice>>
    <2>1. \A p \in Payments : A(p)'
      BY <1>0, <1>1
    <2>2. \A p \in Payments : (status[p] = "canceled" => authority[p] # None)'
      BY <1>a, <1>1 DEF Rows, RowsAgree
    <2> QED  BY <2>1, <2>2 DEF RowsAgree, InvoiceAgrees
  <1>2. CASE \E w \in Workers : \E p \in Payments : CreateCheckout(w, p)
    <2>1. \A p \in Payments : A(p)'
      BY <1>0, <1>2 DEF CreateCheckout, Rows, TypeOK, RowTypes
    <2>2. \A p \in Payments : (status[p] = "canceled" => authority[p] # None)'
      BY <1>2, <1>a DEF CreateCheckout, Rows, RowsAgree, TypeOK, RowTypes
    <2> QED  BY <2>1, <2>2 DEF RowsAgree, InvoiceAgrees
  <1>3. CASE \E w \in Workers : VoidInvoice(w)
    <2>1. \A p \in Payments : A(p)'
      <3>1. PICK w \in Workers : VoidInvoice(w)
        BY <1>3
      <3>2. job[w].pay \in Payments
        BY <3>1, PayType DEF VoidInvoice, Rows
      <3>3. A(job[w].pay)
        BY <1>0, <3>2
      <3> QED  BY <1>0, <3>1, <3>2, <3>3 DEF VoidInvoice, Voided, Rows, RowsHeld, HeldAt, TypeOK, RowTypes
    <2>2. \A p \in Payments : (status[p] = "canceled" => authority[p] # None)'
      BY <1>3, <1>a DEF VoidInvoice, Rows, RowsHeld, HeldAt, RowsAgree, TypeOK, RowTypes
    <2> QED  BY <2>1, <2>2 DEF RowsAgree, InvoiceAgrees
  <1>4. CASE \E w \in Workers : VoidPayment(w)
    <2>1. \A p \in Payments : A(p)'
      <3>1. PICK w \in Workers : VoidPayment(w)
        BY <1>4
      <3>2. job[w].pay \in Payments
        BY <3>1, PayType DEF VoidPayment, Rows
      <3>3. A(job[w].pay)
        BY <1>0, <3>2
      <3> QED  BY <1>0, <3>1, <3>2, <3>3 DEF VoidPayment, Rows, RowsHeld, HeldAt, TypeOK, RowTypes
    <2>2. \A p \in Payments : (status[p] = "canceled" => authority[p] # None)'
      BY <1>4, <1>a DEF VoidPayment, Rows, RowsHeld, HeldAt, RowsAgree, TypeOK, RowTypes
    <2> QED  BY <2>1, <2>2 DEF RowsAgree, InvoiceAgrees
  <1>5. CASE \E w \in Workers : ApplyExpiry(w)
    <2>1. \A p \in Payments : A(p)'
      <3>1. PICK w \in Workers : ApplyExpiry(w)
        BY <1>5
      <3>2. job[w].pay \in Payments
        BY <3>1, PayType DEF ApplyExpiry, Rows
      <3>3. A(job[w].pay)
        BY <1>0, <3>2
      <3> QED  BY <1>0, <3>1, <3>2, <3>3 DEF ApplyExpiry, Voided, ExpiryStatus, Rows, RowsHeld, HeldAt, TypeOK, RowTypes
    <2>2. \A p \in Payments : (status[p] = "canceled" => authority[p] # None)'
      BY <1>5, <1>a DEF ApplyExpiry, ExpiryStatus, Rows, RowsHeld, HeldAt, RowsAgree, TypeOK, RowTypes
    <2> QED  BY <2>1, <2>2 DEF RowsAgree, InvoiceAgrees
  <1>6. CASE \E w \in Workers : Activate(w)
    <2>1. \A p \in Payments : A(p)'
      <3>1. PICK w \in Workers : Activate(w)
        BY <1>6
      <3>2. job[w].pay \in Payments
        BY <3>1, PayType DEF Activate, Rows
      <3>3. A(job[w].pay)
        BY <1>0, <3>2
      <3> QED  BY <1>0, <3>1, <3>2, <3>3 DEF Activate, Rows, RowsHeld, HeldAt, TypeOK, RowTypes
    <2>2. \A p \in Payments : (status[p] = "canceled" => authority[p] # None)'
      BY <1>6, <1>a DEF Activate, Rows, RowsHeld, HeldAt, RowsAgree, TypeOK, RowTypes
    <2> QED  BY <2>1, <2>2 DEF RowsAgree, InvoiceAgrees
  <1>7. CASE \E w \in Workers : RefundCommit(w)
    <2>1. \A p \in Payments : A(p)'
      <3>1. PICK w \in Workers : RefundCommit(w)
        BY <1>7
      <3>2. job[w].pay \in Payments
        BY <3>1, PayType DEF RefundCommit, Rows
      <3>3. A(job[w].pay)
        BY <1>0, <3>2
      <3> QED  BY <1>0, <3>1, <3>2, <3>3 DEF RefundCommit, Rows, RowsHeld, HeldAt, TypeOK, RowTypes
    <2>2. \A p \in Payments : (status[p] = "canceled" => authority[p] # None)'
      BY <1>7, <1>a DEF RefundCommit, Rows, RowsHeld, HeldAt, RowsAgree, TypeOK, RowTypes
    <2> QED  BY <2>1, <2>2 DEF RowsAgree, InvoiceAgrees
  <1> QED  BY <1>1, <1>2, <1>3, <1>4, <1>5, <1>6, <1>7, RowWriters

LEMMA RowsNext ==
    ASSUME Rows, [Next]_vars
    PROVE  Rows'
  BY TypeNext, LocksNext, HeldNext, AgreeNext DEF Rows

LEMMA RowsInit == Init => Rows
  <1> SUFFICES ASSUME Init PROVE Rows
    OBVIOUS
  <1>1. \A w \in Workers : job[w].step = "idle"
    BY DEF Init, Idle
  <1>2. LocksExclude /\ RowsHeld
    BY <1>1 DEF LocksExclude, LockSteps, RowsHeld, HeldAt
  <1>3. RowsAgree
    BY DEF Init, RowsAgree, InvoiceAgrees
  <1> QED  BY <1>2, <1>3, TypeInit DEF Rows

\* A payment and its invoice agree after every commit, whoever settles, expires,
\* voids or refunds them at the same time.
THEOREM InvoiceCorrect == Spec => []InvoiceAgrees
  <1>1. Rows /\ [Next]_vars => Rows'
    BY RowsNext
  <1>2. Rows => InvoiceAgrees
    BY DEF Rows, RowsAgree
  <1> QED  BY <1>1, <1>2, RowsInit, PTL DEF Spec

-----------------------------------------------------------------------------
\* Subscriptions

Subs == Rows /\ SubsHeld /\ SubsAgree

\* A paid payment stays paid until it is refunded.
LEMMA PaidStays ==
    ASSUME Rows, [Next]_vars, NEW p \in Payments, status[p] = "paid",
           ~ \E w \in Workers : RefundCommit(w)
    PROVE  status'[p] = "paid"
  <1>1. CASE UNCHANGED <<status, invoice>>
    BY <1>1
  <1>2. ASSUME NEW w \in Workers, NEW q \in Payments, CreateCheckout(w, q)
        PROVE  status'[p] = "paid"
    BY <1>2 DEF CreateCheckout, Rows, TypeOK, RowTypes
  <1>3. ASSUME NEW w \in Workers, VoidInvoice(w)
        PROVE  status'[p] = "paid"
    BY <1>3 DEF VoidInvoice
  <1>4. ASSUME NEW w \in Workers, VoidPayment(w)
        PROVE  status'[p] = "paid"
    BY <1>4 DEF VoidPayment, Rows, TypeOK, RowTypes
  <1>5. ASSUME NEW w \in Workers, ApplyExpiry(w)
        PROVE  status'[p] = "paid"
    BY <1>5 DEF ApplyExpiry, Rows, RowsHeld, HeldAt, TypeOK, RowTypes
  <1>6. ASSUME NEW w \in Workers, Activate(w)
        PROVE  status'[p] = "paid"
    BY <1>6 DEF Activate, Rows, TypeOK, RowTypes
  <1> QED  BY <1>1, <1>2, <1>3, <1>4, <1>5, <1>6, RowWriters

\* The period a refund is about is left alone by all others until it commits.
LEMMA LockedSub ==
    ASSUME Subs, [Next]_vars, NEW v \in Workers, job[v].step = "restore", job'[v] = job[v]
    PROVE  sub'[job[v].pay] = sub[job[v].pay]
  <1> DEFINE p == job[v].pay
  <1>0. /\ p \in Payments /\ status[p] = "paid" /\ job[v].step \in LockSteps
        /\ sub[p] = "active" => SubLocked(p)
        /\ Locked(p)
    BY PayType DEF Subs, SubsHeld, LiveAt, Rows, RowsHeld, HeldAt, SubLocked, Locked, LockSteps
  <1>1. CASE UNCHANGED <<sub, follows>>
    BY <1>1
  <1>2. ASSUME NEW w \in Workers, Activate(w)
        PROVE  sub'[p] = sub[p]
    <2>1. job[w].pay \in Payments /\ status[job[w].pay] = "pending"
      BY <1>2, PayType DEF Activate, Subs, Rows, RowsHeld, HeldAt
    <2>2. p # job[w].pay
      BY <1>0, <2>1
    <2>3. p \notin Replaced(w)
      <3>1. SUFFICES ASSUME p = job[w].live, sub[p] = "active" PROVE FALSE
        BY DEF Replaced
      <3>2. TeamOf[p] = TeamOf[job[w].pay]
        BY <1>0, <1>2, <3>1, NoneAssumption DEF Activate, Subs, SubsHeld, LiveAt
      <3>3. p \in ActiveOf(TeamOf[job[w].pay])
        BY <1>0, <3>1, <3>2 DEF ActiveOf
      <3> QED  BY <1>0, <1>2, <3>1, <3>3 DEF Activate, SubsAreFree
    <2> QED  BY <1>0, <1>2, <2>2, <2>3 DEF Activate
  <1>3. ASSUME NEW w \in Workers, RefundCommit(w)
        PROVE  sub'[p] = sub[p]
    <2>1. job'[w].step = "idle"
      BY <1>3, RefundMoves DEF Subs, Rows, Ended, Moved
    <2>2. w # v
      BY <2>1
    <2>3. job[w].pay # p
      BY <1>0, <1>3, <2>2 DEF RefundCommit, LockSteps, Subs, Rows, LocksExclude
    <2>4. p # job[w].live
      BY <1>0, <1>3, <2>3, NoneAssumption DEF RefundCommit, Subs, SubsHeld, LiveAt
    <2>5. p \notin Restorable(w)
      BY <1>0, <1>3 DEF RefundCommit, RestoreIsFree
    <2> QED  BY <1>0, <1>3, <2>4, <2>5 DEF RefundCommit
  <1>4. CASE EndFinished
    BY <1>0, <1>4 DEF EndFinished
  <1> QED  BY <1>1, <1>2, <1>3, <1>4, SubWriters

\* The team of what an activation has found does not change.
LEMMA LiveOthers ==
    ASSUME Subs, [Next]_vars, NEW v \in Workers, job'[v] = job[v]
    PROVE  LiveAt(v)'
  <1>1. CASE job[v].step = "restore"
    <2>1. sub'[job[v].pay] = sub[job[v].pay]
      BY <1>1, LockedSub
    <2> QED  BY <1>1, <2>1 DEF Subs, SubsHeld, LiveAt
  <1>2. CASE job[v].step # "restore"
    BY <1>2 DEF Subs, SubsHeld, LiveAt
  <1> QED  BY <1>1, <1>2

LEMMA LiveElsewhere ==
    ASSUME NEW w \in Workers, job'[w].step \notin {"restore", "activate"}
    PROVE  LiveAt(w)'
  BY DEF LiveAt

LEMMA LiveMover ==
    ASSUME Subs, NEW w \in Workers, Checkout(w) \/ Settle(w) \/ Refund(w) \/ Operate(w)
    PROVE  LiveAt(w)'
  <1>0. TypeOK /\ JobShape /\ (job[w].step \notin {"idle", "wait"} => job[w].pay \in Payments)
    BY PayType DEF Subs, Rows
  <1>1. CASE RefundByHand(w) \/ RefundByGateway(w)
    <2>1. Found(w, "restore", IF sub[job[w].pay] = "active" THEN job[w].pay ELSE None)
      BY <1>0, <1>1, RefundMoves
    <2>2. sub' = sub
      BY <1>1 DEF RefundByHand, RefundByGateway, subs
    <2>3. job[w].pay \in Payments
      BY <1>0, <1>1 DEF RefundByHand, RefundByGateway
    <2> QED  BY <2>1, <2>2, <2>3, NoneAssumption DEF Found, Moved, LiveAt
  <1>2. CASE VerifyPaid(w)
    <2>1. PICK l : (l # None => TeamOf[l] = TeamOf[job[w].pay]) /\ Found(w, "activate", l)
      BY <1>0, <1>2, SettleMoves
    <2> QED  BY <2>1 DEF Found, Moved, LiveAt
  <1>3. CASE LockToApprove(w)
    <2>1. CASE Ended(w)
      BY <2>1, LiveElsewhere DEF Ended, Moved
    <2>2. CASE ~Ended(w)
      <3>1. PICK l : (l # None => TeamOf[l] = TeamOf[job[w].pay]) /\ Found(w, "activate", l)
        BY <1>0, <1>3, <2>2, OperateMoves
      <3> QED  BY <3>1 DEF Found, Moved, LiveAt
    <2> QED  BY <2>1, <2>2
  <1>4. CASE Checkout(w)
    <2>1. job'[w].step \in {"idle", "create", "store", "void", "fail"}
      BY <1>0, <1>4, CheckoutMoves DEF Checkout, Moved, Went, Ended
    <2> QED  BY <2>1, LiveElsewhere
  <1>5. CASE Settle(w) /\ ~VerifyPaid(w)
    <2>1. job'[w].step \in {"idle", "wait", "verify", "expire"}
      BY <1>0, <1>5, SettleMoves DEF Settle, Moved, Went, Ended
    <2> QED  BY <2>1, LiveElsewhere
  <1>6. CASE Refund(w) /\ ~RefundByHand(w) /\ ~RefundByGateway(w)
    <2>1. job'[w].step \in {"idle", "wait", "refund"}
      BY <1>0, <1>6, RefundMoves DEF Refund, Moved, Went, Ended
    <2> QED  BY <2>1, LiveElsewhere
  <1>7. CASE Operate(w) /\ ~LockToApprove(w)
    <2>1. job'[w].step \in {"idle", "wait", "adopt"}
      BY <1>0, <1>7, OperateMoves DEF Operate, Moved, Ended
    <2> QED  BY <2>1, LiveElsewhere
  <1> QED  BY <1>1, <1>2, <1>3, <1>4, <1>5, <1>6, <1>7

LEMMA LiveNext ==
    ASSUME Subs, [Next]_vars
    PROVE  SubsHeld'
  <1>1. ASSUME NEW w \in Workers, Checkout(w) \/ Settle(w) \/ Refund(w) \/ Operate(w),
               NEW v \in Workers
        PROVE  LiveAt(v)'
    <2>1. CASE v = w
      BY <1>1, <2>1, LiveMover
    <2>2. CASE v # w
      BY <1>1, <2>2, MovesOne, LiveOthers DEF Subs, Rows
    <2> QED  BY <2>1, <2>2
  <1>2. ASSUME Environment \/ UNCHANGED vars, NEW v \in Workers
        PROVE  LiveAt(v)'
    BY <1>2, OthersWait, LiveOthers
  <1>3. \A v \in Workers : LiveAt(v)'
    BY <1>1, <1>2 DEF Next
  <1> QED  BY <1>3 DEF SubsHeld

\* What an activation writes.
LEMMA ActivateEffect ==
    ASSUME Subs, NEW w \in Workers, Activate(w)
    PROVE  LET p == job[w].pay IN
           /\ p \in Payments /\ status[p] = "pending"
           /\ Replaced(w) = ActiveOf(TeamOf[p])
           /\ status' = [status EXCEPT ![p] = "paid"]
           /\ sub' = [q \in Payments |->
                        IF q = p THEN "active"
                        ELSE IF q \in ActiveOf(TeamOf[p]) THEN "expired" ELSE sub[q]]
  <1>1. job[w].pay \in Payments /\ status[job[w].pay] = "pending"
    BY PayType DEF Activate, Subs, Rows, RowsHeld, HeldAt
  <1>2. Replaced(w) \subseteq ActiveOf(TeamOf[job[w].pay])
    BY NoneAssumption DEF Activate, Replaced, ActiveOf, Subs, SubsHeld, LiveAt
  <1>3. Replaced(w) = ActiveOf(TeamOf[job[w].pay])
    BY <1>2 DEF Activate, MayActivate
  <1> QED  BY <1>1, <1>3 DEF Activate

LEMMA AgreeActivate ==
    ASSUME Subs, NEW w \in Workers, Activate(w)
    PROVE  SubsAgree'
  <1> DEFINE p == job[w].pay
  <1>1. p \in Payments /\ status[p] = "pending"
    BY ActivateEffect
  <1>2. /\ status' = [status EXCEPT ![p] = "paid"]
        /\ sub' = [q \in Payments |->
                     IF q = p THEN "active"
                     ELSE IF q \in ActiveOf(TeamOf[p]) THEN "expired" ELSE sub[q]]
    BY ActivateEffect
  <1>3. status \in [Payments -> {"none", "pending", "paid", "failed", "canceled", "refunded"}]
    BY DEF Subs, Rows, TypeOK, RowTypes
  <1>4. LiveIsPaidFor'
    BY <1>1, <1>2, <1>3 DEF LiveIsPaidFor, Subs, SubsAgree
  <1>5. OneLivePerTeam'
    BY <1>1, <1>2 DEF OneLivePerTeam, ActiveOf, Subs, SubsAgree
  <1>6. \A q \in Payments : (follows[q] # None => TeamOf[follows[q]] = TeamOf[q])'
    <2>1. job[w].live # None => TeamOf[job[w].live] = TeamOf[p]
      BY DEF Activate, Subs, SubsHeld, LiveAt
    <2> QED  BY <1>1, <2>1 DEF Activate, Subs, SubsAgree, Rows, TypeOK, SubTypes
  <1> QED  BY <1>4, <1>5, <1>6 DEF SubsAgree

\* What a refund writes: nothing about subscriptions, or the end of the team's live
\* one and, with it, the return of the one it had replaced.
LEMMA RefundEffect ==
    ASSUME Subs, NEW w \in Workers, RefundCommit(w)
    PROVE  LET p == job[w].pay IN
           /\ p \in Payments /\ status[p] = "paid"
           /\ status' = [status EXCEPT ![p] = "refunded"]
           /\ \/ sub[p] # "active" /\ sub' = sub
              \/ /\ sub[p] = "active"
                 /\ \E back \in Payments \cup {None} :
                      /\ back # None => /\ TeamOf[back] = TeamOf[p]
                                        /\ sub[back] = "expired" /\ status[back] = "paid"
                      /\ sub' = [q \in Payments |->
                                   IF q = p THEN "canceled"
                                   ELSE IF q = back THEN "active" ELSE sub[q]]
  <1> DEFINE p == job[w].pay
  <1>1. p \in Payments /\ status[p] = "paid" /\ status' = [status EXCEPT ![p] = "refunded"]
    BY PayType DEF RefundCommit, Subs, Rows, RowsHeld, HeldAt
  <1>2. /\ job[w].live \in {None, p} /\ (sub[p] = "active" => job[w].live = p)
        /\ job[w].live # None => sub[job[w].live] = "active"
    BY DEF RefundCommit, Subs, SubsHeld, LiveAt
  <1>3. sub \in [Payments -> {"none", "active", "expired", "canceled"}]
        /\ follows \in [Payments -> Payments \cup {None}]
    BY DEF Subs, Rows, TypeOK, SubTypes
  <1>4. sub' = [q \in Payments |->
                  IF q = job[w].live THEN "canceled"
                  ELSE IF q \in Restorable(w) THEN "active" ELSE sub[q]]
    BY DEF RefundCommit
  <1>5. CASE job[w].live = None
    <2>1. Restorable(w) = {}
      BY <1>5 DEF Restorable
    <2>2. sub' = sub
      BY <1>3, <1>4, <1>5, <2>1, NoneAssumption
    <2>3. sub[p] # "active"
      BY <1>1, <1>2, <1>5, NoneAssumption
    <2> QED  BY <1>1, <2>2, <2>3
  <1>6. CASE job[w].live = p
    <2>1. sub[p] = "active"
      BY <1>1, <1>2, <1>6, NoneAssumption
    <2> DEFINE back == IF follows[p] \in Restorable(w) THEN follows[p] ELSE None
    <2>2. back \in Payments \cup {None}
      BY <1>1, <1>3
    <2>3. back # None => TeamOf[back] = TeamOf[p] /\ sub[back] = "expired" /\ status[back] = "paid"
      <3>1. SUFFICES ASSUME back # None
                     PROVE TeamOf[back] = TeamOf[p] /\ sub[back] = "expired" /\ status[back] = "paid"
        OBVIOUS
      <3>2. back = follows[p] /\ follows[p] \in Restorable(w)
        BY <3>1
      <3>3. TeamOf[follows[p]] = TeamOf[p]
        BY <1>1, <3>1, <3>2 DEF Subs, SubsAgree
      <3> QED  BY <3>2, <3>3 DEF Restorable
    <2>4. \A q \in Payments : q \in Restorable(w) <=> q = back
      BY <1>6, NoneAssumption DEF Restorable
    <2>5. sub' = [q \in Payments |-> IF q = p THEN "canceled"
                                     ELSE IF q = back THEN "active" ELSE sub[q]]
      BY <1>4, <1>6, <2>4
    <2> HIDE DEF back
    <2> QED  BY <1>1, <2>1, <2>2, <2>3, <2>5
  <1> QED  BY <1>2, <1>5, <1>6

LEMMA AgreeRefund ==
    ASSUME Subs, NEW w \in Workers, RefundCommit(w)
    PROVE  SubsAgree'
  <1> DEFINE p == job[w].pay
  <1>1. p \in Payments /\ status[p] = "paid" /\ status' = [status EXCEPT ![p] = "refunded"]
    BY RefundEffect
  <1>2. status \in [Payments -> {"none", "pending", "paid", "failed", "canceled", "refunded"}]
    BY DEF Subs, Rows, TypeOK, RowTypes
  <1>3. follows' = follows
    BY DEF RefundCommit
  <1>4. OneLivePerTeam /\ LiveIsPaidFor
    BY DEF Subs, SubsAgree
  <1>5. CASE sub[p] # "active" /\ sub' = sub
    BY <1>1, <1>2, <1>3, <1>4, <1>5 DEF Subs, SubsAgree, OneLivePerTeam, LiveIsPaidFor
  <1>6. ASSUME sub[p] = "active", NEW back \in Payments \cup {None},
               back # None => /\ TeamOf[back] = TeamOf[p]
                              /\ sub[back] = "expired" /\ status[back] = "paid",
               sub' = [q \in Payments |-> IF q = p THEN "canceled"
                                          ELSE IF q = back THEN "active" ELSE sub[q]]
        PROVE  SubsAgree'
    <2>1. LiveIsPaidFor'
      BY <1>1, <1>2, <1>4, <1>6, NoneAssumption DEF LiveIsPaidFor
    <2>2. \A q \in Payments : sub[q] = "active" /\ TeamOf[q] = TeamOf[p] => q = p
      BY <1>1, <1>4, <1>6 DEF OneLivePerTeam
    <2>3. \A q \in Payments : sub'[q] = "active" =>
              q # p /\ (q = back \/ (sub[q] = "active" /\ TeamOf[q] # TeamOf[p]))
      BY <1>6, <2>2
    <2>4. OneLivePerTeam'
      BY <1>4, <1>6, <2>3, NoneAssumption DEF OneLivePerTeam
    <2> QED  BY <1>3, <2>1, <2>4 DEF Subs, SubsAgree
  <1> QED  BY <1>5, <1>6, RefundEffect

LEMMA SubsAgreeNext ==
    ASSUME Subs, [Next]_vars
    PROVE  SubsAgree'
  <1>1. CASE \E w \in Workers : Activate(w)
    BY <1>1, AgreeActivate
  <1>2. CASE \E w \in Workers : RefundCommit(w)
    BY <1>2, AgreeRefund
  <1>3. CASE ~ (\E w \in Workers : Activate(w)) /\ ~ (\E w \in Workers : RefundCommit(w))
    <2>1. follows' = follows /\ \A p \in Payments : sub'[p] = "active" => sub[p] = "active"
      BY <1>3, SubWriters DEF EndFinished
    <2>2. \A p \in Payments : status[p] = "paid" => status'[p] = "paid"
      BY <1>3, PaidStays DEF Subs
    <2> QED  BY <2>1, <2>2 DEF Subs, SubsAgree, OneLivePerTeam, LiveIsPaidFor
  <1> QED  BY <1>1, <1>2, <1>3

LEMMA SubsNext ==
    ASSUME Subs, [Next]_vars
    PROVE  Subs'
  BY RowsNext, LiveNext, SubsAgreeNext DEF Subs

LEMMA SubsInit == Init => Subs
  <1> SUFFICES ASSUME Init PROVE Subs
    OBVIOUS
  <1>1. SubsHeld
    BY DEF Init, Idle, SubsHeld, LiveAt
  <1>2. SubsAgree
    BY DEF Init, SubsAgree, OneLivePerTeam, LiveIsPaidFor
  <1> QED  BY <1>1, <1>2, RowsInit DEF Subs

\* A team has one live subscription at most, whatever settles, is refunded or ends
\* at the same time.
THEOREM OneLive == Spec => []OneLivePerTeam
  <1>1. Subs /\ [Next]_vars => Subs'
    BY SubsNext
  <1>2. Subs => OneLivePerTeam
    BY DEF Subs, SubsAgree
  <1> QED  BY <1>1, <1>2, SubsInit, PTL DEF Spec

\* A live subscription has a paid payment behind it: a refund never brings back a
\* period whose own payment is refunded, and never leaves one behind.
THEOREM LivePaid == Spec => []LiveIsPaidFor
  <1>1. Subs /\ [Next]_vars => Subs'
    BY SubsNext
  <1>2. Subs => LiveIsPaidFor
    BY DEF Subs, SubsAgree
  <1> QED  BY <1>1, <1>2, SubsInit, PTL DEF Spec

-----------------------------------------------------------------------------
\* The lifecycle of payments

LEMMA LifecycleStep ==
    ASSUME Subs, [Next]_vars
    PROVE  [Lifecycle!Next]_<<status, sub>>
  <1> USE DEF Lifecycle!Live
  <1>0. status \in [Payments -> {"none", "pending", "paid", "failed", "canceled", "refunded"}]
    BY DEF Subs, Rows, TypeOK, RowTypes
  <1>1. ASSUME NEW w \in Workers, Activate(w)
        PROVE  Lifecycle!Next
    <2>1. Lifecycle!Settle(job[w].pay)
      BY <1>1, ActivateEffect DEF Lifecycle!Settle, ActiveOf
    <2> QED  BY <1>1, <2>1, ActivateEffect DEF Lifecycle!Next
  <1>2. ASSUME NEW w \in Workers, RefundCommit(w)
        PROVE  Lifecycle!Next
    <2> DEFINE p == job[w].pay
    <2>1. p \in Payments /\ status[p] = "paid" /\ status' = [status EXCEPT ![p] = "refunded"]
      BY <1>2, RefundEffect
    <2>2. CASE sub[p] # "active" /\ sub' = sub
      BY <2>1, <2>2 DEF Lifecycle!Next, Lifecycle!RefundOld
    <2>3. ASSUME sub[p] = "active", NEW back \in Payments \cup {None},
                 back # None => /\ TeamOf[back] = TeamOf[p]
                                /\ sub[back] = "expired" /\ status[back] = "paid",
                 sub' = [q \in Payments |-> IF q = p THEN "canceled"
                                            ELSE IF q = back THEN "active" ELSE sub[q]]
          PROVE  Lifecycle!Next
      <3>1. Lifecycle!RefundLive(p, back)
        BY <2>1, <2>3 DEF Lifecycle!RefundLive
      <3> QED  BY <2>1, <2>3, <3>1 DEF Lifecycle!Next
    <2> QED  BY <1>2, <2>2, <2>3, RefundEffect
  <1>3. CASE EndFinished
    <2> DEFINE over == {p \in ended : sub[p] = "active"}
    <2> DEFINE s == [p \in over |-> IF p \in leaving THEN "canceled" ELSE "expired"]
    <2>1. over \in SUBSET Payments
      BY DEF Subs, Rows, TypeOK, SubTypes
    <2>2. s \in [over -> {"expired", "canceled"}]
      OBVIOUS
    <2>3. sub' = [p \in Payments |-> IF p \in over THEN s[p] ELSE sub[p]]
      BY <1>3 DEF EndFinished
    <2>4. status' = status /\ \A p \in over : sub[p] = "active"
      BY <1>3 DEF EndFinished, db
    <2> HIDE DEF over, s
    <2>5. Lifecycle!Finish(over)
      BY <2>2, <2>3, <2>4 DEF Lifecycle!Finish
    <2> QED  BY <2>1, <2>5 DEF Lifecycle!Next
  <1>4. ASSUME NEW w \in Workers, NEW p \in Payments, CreateCheckout(w, p)
        PROVE  Lifecycle!Next
    <2>1. Lifecycle!Draft(p)
      BY <1>4 DEF CreateCheckout, Lifecycle!Draft, subs
    <2> QED  BY <2>1 DEF Lifecycle!Next
  <1>5. ASSUME NEW w \in Workers, VoidPayment(w)
        PROVE  Lifecycle!Next \/ UNCHANGED <<status, sub>>
    <2>1. job[w].pay \in Payments
      BY <1>5, PayType DEF VoidPayment, Subs, Rows
    <2>2. CASE status[job[w].pay] = "pending"
      <3>1. Lifecycle!GiveUp(job[w].pay)
        BY <1>5, <2>2 DEF VoidPayment, Lifecycle!GiveUp, subs
      <3> QED  BY <2>1, <3>1 DEF Lifecycle!Next
    <2>3. CASE status[job[w].pay] # "pending"
      <3>1. status' = status
        BY <1>0, <1>5, <2>1, <2>3 DEF VoidPayment
      <3> QED  BY <1>5, <3>1 DEF VoidPayment, subs
    <2> QED  BY <2>2, <2>3
  <1>6. ASSUME NEW w \in Workers, ApplyExpiry(w)
        PROVE  Lifecycle!Next
    <2>1. job[w].pay \in Payments /\ status[job[w].pay] = "pending"
      BY <1>6, PayType DEF ApplyExpiry, Subs, Rows, RowsHeld, HeldAt
    <2>2. Lifecycle!GiveUp(job[w].pay)
      BY <1>6, <2>1 DEF ApplyExpiry, ExpiryStatus, Lifecycle!GiveUp, subs
    <2> QED  BY <2>1, <2>2 DEF Lifecycle!Next
  <1>7. ASSUME NEW w \in Workers, VoidInvoice(w)
        PROVE  UNCHANGED <<status, sub>>
    BY <1>7 DEF VoidInvoice, subs
  <1>8. CASE UNCHANGED <<status, invoice>> /\ UNCHANGED <<sub, follows>>
    BY <1>8
  <1> QED  BY <1>1, <1>2, <1>3, <1>4, <1>5, <1>6, <1>7, <1>8, RowWriters, SubWriters

\* The lifecycle is implemented: a payment is settled once and refunded once, and
\* each of these moves subscriptions in the one way it may.
THEOREM ImplementsLifecycle == Spec => FollowsLifecycle
  <1>1. Init => Lifecycle!Init
    BY DEF Init, Lifecycle!Init
  <1>2. Subs /\ [Next]_vars => Subs'
    BY SubsNext
  <1>3. Subs /\ [Next]_vars => [Lifecycle!Next]_<<status, sub>>
    BY LifecycleStep
  <1> QED  BY <1>1, <1>2, <1>3, SubsInit, PTL DEF Spec, FollowsLifecycle, Lifecycle!Spec

-----------------------------------------------------------------------------
\* Bank references and coupons

LEMMA ReferenceWriters ==
    ASSUME [Next]_vars
    PROVE  \/ UNCHANGED reference
           \/ \E w \in Workers : Activate(w)
           \/ \E w \in Workers : LockToApprove(w)
  <1>1. ASSUME NEW w \in Workers, Checkout(w), ~UNCHANGED reference
        PROVE  FALSE
    BY <1>1 DEF Checkout, CreateCheckout, ReplayCheckout, CreatePayment, CreateFails, StoreAuthority, StoreFails, VoidInvoice, VoidPayment,
           db, subs
  <1>2. ASSUME NEW w \in Workers, Settle(w), ~UNCHANGED reference
        PROVE  Activate(w)
    BY <1>2 DEF Settle, AskSettle, AskExpire, Callback, LockToSettle, VerifyError, VerifyNotPaid, VerifyPaid, ApplyExpiry, ActivateFails,
           db, subs
  <1>3. ASSUME NEW w \in Workers, Refund(w), ~UNCHANGED reference
        PROVE  FALSE
    BY <1>3 DEF Refund, AskRefund, LockToRefund, RefundByHand, RefundByGateway, RefundFails, RefundCommit,
           db, subs
  <1>4. ASSUME NEW w \in Workers, Operate(w), ~UNCHANGED reference
        PROVE  LockToApprove(w)
    BY <1>4 DEF Operate, PlanAdoption, AskApprove, Adopt, Crash,
           db, subs
  <1>5. ASSUME Environment, ~UNCHANGED reference
        PROVE  FALSE
    BY <1>5 DEF Environment, ClaimTransfer, PeriodEnds, CancelAtPeriodEnd, UserPays, EndFinished, TimePasses, db, subs
  <1>6. CASE UNCHANGED vars
    BY <1>6 DEF vars, db, subs
  <1> QED  BY <1>1, <1>2, <1>3, <1>4, <1>5, <1>6 DEF Next

LEMMA RedemptionWriters ==
    ASSUME [Next]_vars
    PROVE  \/ UNCHANGED <<redeemed, redeemedCount>>
           \/ \E w \in Workers : Activate(w)
  <1>1. ASSUME NEW w \in Workers, Checkout(w), ~UNCHANGED <<redeemed, redeemedCount>>
        PROVE  FALSE
    BY <1>1 DEF Checkout, CreateCheckout, ReplayCheckout, CreatePayment, CreateFails, StoreAuthority, StoreFails, VoidInvoice, VoidPayment,
           db, subs
  <1>2. ASSUME NEW w \in Workers, Settle(w), ~UNCHANGED <<redeemed, redeemedCount>>
        PROVE  Activate(w)
    BY <1>2 DEF Settle, AskSettle, AskExpire, Callback, LockToSettle, VerifyError, VerifyNotPaid, VerifyPaid, ApplyExpiry, ActivateFails,
           db, subs
  <1>3. ASSUME NEW w \in Workers, Refund(w), ~UNCHANGED <<redeemed, redeemedCount>>
        PROVE  FALSE
    BY <1>3 DEF Refund, AskRefund, LockToRefund, RefundByHand, RefundByGateway, RefundFails, RefundCommit,
           db, subs
  <1>4. ASSUME NEW w \in Workers, Operate(w), ~UNCHANGED <<redeemed, redeemedCount>>
        PROVE  FALSE
    BY <1>4 DEF Operate, PlanAdoption, AskApprove, Adopt, LockToApprove, Crash,
           db, subs
  <1>5. ASSUME Environment, ~UNCHANGED <<redeemed, redeemedCount>>
        PROVE  FALSE
    BY <1>5 DEF Environment, ClaimTransfer, PeriodEnds, CancelAtPeriodEnd, UserPays, EndFinished, TimePasses, db, subs
  <1>6. CASE UNCHANGED vars
    BY <1>6 DEF vars, db, subs
  <1> QED  BY <1>1, <1>2, <1>3, <1>4, <1>5, <1>6 DEF Next

LEMMA TransferNext ==
    ASSUME TypeOK, JobShape, TransferPaysOnce, [Next]_vars
    PROVE  TransferPaysOnce'
  <1>1. CASE UNCHANGED reference
    BY <1>1 DEF TransferPaysOnce
  <1>2. ASSUME NEW w \in Workers, Activate(w)
        PROVE  TransferPaysOnce'
    BY <1>2 DEF Activate, MayActivate, TransferPaysOnce, TypeOK, RowTypes
  <1>3. ASSUME NEW w \in Workers, LockToApprove(w)
        PROVE  TransferPaysOnce'
    <2>1. CASE reference' = reference
      BY <2>1 DEF TransferPaysOnce
    <2>2. CASE /\ reference' = [reference EXCEPT ![job[w].pay] = job[w].ref]
               /\ \A q \in Payments \ {job[w].pay} : reference[q] # job[w].ref
      BY <2>2 DEF TransferPaysOnce, TypeOK, RowTypes
    <2> QED  BY <1>3, <2>1, <2>2 DEF LockToApprove
  <1> QED  BY <1>1, <1>2, <1>3, ReferenceWriters

\* One transfer in the bank's statement pays for one payment, also when two
\* operators approve at the same time or one payment has no authority yet.
THEOREM TransferOnce == Spec => []TransferPaysOnce
  <1>1. TypeOK /\ JobShape /\ TransferPaysOnce /\ [Next]_vars
          => (TypeOK /\ JobShape /\ TransferPaysOnce)'
    BY TypeNext, TransferNext
  <1>2. Init => TransferPaysOnce
    BY DEF Init, TransferPaysOnce
  <1> QED  BY <1>1, <1>2, TypeInit, PTL DEF Spec

LEMMA RedemptionsNext ==
    ASSUME IsFiniteSet(redeemed), RedemptionsAreCounted, TypeOK, [Next]_vars
    PROVE  (IsFiniteSet(redeemed) /\ RedemptionsAreCounted)'
  <1>1. CASE UNCHANGED <<redeemed, redeemedCount>>
    BY <1>1 DEF RedemptionsAreCounted
  <1>2. ASSUME NEW w \in Workers, Activate(w)
        PROVE  (IsFiniteSet(redeemed) /\ RedemptionsAreCounted)'
    <2> DEFINE t == TeamOf[job[w].pay]
    <2>1. CASE Redeems(job[w].pay)
      <3>1. t \notin redeemed /\ redeemedCount < MaxRedemptions
        BY <1>2, <2>1 DEF Activate, MayActivate, Redeems
      <3>2. redeemed' = redeemed \cup {t} /\ redeemedCount' = redeemedCount + 1
        BY <1>2, <2>1 DEF Activate
      <3>3. IsFiniteSet(redeemed') /\ Cardinality(redeemed') = Cardinality(redeemed) + 1
        BY <3>1, <3>2, FS_AddElement
      <3> QED  BY <3>1, <3>2, <3>3, LimitAssumption DEF RedemptionsAreCounted, TypeOK, SubTypes
    <2>2. CASE ~Redeems(job[w].pay)
      <3>1. redeemed' = redeemed /\ redeemedCount' = redeemedCount
        BY <1>2, <2>2 DEF Activate, TypeOK, SubTypes
      <3> QED  BY <3>1 DEF RedemptionsAreCounted
    <2> QED  BY <2>1, <2>2
  <1> QED  BY <1>1, <1>2, RedemptionWriters

\* The count of a coupon is the number of teams that redeemed it, within its limit.
THEOREM Redemptions == Spec => []RedemptionsAreCounted
  <1>1. (TypeOK /\ JobShape /\ IsFiniteSet(redeemed) /\ RedemptionsAreCounted) /\ [Next]_vars
          => (TypeOK /\ JobShape /\ IsFiniteSet(redeemed) /\ RedemptionsAreCounted)'
    BY TypeNext, RedemptionsNext
  <1>2. Init => IsFiniteSet(redeemed) /\ RedemptionsAreCounted
    BY FS_EmptySet, LimitAssumption DEF Init, RedemptionsAreCounted
  <1> QED  BY <1>1, <1>2, TypeInit, PTL DEF Spec

-----------------------------------------------------------------------------
\* Authorities and expiry

LEMMA HandedWriters ==
    ASSUME [Next]_vars
    PROVE  \/ UNCHANGED handed
           \/ \E w \in Workers : StoreAuthority(w)
           \/ \E w \in Workers : Crash(w)
  <1>1. ASSUME NEW w \in Workers, Checkout(w), ~UNCHANGED handed
        PROVE  StoreAuthority(w)
    BY <1>1 DEF Checkout, CreateCheckout, ReplayCheckout, CreatePayment, CreateFails, StoreFails, VoidInvoice, VoidPayment,
           gateway
  <1>2. ASSUME NEW w \in Workers, Settle(w), ~UNCHANGED handed
        PROVE  FALSE
    BY <1>2 DEF Settle, AskSettle, AskExpire, Callback, LockToSettle, VerifyError, VerifyNotPaid, VerifyPaid, ApplyExpiry, Activate, ActivateFails,
           gateway
  <1>3. ASSUME NEW w \in Workers, Refund(w), ~UNCHANGED handed
        PROVE  FALSE
    BY <1>3 DEF Refund, AskRefund, LockToRefund, RefundByHand, RefundByGateway, RefundFails, RefundCommit,
           gateway
  <1>4. ASSUME NEW w \in Workers, Operate(w), ~UNCHANGED handed
        PROVE  Crash(w)
    BY <1>4 DEF Operate, PlanAdoption, AskApprove, Adopt, LockToApprove,
           gateway
  <1>5. ASSUME Environment, ~UNCHANGED handed
        PROVE  FALSE
    BY <1>5 DEF Environment, ClaimTransfer, PeriodEnds, CancelAtPeriodEnd, UserPays, EndFinished, TimePasses, gateway
  <1>6. CASE UNCHANGED vars
    BY <1>6 DEF vars, gateway
  <1> QED  BY <1>1, <1>2, <1>3, <1>4, <1>5, <1>6 DEF Next

LEMMA GatewayWriters ==
    ASSUME [Next]_vars
    PROVE  \/ UNCHANGED gw
           \/ \E w \in Workers : CreatePayment(w)
           \/ \E w \in Workers : VerifyError(w)
           \/ \E w \in Workers : VerifyPaid(w)
           \/ \E w \in Workers : RefundByGateway(w)
           \/ \E w \in Workers : RefundFails(w)
           \/ \E a \in Authorities : UserPays(a)
  <1>1. ASSUME NEW w \in Workers, Checkout(w), ~UNCHANGED gw
        PROVE  CreatePayment(w)
    BY <1>1 DEF Checkout, CreateCheckout, ReplayCheckout, CreateFails, StoreAuthority, StoreFails, VoidInvoice, VoidPayment,
           gateway
  <1>2. ASSUME NEW w \in Workers, Settle(w), ~UNCHANGED gw
        PROVE  VerifyError(w) \/ VerifyPaid(w)
    BY <1>2 DEF Settle, AskSettle, AskExpire, Callback, LockToSettle, VerifyNotPaid, ApplyExpiry, Activate, ActivateFails,
           gateway
  <1>3. ASSUME NEW w \in Workers, Refund(w), ~UNCHANGED gw
        PROVE  RefundByGateway(w) \/ RefundFails(w)
    BY <1>3 DEF Refund, AskRefund, LockToRefund, RefundByHand, RefundCommit,
           gateway
  <1>4. ASSUME NEW w \in Workers, Operate(w), ~UNCHANGED gw
        PROVE  FALSE
    BY <1>4 DEF Operate, PlanAdoption, AskApprove, Adopt, LockToApprove, Crash,
           gateway
  <1>5. ASSUME Environment, ~UNCHANGED gw
        PROVE  (\E a \in Authorities : UserPays(a))
    BY <1>5 DEF Environment, ClaimTransfer, PeriodEnds, CancelAtPeriodEnd, EndFinished, TimePasses, gateway
  <1>6. CASE UNCHANGED vars
    BY <1>6 DEF vars, gateway
  <1> QED  BY <1>1, <1>2, <1>3, <1>4, <1>5, <1>6 DEF Next

LEMMA ProviderStays ==
    ASSUME [Next]_vars
    PROVE  provider' = provider
  <1>1. ASSUME NEW w \in Workers, Checkout(w)
        PROVE  provider' = provider
    BY <1>1 DEF Checkout, CreateCheckout, ReplayCheckout, CreatePayment, CreateFails, StoreAuthority, StoreFails, VoidInvoice, VoidPayment, clock
  <1>2. ASSUME NEW w \in Workers, Settle(w)
        PROVE  provider' = provider
    BY <1>2 DEF Settle, AskSettle, AskExpire, Callback, LockToSettle, VerifyError, VerifyNotPaid, VerifyPaid, ApplyExpiry, Activate, ActivateFails, clock
  <1>3. ASSUME NEW w \in Workers, Refund(w)
        PROVE  provider' = provider
    BY <1>3 DEF Refund, AskRefund, LockToRefund, RefundByHand, RefundByGateway, RefundFails, RefundCommit, clock
  <1>4. ASSUME NEW w \in Workers, Operate(w)
        PROVE  provider' = provider
    BY <1>4 DEF Operate, PlanAdoption, AskApprove, Adopt, LockToApprove, Crash, clock
  <1>5. ASSUME Environment
        PROVE  provider' = provider
    BY <1>5 DEF Environment, ClaimTransfer, PeriodEnds, CancelAtPeriodEnd, UserPays, EndFinished, TimePasses, clock
  <1>6. CASE UNCHANGED vars
    BY <1>6 DEF vars, clock
  <1> QED  BY <1>1, <1>2, <1>3, <1>4, <1>5, <1>6 DEF Next

\* What the books of the gateway say next.
LEMMA GatewayMoves ==
    ASSUME Rows, [Next]_vars, gw' # gw
    PROVE  \E a \in Authorities :
              \/ gw[a] = "unused" /\ gw' = [gw EXCEPT ![a] = "open"]
              \/ gw[a] = "open" /\ a \in handed /\ gw' = [gw EXCEPT ![a] = "paid"]
              \/ gw[a] = "verified" /\ gw' = [gw EXCEPT ![a] = "returned"]
              \/ /\ provider = "online" /\ gw' = [gw EXCEPT ![a] = "verified"]
                 /\ gw[a] \in {"paid", "verified"}
                 /\ \E w \in Workers : job[w].step = "verify" /\ authority[job[w].pay] = a
  <1>1. ASSUME NEW w \in Workers, CreatePayment(w)
        PROVE  \E a \in Authorities : gw[a] = "unused" /\ gw' = [gw EXCEPT ![a] = "open"]
    BY <1>1, CheckoutMoves DEF Rows
  <1>2. ASSUME NEW w \in Workers, VerifyError(w) \/ VerifyPaid(w)
        PROVE  \E a \in Authorities :
                  /\ provider = "online" /\ gw' = [gw EXCEPT ![a] = "verified"]
                  /\ gw[a] \in {"paid", "verified"}
                  /\ job[w].step = "verify" /\ authority[job[w].pay] = a
    <2>1. job[w].step = "verify" /\ job[w].pay \in Payments /\ authority[job[w].pay] # None
      BY <1>2, PayType DEF VerifyError, VerifyPaid, Rows, RowsHeld, HeldAt
    <2>2. authority[job[w].pay] \in Authorities
      BY <2>1 DEF Rows, TypeOK, RowTypes
    <2>3. provider = "online" /\ Verdict(job[w].pay) = "paid" /\ MarkVerified(job[w].pay)
      BY <1>2 DEF VerifyError, VerifyPaid, MarkVerified
    <2>4. gw[authority[job[w].pay]] \in {"paid", "verified"}
          /\ gw' = [gw EXCEPT ![authority[job[w].pay]] = "verified"]
      BY <2>3 DEF Verdict, MarkVerified
    <2> QED  BY <2>1, <2>2, <2>3, <2>4
  <1>3. ASSUME NEW w \in Workers, RefundByGateway(w) \/ RefundFails(w)
        PROVE  \E a \in Authorities : gw[a] = "verified" /\ gw' = [gw EXCEPT ![a] = "returned"]
    <2>1. job[w].pay \in Payments
      BY <1>3, PayType DEF RefundByGateway, RefundFails, Rows
    <2>2. authority[job[w].pay] \in Authorities \cup {None}
      BY <2>1 DEF Rows, TypeOK, RowTypes
    <2> QED  BY <1>3, <2>2 DEF RefundByGateway, RefundFails
  <1>4. ASSUME NEW a \in Authorities, UserPays(a)
        PROVE  gw[a] = "open" /\ a \in handed /\ gw' = [gw EXCEPT ![a] = "paid"]
    BY <1>4 DEF UserPays
  <1> QED  BY <1>1, <1>2, <1>3, <1>4, GatewayWriters

Books == Rows /\ AuthoritiesAreFresh

\* A worker that is not at the store or adopt step did not get there.
LEMMA StoreMover ==
    ASSUME Books, NEW w \in Workers, Checkout(w) \/ Settle(w) \/ Refund(w) \/ Operate(w),
           job'[w].step \in {"store", "adopt"}
    PROVE  CreatePayment(w) \/ \E p \in Payments, a \in Authorities : PlanAdoption(w, p, a)
  <1>0. TypeOK /\ JobShape
    BY DEF Books, Rows
  <1>1. CASE Checkout(w)
    BY <1>0, <1>1, CheckoutMoves DEF Checkout, Moved, Went, Ended
  <1>2. CASE Settle(w)
    <2>1. job'[w].step \in {"idle", "wait", "verify", "expire", "activate"}
      BY <1>0, <1>2, SettleMoves DEF Settle, Moved, Went, Ended, Found
    <2> QED  BY <2>1
  <1>3. CASE Refund(w)
    <2>1. job'[w].step \in {"idle", "wait", "refund", "restore"}
      BY <1>0, <1>3, RefundMoves DEF Refund, Moved, Went, Ended, Found
    <2> QED  BY <2>1
  <1>4. CASE Operate(w)
    BY <1>0, <1>4, OperateMoves DEF Operate, Moved, Ended, Found
  <1> QED  BY <1>1, <1>2, <1>3, <1>4

LEMMA HandedGrows ==
    ASSUME Books, [Next]_vars
    PROVE  /\ handed \subseteq handed'
           /\ \A a \in handed' \ handed : \E w \in Workers :
                /\ job[w].step = "store" /\ job[w].auth = a /\ job'[w].step = "idle"
                /\ gw' = gw
  <1>0. TypeOK /\ JobShape
    BY DEF Books, Rows
  <1>1. CASE UNCHANGED handed
    BY <1>1
  <1>2. ASSUME NEW w \in Workers, StoreAuthority(w)
        PROVE  /\ handed' = handed \cup {job[w].auth} /\ job[w].step = "store"
               /\ job'[w].step = "idle" /\ gw' = gw
    BY <1>0, <1>2, CheckoutMoves DEF StoreAuthority, Ended, Moved
  <1>3. ASSUME NEW w \in Workers, Crash(w)
        PROVE  /\ handed' = IF job[w].step = "store" THEN handed \cup {job[w].auth} ELSE handed
               /\ job'[w].step = "idle" /\ gw' = gw
    BY <1>0, <1>3, OperateMoves DEF Crash, Ended, Moved
  <1> QED  BY <1>1, <1>2, <1>3, HandedWriters

LEMMA AuthorityGrows ==
    ASSUME Books, [Next]_vars, authority' # authority
    PROVE  \E w \in Workers, p \in Payments, a \in Authorities :
              /\ p = job[w].pay /\ authority' = [authority EXCEPT ![p] = a]
              /\ \A q \in Payments : authority[q] # a
              /\ a = job[w].auth /\ gw' = gw
              /\ \/ job[w].step = "store" /\ a \in handed'
                 \/ job[w].step = "adopt" /\ authority[p] = None
              /\ job'[w].step \in {"idle", "wait"}
  <1>0. TypeOK /\ JobShape
    BY DEF Books, Rows
  <1>1. ASSUME NEW w \in Workers, StoreAuthority(w)
        PROVE  /\ job[w].pay \in Payments /\ job[w].auth \in Authorities
               /\ authority' = [authority EXCEPT ![job[w].pay] = job[w].auth]
               /\ \A q \in Payments : authority[q] # job[w].auth
               /\ gw' = gw /\ job[w].step = "store" /\ job[w].auth \in handed'
               /\ job'[w].step = "idle"
    <2>1. job[w].pay \in Payments /\ job[w].auth \in Authorities
      BY <1>0, <1>1, PayType, JobFields DEF StoreAuthority, JobShape
    <2>2. job'[w].step = "idle"
      BY <1>0, <1>1, CheckoutMoves DEF Ended, Moved
    <2> QED  BY <1>1, <2>1, <2>2 DEF StoreAuthority
  <1>2. ASSUME NEW w \in Workers, Adopt(w)
        PROVE  /\ job[w].pay \in Payments /\ job[w].auth \in Authorities
               /\ authority' = [authority EXCEPT ![job[w].pay] = job[w].auth]
               /\ \A q \in Payments : authority[q] # job[w].auth
               /\ gw' = gw /\ job[w].step = "adopt" /\ authority[job[w].pay] = None
               /\ job'[w].step \in {"idle", "wait"}
    <2>1. job[w].pay \in Payments /\ job[w].auth \in Authorities
      BY <1>0, <1>2, PayType, JobFields DEF Adopt, JobShape
    <2>2. job'[w].step \in {"idle", "wait"}
      BY <1>0, <1>2, OperateMoves DEF Ended, Moved
    <2>3. authority' # authority
      OBVIOUS
    <2> QED  BY <1>2, <2>1, <2>2, <2>3 DEF Adopt, gateway
  <1> QED  BY <1>1, <1>2, AuthorityWriters

LEMMA FreshRows ==
    ASSUME Books, [Next]_vars
    PROVE  /\ (\A p, q \in Payments : authority[p] = authority[q] /\ authority[p] # None => p = q)'
           /\ (\A p \in Payments : authority[p] # None => gw[authority[p]] # "unused")'
           /\ (\A a \in handed : gw[a] # "unused")'
           /\ (\A a \in Authorities : gw[a] = "paid" => a \in handed)'
  <1>0. /\ authority \in [Payments -> Authorities \cup {None}]
        /\ gw \in [Authorities -> {"unused", "open", "paid", "verified", "returned"}]
        /\ handed \subseteq Authorities
    BY DEF Books, Rows, TypeOK, RowTypes, GatewayTypes
  <1>1. \A a \in Authorities : gw[a] # "unused" => gw'[a] # "unused"
    BY <1>0, GatewayMoves DEF Books
  <1>2. \A a \in Authorities : gw'[a] = "paid" => gw[a] = "paid" \/ a \in handed
    BY <1>0, GatewayMoves DEF Books
  <1>3. handed \subseteq handed'
    BY HandedGrows
  <1>4. \A a \in handed' \ handed : gw'[a] # "unused"
    BY HandedGrows DEF Books, AuthoritiesAreFresh, StoreAt
  <1>5. \A a \in handed' : gw'[a] # "unused"
    BY <1>0, <1>1, <1>4 DEF Books, AuthoritiesAreFresh
  <1>6. \A a \in Authorities : gw'[a] = "paid" => a \in handed'
    BY <1>2, <1>3 DEF Books, AuthoritiesAreFresh
  <1>7. CASE authority' = authority
    BY <1>0, <1>1, <1>5, <1>6, <1>7 DEF Books, AuthoritiesAreFresh
  <1>8. CASE authority' # authority
    <2>1. PICK w \in Workers, p \in Payments, a \in Authorities :
              /\ authority' = [authority EXCEPT ![p] = a]
              /\ \A q \in Payments : authority[q] # a
              /\ a = job[w].auth
              /\ \/ job[w].step = "store" /\ a \in handed'
                 \/ job[w].step = "adopt"
      BY <1>8, AuthorityGrows
    <2>2. a \in handed'
      BY <1>3, <2>1 DEF Books, AuthoritiesAreFresh
    <2>3. gw'[a] # "unused"
      BY <1>5, <2>2
    <2>4. \A q \in Payments : authority'[q] = IF q = p THEN a ELSE authority[q]
      BY <1>0, <2>1
    <2>5. \A q, r \in Payments : authority'[q] = authority'[r] /\ authority'[q] # None => q = r
      BY <2>1, <2>4 DEF Books, AuthoritiesAreFresh
    <2>6. \A q \in Payments : authority'[q] # None => gw'[authority'[q]] # "unused"
      BY <1>0, <1>1, <2>3, <2>4 DEF Books, AuthoritiesAreFresh
    <2> QED  BY <1>5, <1>6, <2>5, <2>6
  <1> QED  BY <1>7, <1>8

\* An authority that is still to be stored stays nobody's.
LEMMA StoreOthers ==
    ASSUME Books, [Next]_vars, NEW v \in Workers, job'[v] = job[v]
    PROVE  StoreAt(v)'
  <1> SUFFICES ASSUME job[v].step = "store"
               PROVE  /\ gw'[job[v].auth] = "open" /\ job[v].auth \notin handed'
                      /\ \A p \in Payments : authority'[p] # job[v].auth
    BY DEF StoreAt
  <1> DEFINE a == job[v].auth
  <1>0. /\ authority \in [Payments -> Authorities \cup {None}]
        /\ gw \in [Authorities -> {"unused", "open", "paid", "verified", "returned"}]
        /\ a \in Authorities
    BY JobFields DEF Books, Rows, TypeOK, RowTypes, GatewayTypes, JobShape
  <1>1. gw[a] = "open" /\ a \notin handed /\ \A p \in Payments : authority[p] # a
    BY DEF Books, AuthoritiesAreFresh, StoreAt
  <1>2. gw'[a] = "open"
    <2>1. CASE gw' = gw
      BY <1>1, <2>1
    <2>2. CASE gw' # gw
      <3>1. \A w \in Workers : job[w].step = "verify" => authority[job[w].pay] # a
        BY <1>1, PayType DEF Books, Rows
      <3> QED  BY <1>0, <1>1, <2>2, <3>1, GatewayMoves DEF Books
    <2> QED  BY <2>1, <2>2
  <1>3. \A w \in Workers : job[w].step = "store" /\ job[w].auth = a => job'[w].step # "idle"
    BY DEF Books, AuthoritiesAreFresh
  <1>4. a \notin handed'
    BY <1>1, <1>3, HandedGrows
  <1>5. \A p \in Payments : authority'[p] # a
    <2>1. CASE authority' = authority
      BY <1>1, <2>1
    <2>2. CASE authority' # authority
      <3>1. PICK w \in Workers, p \in Payments, b \in Authorities :
                /\ authority' = [authority EXCEPT ![p] = b] /\ b = job[w].auth
                /\ job[w].step = "store" \/ job[w].step = "adopt"
                /\ job'[w].step \in {"idle", "wait"}
        BY <2>2, AuthorityGrows
      <3>2. b # a
        BY <1>1, <3>1 DEF Books, AuthoritiesAreFresh
      <3> QED  BY <1>0, <1>1, <3>1, <3>2
    <2> QED  BY <2>1, <2>2
  <1> QED  BY <1>2, <1>4, <1>5

LEMMA FreshJobs ==
    ASSUME Books, NEW w \in Workers, Checkout(w) \/ Settle(w) \/ Refund(w) \/ Operate(w), Next
    PROVE  /\ \A v \in Workers : job'[v].step = "adopt" => job'[v].auth \in handed'
           /\ \A v \in Workers : StoreAt(v)'
           /\ \A u, v \in Workers :
                 job'[u].step = "store" /\ job'[v].step = "store" /\ job'[u].auth = job'[v].auth
                   => u = v
  <1>0. TypeOK /\ JobShape /\ handed \subseteq handed'
    BY HandedGrows DEF Books, Rows
  <1>1. \A v \in Workers : v # w => job'[v] = job[v]
    BY <1>0, MovesOne
  <1>2. \A v \in Workers : v # w =>
           StoreAt(v)' /\ (job'[v].step = "adopt" => job'[v].auth \in handed')
    BY <1>0, <1>1, StoreOthers DEF Books, AuthoritiesAreFresh
  <1>3. CASE job'[w].step \notin {"store", "adopt"}
    BY <1>1, <1>2, <1>3 DEF Books, AuthoritiesAreFresh, StoreAt
  <1>4. CASE CreatePayment(w)
    <2>1. PICK a \in Authorities :
              /\ gw[a] = "unused" /\ gw' = [gw EXCEPT ![a] = "open"]
              /\ Moved(w, job[w].kind, "store", job[w].pay, a, job[w].live, job[w].ref)
      BY <1>0, <1>4, CheckoutMoves
    <2>2. job'[w].step = "store" /\ job'[w].auth = a
      BY <2>1 DEF Moved
    <2>3. handed' = handed /\ authority' = authority
      BY <1>4 DEF CreatePayment, db
    <2>4. a \notin handed /\ \A p \in Payments : authority[p] # a
      BY <2>1, NoneAssumption DEF Books, AuthoritiesAreFresh
    <2>5. gw'[a] = "open"
      BY <1>0, <2>1 DEF TypeOK, GatewayTypes
    <2>6. StoreAt(w)'
      BY <2>2, <2>3, <2>4, <2>5 DEF StoreAt
    <2>7. \A v \in Workers : v # w /\ job'[v].step = "store" => job'[v].auth # a
      BY <1>1, <2>1 DEF Books, AuthoritiesAreFresh, StoreAt
    <2> QED  BY <1>1, <1>2, <2>2, <2>6, <2>7 DEF Books, AuthoritiesAreFresh
  <1>5. ASSUME NEW p \in Payments, NEW a \in Authorities, PlanAdoption(w, p, a)
        PROVE  /\ \A v \in Workers : job'[v].step = "adopt" => job'[v].auth \in handed'
               /\ \A v \in Workers : StoreAt(v)'
               /\ \A u, v \in Workers :
                     job'[u].step = "store" /\ job'[v].step = "store"
                     /\ job'[u].auth = job'[v].auth => u = v
    <2>1. job'[w].step = "adopt" /\ job'[w].auth = a
      BY <1>0, <1>5, OperateMoves DEF Moved
    <2>2. a \in Candidates(AmountOf[p])
      BY <1>5 DEF PlanAdoption, MatchOrphans
    <2>3. a \in handed
      BY <2>2 DEF Candidates, Books, AuthoritiesAreFresh
    <2>4. StoreAt(w)'
      BY <2>1 DEF StoreAt
    <2> QED  BY <1>0, <1>1, <1>2, <2>1, <2>3, <2>4 DEF Books, AuthoritiesAreFresh
  <1> QED  BY <1>3, <1>4, <1>5, StoreMover

LEMMA BooksNext ==
    ASSUME Books, [Next]_vars
    PROVE  Books'
  <1>1. Rows'
    BY RowsNext DEF Books
  <1>2. ASSUME NEW w \in Workers, Checkout(w) \/ Settle(w) \/ Refund(w) \/ Operate(w)
        PROVE  AuthoritiesAreFresh'
    <2>1. Next
      BY <1>2 DEF Next
    <2> QED  BY <1>2, <2>1, FreshRows, FreshJobs DEF AuthoritiesAreFresh
  <1>3. CASE Environment \/ UNCHANGED vars
    <2>1. job' = job /\ handed \subseteq handed'
      BY <1>3, OthersWait, HandedGrows
    <2>2. \A v \in Workers : StoreAt(v)'
      BY <2>1, StoreOthers
    <2>3. \A v \in Workers : job'[v].step = "adopt" => job'[v].auth \in handed'
      BY <2>1 DEF Books, AuthoritiesAreFresh
    <2>4. \A u, v \in Workers :
             job'[u].step = "store" /\ job'[v].step = "store" /\ job'[u].auth = job'[v].auth
               => u = v
      BY <2>1 DEF Books, AuthoritiesAreFresh
    <2>5. /\ (\A p, q \in Payments : authority[p] = authority[q] /\ authority[p] # None => p = q)'
          /\ (\A p \in Payments : authority[p] # None => gw[authority[p]] # "unused")'
          /\ (\A a \in handed : gw[a] # "unused")'
          /\ (\A a \in Authorities : gw[a] = "paid" => a \in handed)'
      BY <1>3, FreshRows
    <2>6. AuthoritiesAreFresh'
      BY <2>2, <2>3, <2>4, <2>5 DEF AuthoritiesAreFresh
    <2> QED  BY <1>1, <2>6 DEF Books
  <1> QED  BY <1>1, <1>2, <1>3 DEF Books, Next

LEMMA BooksInit == Init => Books
  <1> SUFFICES ASSUME Init PROVE Books
    OBVIOUS
  <1>1. AuthoritiesAreFresh
    BY DEF Init, Idle, AuthoritiesAreFresh, StoreAt
  <1> QED  BY <1>1, RowsInit DEF Books

Expiry == Books /\ ExpiryHeld

LEMMA CanceledBy ==
    ASSUME Rows, [Next]_vars, NEW p \in Payments, status'[p] = "canceled"
    PROVE  status[p] = "canceled" \/ \E w \in Workers : ApplyExpiry(w) /\ job[w].pay = p
  <1>0. status \in [Payments -> {"none", "pending", "paid", "failed", "canceled", "refunded"}]
    BY DEF Rows, TypeOK, RowTypes
  <1>1. CASE UNCHANGED <<status, invoice>>
    BY <1>1
  <1>2. ASSUME NEW w \in Workers, NEW q \in Payments, CreateCheckout(w, q)
        PROVE  status[p] = "canceled"
    BY <1>0, <1>2 DEF CreateCheckout
  <1>3. ASSUME NEW w \in Workers, VoidInvoice(w)
        PROVE  status[p] = "canceled"
    BY <1>3 DEF VoidInvoice
  <1>4. ASSUME NEW w \in Workers, VoidPayment(w) \/ Activate(w) \/ RefundCommit(w)
        PROVE  status[p] = "canceled"
    BY <1>0, <1>4 DEF VoidPayment, Activate, RefundCommit
  <1>5. ASSUME NEW w \in Workers, ApplyExpiry(w)
        PROVE  status[p] = "canceled" \/ job[w].pay = p
    BY <1>0, <1>5 DEF ApplyExpiry
  <1> QED  BY <1>1, <1>2, <1>3, <1>4, <1>5, RowWriters

LEMMA ExpiryFacts ==
    ASSUME Expiry, [Next]_vars
    PROVE  /\ (provider = "online" => claimed = {})'
           /\ (provider = "transfer" => \A a \in Authorities : gw[a] # "verified")'
  <1>1. provider' = provider
    BY ProviderStays
  <1>2. provider = "online" => claimed' = {}
    BY ClaimWriters DEF ClaimTransfer, Expiry, ExpiryHeld
  <1>3. provider = "transfer" => \A a \in Authorities : gw'[a] # "verified"
    BY GatewayMoves DEF Expiry, ExpiryHeld, Books, Rows, TypeOK, GatewayTypes
  <1> QED  BY <1>1, <1>2, <1>3

\* The books about a payment that nobody can settle now.
LEMMA NotCharged ==
    ASSUME Expiry, [Next]_vars, NEW p \in Payments, authority[p] # None,
           gw[authority[p]] # "verified",
           \A w \in Workers : job[w].step = "verify" => job[w].pay # p
    PROVE  gw'[authority[p]] # "verified"
  <1>0. /\ authority[p] \in Authorities
        /\ gw \in [Authorities -> {"unused", "open", "paid", "verified", "returned"}]
    BY DEF Expiry, Books, Rows, TypeOK, RowTypes, GatewayTypes
  <1>1. \A w \in Workers : job[w].step = "verify" => authority[job[w].pay] # authority[p]
    BY PayType DEF Expiry, Books, Rows, AuthoritiesAreFresh
  <1>2. CASE gw' = gw
    BY <1>2
  <1>3. CASE gw' # gw
    BY <1>0, <1>1, <1>3, GatewayMoves DEF Expiry, Books
  <1> QED  BY <1>2, <1>3

LEMMA ExpiryAt ==
    ASSUME Expiry, [Next]_vars, NEW v \in Workers, job'[v].step = "expire"
    PROVE  job'[v].pay \notin claimed' /\ gw'[authority'[job'[v].pay]] # "verified"
  <1>0. TypeOK /\ JobShape
    BY DEF Expiry, Books, Rows
  <1>1. CASE job'[v] = job[v]
    <2> DEFINE p == job[v].pay
    <2>1. /\ p \in Payments /\ authority[p] # None /\ job[v].step = "expire"
          /\ p \notin claimed /\ gw[authority[p]] # "verified"
      BY <1>0, <1>1, PayType DEF Expiry, ExpiryHeld, Books, Rows, RowsHeld, HeldAt
    <2>2. authority'[p] = authority[p]
      BY <2>1, LockedAuthority DEF Expiry, Books, LockSteps
    <2>3. \A w \in Workers : job[w].step = "verify" => job[w].pay # p
      BY <2>1 DEF Expiry, Books, Rows, LocksExclude, LockSteps
    <2>4. gw'[authority[p]] # "verified"
      BY <2>1, <2>3, NotCharged
    <2>5. p \notin claimed'
      <3>1. Locked(p)
        BY <2>1 DEF Locked
      <3> QED  BY <2>1, <3>1, ClaimWriters DEF ClaimTransfer
    <2> QED  BY <1>1, <2>2, <2>4, <2>5
  <1>2. CASE job'[v] # job[v]
    <2>1. PICK w \in Workers : Checkout(w) \/ Settle(w) \/ Refund(w) \/ Operate(w)
      BY <1>2, OthersWait DEF Next
    <2>2. w = v
      BY <1>0, <1>2, <2>1, MovesOne
    <2>3. ~Checkout(v)
      BY <1>0, CheckoutMoves DEF Checkout, Moved, Went, Ended
    <2>4. ~Refund(v)
      BY <1>0, RefundMoves DEF Refund, Moved, Went, Ended, Found
    <2>5. ~Operate(v)
      BY <1>0, OperateMoves DEF Operate, Moved, Ended, Found
    <2>6. VerifyNotPaid(v)
      <3>1. Settle(v)
        BY <2>1, <2>2, <2>3, <2>4, <2>5
      <3> QED  BY <1>0, <3>1, SettleMoves DEF Settle, Moved, Ended, Found
    <2>7. Went(v, "expire")
      BY <1>0, <2>6, SettleMoves DEF Ended, Moved
    <2>8. job'[v].pay = job[v].pay
      BY <2>7 DEF Went, Moved
    <2>9. job[v].pay \in Payments /\ authority[job[v].pay] # None
          /\ Verdict(job[v].pay) = "notPaid"
      BY <1>0, <2>6, PayType DEF VerifyNotPaid, Expiry, Books, Rows, RowsHeld, HeldAt
    <2>10. authority[job[v].pay] \in Authorities
      BY <1>0, <2>9 DEF TypeOK, RowTypes
    <2>11. job[v].pay \notin claimed /\ gw[authority[job[v].pay]] # "verified"
      <3>1. CASE provider = "online"
        BY <2>9, <3>1 DEF Verdict, Expiry, ExpiryHeld
      <3>2. CASE provider # "online"
        <4>1. job[v].pay \notin claimed
          BY <2>9, <3>2 DEF Verdict
        <4>2. provider = "transfer"
          BY <1>0, <3>2 DEF TypeOK
        <4> QED  BY <2>10, <4>1, <4>2 DEF Expiry, ExpiryHeld
      <3> QED  BY <3>1, <3>2
    <2>12. claimed' = claimed /\ gw' = gw /\ authority' = authority
      BY <2>6 DEF VerifyNotPaid, gateway
    <2> QED  BY <2>8, <2>11, <2>12
  <1> QED  BY <1>1, <1>2

LEMMA ClaimedNext ==
    ASSUME Expiry, [Next]_vars
    PROVE  ClaimedIsNotExpired'
  <1> SUFFICES ASSUME NEW p \in Payments, p \in claimed', status'[p] = "canceled" PROVE FALSE
    BY TypeNext DEF ClaimedIsNotExpired, Expiry, Books, Rows, TypeOK, RowTypes
  <1>1. CASE status[p] = "canceled"
    <2>1. p \notin claimed
      BY <1>1 DEF Expiry, ExpiryHeld, ClaimedIsNotExpired
    <2>2. claimed' = claimed \/ \E q \in Payments : claimed' = claimed \cup {q} /\ status[q] = "pending"
      BY ClaimWriters DEF ClaimTransfer
    <2> QED  BY <1>1, <2>1, <2>2
  <1>2. ASSUME NEW w \in Workers, ApplyExpiry(w), job[w].pay = p
        PROVE  FALSE
    BY <1>2 DEF ApplyExpiry, Expiry, ExpiryHeld
  <1> QED  BY <1>1, <1>2, CanceledBy DEF Expiry, Books

LEMMA ChargedNext ==
    ASSUME Expiry, [Next]_vars
    PROVE  ExpiredWasNotCharged'
  <1> SUFFICES ASSUME NEW p \in Payments, status'[p] = "canceled", authority'[p] # None
               PROVE  gw'[authority'[p]] # "verified"
    BY DEF ExpiredWasNotCharged
  <1>0. /\ authority \in [Payments -> Authorities \cup {None}]
        /\ gw \in [Authorities -> {"unused", "open", "paid", "verified", "returned"}]
    BY DEF Expiry, Books, Rows, TypeOK, RowTypes, GatewayTypes
  <1>1. CASE status[p] = "canceled"
    <2>1. authority[p] # None /\ gw[authority[p]] # "verified"
      BY <1>1 DEF Expiry, ExpiryHeld, ExpiredWasNotCharged, Books, Rows, RowsAgree
    <2>2. \A w \in Workers : job[w].step = "verify" => job[w].pay # p
      BY <1>1 DEF Expiry, Books, Rows, RowsHeld, HeldAt
    <2>3. gw'[authority[p]] # "verified"
      BY <2>1, <2>2, NotCharged
    <2>4. CASE authority'[p] = authority[p]
      BY <2>3, <2>4
    <2>5. CASE authority'[p] # authority[p]
      <3>1. PICK w \in Workers, q \in Payments, a \in Authorities :
                /\ authority' = [authority EXCEPT ![q] = a]
                /\ a = job[w].auth /\ gw' = gw
                /\ \/ job[w].step = "store"
                   \/ job[w].step = "adopt" /\ authority[q] = None
        BY <2>5, AuthorityGrows DEF Expiry
      <3>2. q = p /\ authority'[p] = a
        BY <1>0, <2>5, <3>1
      <3>3. job[w].step = "store"
        BY <2>1, <3>1, <3>2
      <3>4. gw[a] = "open"
        BY <3>1, <3>3 DEF Expiry, Books, AuthoritiesAreFresh, StoreAt
      <3> QED  BY <3>1, <3>2, <3>4
    <2> QED  BY <2>4, <2>5
  <1>2. ASSUME NEW w \in Workers, ApplyExpiry(w), job[w].pay = p
        PROVE  gw'[authority'[p]] # "verified"
    BY <1>2 DEF ApplyExpiry, gateway, Expiry, ExpiryHeld
  <1> QED  BY <1>1, <1>2, CanceledBy DEF Expiry, Books

LEMMA ExpiryNext ==
    ASSUME Expiry, [Next]_vars
    PROVE  Expiry'
  <1>1. Books'
    BY BooksNext DEF Expiry
  <1>2. ExpiryHeld'
    BY ExpiryFacts, ExpiryAt, ClaimedNext, ChargedNext DEF ExpiryHeld
  <1> QED  BY <1>1, <1>2 DEF Expiry

LEMMA ExpiryInit == Init => Expiry
  <1> SUFFICES ASSUME Init PROVE Expiry
    OBVIOUS
  <1>1. ExpiryHeld
    BY DEF Init, Idle, ExpiryHeld, ClaimedIsNotExpired, ExpiredWasNotCharged
  <1> QED  BY <1>1, BooksInit DEF Expiry

\* What a user has claimed to have transferred never expires, also when the claim
\* arrives while the sweep is deciding about the payment.
THEOREM ClaimedStays == Spec => []ClaimedIsNotExpired
  <1>1. Expiry /\ [Next]_vars => Expiry'
    BY ExpiryNext
  <1>2. Expiry => ClaimedIsNotExpired
    BY DEF Expiry, ExpiryHeld
  <1> QED  BY <1>1, <1>2, ExpiryInit, PTL DEF Spec

\* A payment that was given up is not one the gateway has settled: the sweep and
\* the user's return cannot both have their way with it.
THEOREM ExpiredUncharged == Spec => []ExpiredWasNotCharged
  <1>1. Expiry /\ [Next]_vars => Expiry'
    BY ExpiryNext
  <1>2. Expiry => ExpiredWasNotCharged
    BY DEF Expiry, ExpiryHeld
  <1> QED  BY <1>1, <1>2, ExpiryInit, PTL DEF Spec
=============================================================================
