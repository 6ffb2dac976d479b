---------------------------- MODULE TeamCapacity ----------------------------
(***************************************************************************)
(* What a team holds against what its plan allows: boards, members and     *)
(* stored images (apps/api/src/routes/boards.ts, teams.ts, assets.ts,      *)
(* services/quota.ts and packages/assets/src/asset-service.ts).            *)
(*                                                                         *)
(* A worker is one request on some node.  Its awaits are steps; what its   *)
(* transaction writes is seen when it commits, and the rows it has locked  *)
(* are read off the step it is in.  A file has the name of the object key  *)
(* that presign gave it; files are numbered in the order of created_at,    *)
(* and every image takes one unit of storage.                              *)
(***************************************************************************)
EXTENDS Integers, FiniteSets

CONSTANTS
    Boards, Users, Invites, Files,
    Workers,    \* requests that run at the same time
    Owner,      \* the user who made the team
    Content,    \* sha256 of the image that is uploaded for a file
    Plans, Limits,  \* Limits[p][d]: what plan p allows of d
    Budgets,    \* bound: how many requests of each kind a behaviour has
    MaxFaults,  \* bound: requests that die
    None

Unlimited == -1
Dims == {"boards", "members", "storage"}

ASSUME OwnerAssumption == Owner \in Users
ASSUME FilesAssumption == Files \subseteq Nat
ASSUME LimitsAssumption == Limits \in [Plans -> [Dims -> Nat \cup {Unlimited}]]
ASSUME BudgetsAssumption == Budgets \subseteq [Dims -> Nat]
ASSUME NoneAssumption == None \notin Boards \cup Users \cup Invites \cup Files

VARIABLES
    plan,           \* plan_code of the team's subscription
    boards, trash,  \* its rows of `boards`, without and with deleted_at
    members, invites,
    files,          \* rows of `files`: status and storage_key
    objects,        \* the object store, by key
    req,            \* what each worker is doing
    left, faults

team == <<plan, boards, trash, members, invites>>
assets == <<files, objects>>
bounds == <<left, faults>>
vars == <<team, assets, req, bounds>>

Idle == [kind |-> "idle", step |-> "idle", item |-> None, invite |-> None,
         dup |-> None, gated |-> FALSE, limit |-> 0]

Request == [kind : {"idle", "create", "restore", "accept", "commit"},
            step : {"idle", "row", "validate", "find", "delete",
                    "lock", "limit", "count", "write"},
            item : Boards \cup Users \cup Files \cup {None},
            invite : Invites \cup {None}, dup : Files \cup {None},
            gated : BOOLEAN, limit : Nat \cup {Unlimited}]

TypeOK ==
    /\ plan \in Plans
    /\ boards \in SUBSET Boards /\ trash \in SUBSET Boards
    /\ members \in SUBSET Users
    /\ invites \in [Invites -> {"none", "open", "closed"}]
    /\ files \in [Files -> [status : {"none", "pending", "failed", "ready"}, key : Files]]
    /\ objects \in [Files -> {"none", "good", "bad", "gone"}]
    /\ req \in [Workers -> Request]
    /\ left \in [Dims -> Nat] /\ faults \in Nat

Init ==
    /\ plan \in Plans
    /\ boards = {} /\ trash = {} /\ members = {Owner}
    /\ invites = [i \in Invites |-> "none"]
    /\ files = [f \in Files |-> [status |-> "none", key |-> f]]
    /\ objects = [f \in Files |-> "none"]
    /\ req = [w \in Workers |-> Idle]
    /\ left \in Budgets /\ faults = 0

-----------------------------------------------------------------------------
DimOf(kind) == CASE kind = "accept" -> "members"
                 [] kind = "commit" -> "storage"
                 [] OTHER -> "boards"

Ready == {f \in Files : files[f].status = "ready"}

\* What currentUsage counts.  Two rows that share their bytes count once.
Counted == [boards |-> boards, members |-> members,
            storage |-> {files[f].key : f \in Ready}]

Used(d) == Cardinality(Counted[d])

Under(w, kinds, step) == req[w].kind \in kinds /\ req[w].step = step
Goto(w, step) == req' = [req EXCEPT ![w].step = step]
End(w) == req' = [req EXCEPT ![w] = Idle]

\* Bound: nothing is prepared for requests that do not come any more.
Asked(d) == left[d] > 0

\* The first awaits of a request, up to the one it is in now.
Begin(w, kind, step, item, invite) ==
    /\ req[w] = Idle /\ Asked(DimOf(kind))
    /\ left' = [left EXCEPT ![DimOf(kind)] = @ - 1]
    /\ req' = [req EXCEPT ![w] = [Idle EXCEPT !.kind = kind, !.step = step,
                                              !.item = item, !.invite = invite]]

\* Row locks: the team's, a board's that is restored, an invitation's that is accepted.
InTransaction(w) == req[w].step \in {"lock", "limit", "count", "write"}
TeamIsFree == \A w \in Workers : ~ req[w].gated
BoardIsFree(b) ==
    \A w \in Workers : req[w].kind = "restore" /\ InTransaction(w) => req[w].item # b
InviteIsFree(i) == \A w \in Workers : InTransaction(w) => req[w].invite # i

\* Faulty: the transaction stays open after the refusal.
LeavesItOpen(w) == Goto(w, "row")

\* HttpError 409 out of the transaction, which is rolled back.
Refuse(w) == End(w)

-----------------------------------------------------------------------------
(***************************************************************************)
(* assertQuota: the team's row is locked, then the plan is read, then what *)
(* is there is counted.  The lock is held until the transaction ends.      *)
(***************************************************************************)
\* Faulty: the row is read without FOR UPDATE.
ReadTeam(w) ==
    /\ req[w].step = "lock"
    /\ req' = [req EXCEPT ![w].step = "limit", ![w].gated = TRUE]
    /\ UNCHANGED <<team, assets, bounds>>

LockTeam(w) ==
    /\ req[w].step = "lock" /\ TeamIsFree
    /\ req' = [req EXCEPT ![w].step = "limit", ![w].gated = TRUE]
    /\ UNCHANGED <<team, assets, bounds>>

ReadLimit(w) ==
    /\ req[w].step = "limit"
    /\ req' = [req EXCEPT ![w].step = "count",
                          ![w].limit = Limits[plan][DimOf(req[w].kind)]]
    /\ UNCHANGED <<team, assets, bounds>>

Fits(n, limit) == limit = Unlimited \/ n <= limit

Count(w) ==
    /\ req[w].step = "count"
    /\ IF Fits(Used(DimOf(req[w].kind)) + 1, req[w].limit)
       THEN Goto(w, "write")
       ELSE Refuse(w)
    /\ UNCHANGED <<team, assets, bounds>>

-----------------------------------------------------------------------------
(***************************************************************************)
(* Boards.  Duplicating a board makes a new one as creating does.          *)
(***************************************************************************)
CreateBoard(w, b) ==
    /\ b \notin boards \cup trash
    /\ \A v \in Workers : req[v].item # b   \* randomUUID
    /\ Begin(w, "create", "lock", b, None)
    /\ UNCHANGED <<team, assets, faults>>

RestoreBoard(w, b) ==
    /\ b \in trash
    /\ Begin(w, "restore", "row", b, None)
    /\ UNCHANGED <<team, assets, faults>>

LockBoard(w) ==
    /\ Under(w, {"restore"}, "row") /\ BoardIsFree(req[w].item)
    /\ Goto(w, "lock")
    /\ UNCHANGED <<team, assets, bounds>>

WriteBoard(w) ==
    /\ Under(w, {"create", "restore"}, "write")
    /\ boards' = boards \cup {req[w].item}
    /\ trash' = trash \ {req[w].item}
    /\ End(w)
    /\ UNCHANGED <<plan, members, invites, assets, bounds>>

DeleteBoard(b) ==
    /\ b \in boards /\ BoardIsFree(b)
    /\ boards' = boards \ {b}
    /\ trash' = trash \cup {b}
    /\ UNCHANGED <<plan, members, invites, assets, req, bounds>>

-----------------------------------------------------------------------------
(***************************************************************************)
(* Members.  An invitation is for who has its token.                       *)
(***************************************************************************)
Invite(i) ==
    /\ invites[i] = "none" /\ Asked("members")
    /\ invites' = [invites EXCEPT ![i] = "open"]
    /\ UNCHANGED <<plan, boards, trash, members, assets, req, bounds>>

InviteExpires(i) ==
    /\ invites[i] = "open"
    /\ invites' = [invites EXCEPT ![i] = "closed"]
    /\ UNCHANGED <<plan, boards, trash, members, assets, req, bounds>>

AcceptInvite(w, i, u) ==
    /\ invites[i] = "open"
    /\ Begin(w, "accept", "row", u, i)
    /\ UNCHANGED <<team, assets, faults>>

\* Who is a member already gets a new role only, and no lock on the team.
LockInvite(w) ==
    /\ Under(w, {"accept"}, "row") /\ InviteIsFree(req[w].invite)
    /\ IF invites[req[w].invite] # "open" THEN End(w)
       ELSE Goto(w, IF req[w].item \in members THEN "write" ELSE "lock")
    /\ UNCHANGED <<team, assets, bounds>>

\* A new row of team_members waits for the team's row, its foreign key.
WriteMember(w) ==
    /\ Under(w, {"accept"}, "write")
    /\ req[w].gated \/ req[w].item \in members \/ TeamIsFree
    /\ members' = members \cup {req[w].item}
    /\ invites' = [invites EXCEPT ![req[w].invite] = "closed"]
    /\ End(w)
    /\ UNCHANGED <<plan, boards, trash, assets, bounds>>

RemoveMember(u) ==
    /\ u \in members \ {Owner}
    /\ members' = members \ {u}
    /\ UNCHANGED <<plan, boards, trash, invites, assets, req, bounds>>

\* A settlement, an expiry or an operator; none of them locks the team's row.
ChangePlan(p) ==
    /\ plan # p /\ plan' = p
    /\ UNCHANGED <<boards, trash, members, invites, assets, req, bounds>>

-----------------------------------------------------------------------------
(***************************************************************************)
(* Images: presign, the upload by the browser, and the commit.             *)
(***************************************************************************)
Presign(f) ==
    /\ files[f].status = "none" /\ Asked("storage")
    /\ \A g \in Files : g < f => files[g].status # "none"
    /\ files' = [files EXCEPT ![f].status = "pending"]
    /\ UNCHANGED <<team, objects, req, bounds>>

Upload(f) ==
    /\ files[f].status # "none" /\ objects[f] = "none" /\ Asked("storage")
    /\ \E bytes \in {"good", "bad"} : objects' = [objects EXCEPT ![f] = bytes]
    /\ UNCHANGED <<team, files, req, bounds>>

\* Faulty: a row that is ready is committed once more.
CommitAgain(w, f) ==
    /\ files[f].status # "none"
    /\ \A v \in Workers : req[v].item # f
    /\ Begin(w, "commit", "validate", f, None)
    /\ UNCHANGED <<team, assets, faults>>

\* The client commits a file once, after its upload (asset-transport.ts): the
\* commits of one file come one after the other.
Commit(w, f) ==
    /\ files[f].status \in {"pending", "failed"}
    /\ \A v \in Workers : req[v].item # f
    /\ Begin(w, "commit", "validate", f, None)
    /\ UNCHANGED <<team, assets, faults>>

Validate(w) ==
    /\ Under(w, {"commit"}, "validate")
    /\ IF objects[files[req[w].item].key] = "good"
       THEN Goto(w, "find") /\ UNCHANGED files
       ELSE files' = [files EXCEPT ![req[w].item].status = "failed"] /\ End(w)
    /\ UNCHANGED <<team, objects, bounds>>

\* Faulty: without the condition on the status, and on the hash.
AnySame(f) == {g \in Files \ {f} : files[g].status # "none" /\ Content[g] = Content[f]}
AnyReady(f) == Ready \ {f}

Duplicates(f) == {g \in Ready \ {f} : Content[g] = Content[f]}

\* The oldest of them; one that has this row's key already is the row's own image.
FindDuplicate(w) ==
    LET f == req[w].item IN
    /\ Under(w, {"commit"}, "find")
    /\ \/ /\ Duplicates(f) = {}
          /\ Goto(w, "lock")
       \/ \E g \in Duplicates(f) :
             /\ \A h \in Duplicates(f) : g <= h
             /\ IF files[g].key = files[f].key THEN Goto(w, "lock")
                ELSE req' = [req EXCEPT ![w].step = "delete", ![w].dup = files[g].key]
    /\ UNCHANGED <<team, assets, bounds>>

DeleteObject(w) ==
    /\ Under(w, {"commit"}, "delete")
    /\ objects' = [objects EXCEPT ![files[req[w].item].key] = "gone"]
    /\ Goto(w, "write")
    /\ UNCHANGED <<team, files, bounds>>

\* Faulty: finalKey does not start as the row's own key.
DuplicateOnly(w) == req[w].dup

FinalKey(w) == IF req[w].dup = None THEN files[req[w].item].key ELSE req[w].dup

WriteFile(w) ==
    /\ Under(w, {"commit"}, "write")
    /\ files' = [files EXCEPT ![req[w].item] = [status |-> "ready", key |-> FinalKey(w)]]
    /\ End(w)
    /\ UNCHANGED <<team, objects, bounds>>

-----------------------------------------------------------------------------
\* The node dies, or the database or the object store fails: the transaction is
\* rolled back, and what was done outside it stays.
Die(w) ==
    /\ req[w] # Idle /\ faults < MaxFaults
    /\ faults' = faults + 1
    /\ End(w)
    /\ UNCHANGED <<team, assets, left>>

Capacity(w) == LockTeam(w) \/ ReadLimit(w) \/ Count(w)
BoardSteps(w) == LockBoard(w) \/ WriteBoard(w)
MemberSteps(w) == LockInvite(w) \/ WriteMember(w)
FileSteps(w) == Validate(w) \/ FindDuplicate(w) \/ DeleteObject(w) \/ WriteFile(w)

Steps(w) == Capacity(w) \/ BoardSteps(w) \/ MemberSteps(w) \/ FileSteps(w)

Asks(w) ==
    \/ \E b \in Boards : CreateBoard(w, b) \/ RestoreBoard(w, b)
    \/ \E i \in Invites, u \in Users : AcceptInvite(w, i, u)
    \/ \E f \in Files : Commit(w, f)

Next ==
    \/ \E w \in Workers : Steps(w) \/ Asks(w) \/ Die(w)
    \/ \E b \in Boards : DeleteBoard(b)
    \/ \E i \in Invites : Invite(i) \/ InviteExpires(i)
    \/ \E u \in Users : RemoveMember(u)
    \/ \E p \in Plans : ChangePlan(p)
    \/ \E f \in Files : Presign(f) \/ Upload(f)

Spec == Init /\ [][Next]_vars

-----------------------------------------------------------------------------
\* The request that ends with this step, having read `limit` under the team's lock.
Allowed(w, d) ==
    /\ req[w].step = "write" /\ DimOf(req[w].kind) = d /\ req'[w] = Idle
    /\ IF req[w].gated THEN Fits(Used(d)', req[w].limit) ELSE d = "members"

\* What a team holds grows within the limit that its plan had after the request took
\* the team's lock, whatever other requests add, restore, remove or share meanwhile
\* (services/quota.ts).  A member who is removed while accepting an invitation comes
\* back uncounted: teams.ts asks who is a member before it would lock the team.
GrowthFits ==
    [][\A d \in Dims : Used(d)' > Used(d) => \E w \in Workers : Allowed(w, d)]_vars

\* A file that can be read has its bytes, and they are the ones that were uploaded for
\* it, although a commit deletes the object of one file and points to another's.
ReadyHasObject ==
    \A f \in Ready : LET k == files[f].key IN objects[k] = "good" /\ Content[k] = Content[f]

\* A commit that has answered "ready" is never taken back: neither the row nor the key
\* that other rows may share changes any more.
ReadyIsFinal == [][\A f \in Ready : files'[f] = files[f]]_vars

\* A commit deletes uploaded bytes only where the same bytes stay readable, even if it
\* dies before its transaction.
GoneHasCopy ==
    \A f \in Files : objects[f] = "gone" =>
        \E g \in Ready : Content[g] = Content[f] /\ objects[files[g].key] = "good"

\* Every request is answered: what waits for a board's, an invitation's or the team's
\* row gets it, also behind requests that are refused or die.
RequestsEnd == \A w \in Workers : req[w] # Idle ~> req[w] = Idle

\* Awaits come back, and who waits for a row gets it when nobody has it any more.
Fairness == \A w \in Workers : WF_vars(Steps(w))

FairSpec == Spec /\ Fairness
=============================================================================
