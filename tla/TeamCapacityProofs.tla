------------------------- MODULE TeamCapacityProofs -------------------------
(* What holds of a team for any sets of boards, users, files and requests. *)
EXTENDS TeamCapacity, FiniteSetTheorems, TLAPS

(***************************************************************************)
(* What a request carries in each of its steps.                            *)
(***************************************************************************)
Shaped(r) ==
    /\ r.kind = "idle" => r.item = None
    /\ r.kind \in {"create", "restore"} => r.item \in Boards
    /\ r.kind = "accept" => r.item \in Users /\ r.invite \in Invites
    /\ r.kind = "commit" => r.item \in Files
    /\ r.kind # "commit" => r.dup = None
    /\ r.step = "idle" <=> r.kind = "idle"
    /\ r.step = "row" => r.kind \in {"restore", "accept"}
    /\ r.step \in {"validate", "find", "delete"} => r.kind = "commit"
    /\ r.step \notin {"delete", "write"} => r.dup = None
    /\ r.step = "delete" => r.dup # None
    /\ r.step \in {"limit", "count"} => r.gated
    /\ r.gated => r.step \in {"limit", "count", "write"} /\ r.dup = None
    /\ r.step = "write" /\ ~ r.gated => r.kind = "accept" \/ r.dup # None

Basic == TypeOK /\ \A w \in Workers : Shaped(req[w])

LEMMA IdleIsShaped == Idle \in Request /\ Shaped(Idle)
  BY DEF Idle, Request, Shaped

\* A request goes on by itself: only its own record has to be looked at.
LEMMA OneMoves ==
    ASSUME Basic, NEW w \in Workers, NEW r \in Request, Shaped(r),
           req' = [req EXCEPT ![w] = r]
    PROVE  req' \in [Workers -> Request] /\ \A v \in Workers : Shaped(req'[v])
  <1>1. \A v \in Workers : req'[v] = IF v = w THEN r ELSE req[v]
    BY DEF Basic, TypeOK
  <1>2. req' \in [Workers -> Request]
    BY DEF Basic, TypeOK
  <1> HIDE DEF Shaped
  <1> QED  BY <1>1, <1>2 DEF Basic

LEMMA EndMoves ==
    ASSUME Basic, NEW w \in Workers, End(w)
    PROVE  req' \in [Workers -> Request] /\ \A v \in Workers : Shaped(req'[v])
  <1> HIDE DEF Idle, Shaped
  <1> QED  BY OneMoves, IdleIsShaped DEF End

\* A step that changes nothing of a request but the step it is in.
LEMMA GotoMoves ==
    ASSUME Basic, NEW w \in Workers, NEW s, Goto(w, s),
           s \in {"row", "validate", "find", "delete", "lock", "limit", "count", "write"},
           Shaped([req[w] EXCEPT !.step = s])
    PROVE  req' \in [Workers -> Request] /\ \A v \in Workers : Shaped(req'[v])
  <1> DEFINE r == [req[w] EXCEPT !.step = s]
  <1>1. req[w] \in Request
    BY DEF Basic, TypeOK
  <1>2. r \in Request
    BY <1>1 DEF Request
  <1>3. req' = [req EXCEPT ![w] = r]
    BY DEF Goto, Basic, TypeOK
  <1>4. Shaped(r)
    OBVIOUS
  <1> HIDE DEF r, Shaped
  <1> QED  BY <1>2, <1>3, <1>4, OneMoves

LEMMA BeginMoves ==
    ASSUME Basic, NEW w \in Workers, NEW kind, NEW step, NEW item, NEW invite,
           Begin(w, kind, step, item, invite),
           [Idle EXCEPT !.kind = kind, !.step = step, !.item = item, !.invite = invite]
               \in Request,
           Shaped([Idle EXCEPT !.kind = kind, !.step = step, !.item = item,
                               !.invite = invite])
    PROVE  /\ req' \in [Workers -> Request] /\ \A v \in Workers : Shaped(req'[v])
           /\ left' \in [Dims -> Nat]
  <1> DEFINE r == [Idle EXCEPT !.kind = kind, !.step = step, !.item = item,
                               !.invite = invite]
  <1>1. req' = [req EXCEPT ![w] = r] /\ r \in Request /\ Shaped(r)
    BY DEF Begin
  <1>2. left' \in [Dims -> Nat]
    BY DEF Begin, Asked, DimOf, Dims, Basic, TypeOK
  <1> HIDE DEF r, Shaped
  <1> QED  BY <1>1, <1>2, OneMoves

-----------------------------------------------------------------------------
\* Types and shapes, by action

LEMMA BasicInit == ASSUME Init PROVE Basic
  <1> USE BudgetsAssumption, OwnerAssumption, FilesAssumption
  <1>1. TypeOK
    BY IdleIsShaped DEF Init, TypeOK, Dims
  <1>2. \A w \in Workers : req[w] = Idle
    BY DEF Init
  <1> HIDE DEF Idle, Shaped
  <1> QED  BY <1>1, <1>2, IdleIsShaped DEF Basic

LEMMA BasicCapacity ==
    ASSUME Basic, NEW w \in Workers, Capacity(w)
    PROVE  Basic'
  <1> DEFINE r == req[w]
  <1>0. r \in Request /\ Shaped(r)
    BY DEF Basic, TypeOK
  <1>1. CASE LockTeam(w)
    <2> DEFINE q == [r EXCEPT !.step = "limit", !.gated = TRUE]
    <2>1. q \in Request /\ Shaped(q)
      BY <1>0, <1>1 DEF LockTeam, Request, Shaped
    <2>2. req' = [req EXCEPT ![w] = q]
      BY <1>1 DEF LockTeam, Basic, TypeOK
    <2> HIDE DEF q, Shaped
    <2>3. req' \in [Workers -> Request] /\ \A v \in Workers : Shaped(req'[v])
      BY <2>1, <2>2, OneMoves
    <2> QED  BY <1>1, <2>3 DEF LockTeam, Basic, TypeOK, team, assets, bounds
  <1>2. CASE ReadLimit(w)
    <2> DEFINE q == [r EXCEPT !.step = "count",
                              !.limit = Limits[plan][DimOf(r.kind)]]
    <2>0. Limits[plan][DimOf(r.kind)] \in Nat \cup {Unlimited}
      BY LimitsAssumption DEF Basic, TypeOK, DimOf, Dims
    <2>1. q \in Request /\ Shaped(q)
      BY <1>0, <1>2, <2>0 DEF ReadLimit, Request, Shaped
    <2>2. req' = [req EXCEPT ![w] = q]
      BY <1>2 DEF ReadLimit, Basic, TypeOK
    <2> HIDE DEF q, Shaped
    <2>3. req' \in [Workers -> Request] /\ \A v \in Workers : Shaped(req'[v])
      BY <2>1, <2>2, OneMoves
    <2> QED  BY <1>2, <2>3 DEF ReadLimit, Basic, TypeOK, team, assets, bounds
  <1>3. CASE Count(w)
    <2>1. Goto(w, "write") \/ End(w)
      BY <1>3 DEF Count, Refuse
    <2>2. Shaped([r EXCEPT !.step = "write"])
      BY <1>0, <1>3 DEF Count, Request, Shaped
    <2> HIDE DEF Shaped
    <2>3. req' \in [Workers -> Request] /\ \A v \in Workers : Shaped(req'[v])
      BY <2>1, <2>2, GotoMoves, EndMoves
    <2> QED  BY <1>3, <2>3 DEF Count, Basic, TypeOK, team, assets, bounds
  <1> QED  BY <1>1, <1>2, <1>3 DEF Capacity

LEMMA BasicBoards ==
    ASSUME Basic, NEW w \in Workers, BoardSteps(w)
    PROVE  Basic'
  <1> DEFINE r == req[w]
  <1>0. r \in Request /\ Shaped(r)
    BY DEF Basic, TypeOK
  <1>1. CASE LockBoard(w)
    <2>1. Shaped([r EXCEPT !.step = "lock"])
      BY <1>0, <1>1 DEF LockBoard, Under, Request, Shaped
    <2> HIDE DEF Shaped
    <2>2. req' \in [Workers -> Request] /\ \A v \in Workers : Shaped(req'[v])
      BY <1>1, <2>1, GotoMoves DEF LockBoard
    <2> QED  BY <1>1, <2>2 DEF LockBoard, Basic, TypeOK, team, assets, bounds
  <1>2. CASE WriteBoard(w)
    <2>1. r.item \in Boards
      BY <1>0, <1>2 DEF WriteBoard, Under, Shaped
    <2> HIDE DEF Shaped
    <2>2. req' \in [Workers -> Request] /\ \A v \in Workers : Shaped(req'[v])
      BY <1>2, EndMoves DEF WriteBoard
    <2> QED  BY <1>2, <2>1, <2>2 DEF WriteBoard, Basic, TypeOK, assets, bounds
  <1> QED  BY <1>1, <1>2 DEF BoardSteps

LEMMA BasicMembers ==
    ASSUME Basic, NEW w \in Workers, MemberSteps(w)
    PROVE  Basic'
  <1> DEFINE r == req[w]
  <1>0. r \in Request /\ Shaped(r)
    BY DEF Basic, TypeOK
  <1>1. CASE LockInvite(w)
    <2>1. Shaped([r EXCEPT !.step = "lock"]) /\ Shaped([r EXCEPT !.step = "write"])
      BY <1>0, <1>1 DEF LockInvite, Under, Request, Shaped
    <2>2. End(w) \/ Goto(w, "lock") \/ Goto(w, "write")
      BY <1>1 DEF LockInvite
    <2> HIDE DEF Shaped
    <2>3. req' \in [Workers -> Request] /\ \A v \in Workers : Shaped(req'[v])
      BY <2>1, <2>2, GotoMoves, EndMoves
    <2> QED  BY <1>1, <2>3 DEF LockInvite, Basic, TypeOK, team, assets, bounds
  <1>2. CASE WriteMember(w)
    <2>1. r.item \in Users
      BY <1>0, <1>2 DEF WriteMember, Under, Shaped
    <2> HIDE DEF Shaped
    <2>2. req' \in [Workers -> Request] /\ \A v \in Workers : Shaped(req'[v])
      BY <1>2, EndMoves DEF WriteMember
    <2> QED  BY <1>2, <2>1, <2>2 DEF WriteMember, Basic, TypeOK, assets, bounds
  <1> QED  BY <1>1, <1>2 DEF MemberSteps

LEMMA BasicFiles ==
    ASSUME Basic, NEW w \in Workers, FileSteps(w)
    PROVE  Basic'
  <1> DEFINE r == req[w]
  <1>0. r \in Request /\ Shaped(r)
    BY DEF Basic, TypeOK
  <1>1. CASE Validate(w)
    <2>1. Shaped([r EXCEPT !.step = "find"]) /\ r.item \in Files
      BY <1>0, <1>1 DEF Validate, Under, Request, Shaped
    <2>2. End(w) \/ Goto(w, "find")
      BY <1>1 DEF Validate
    <2>3. files' \in [Files -> [status : {"none", "pending", "failed", "ready"}, key : Files]]
      BY <1>1, <2>1 DEF Validate, Basic, TypeOK
    <2> HIDE DEF Shaped
    <2>4. req' \in [Workers -> Request] /\ \A v \in Workers : Shaped(req'[v])
      BY <2>1, <2>2, GotoMoves, EndMoves
    <2> QED  BY <1>1, <2>3, <2>4 DEF Validate, Basic, TypeOK, team, bounds
  <1>2. CASE FindDuplicate(w)
    <2>1. ASSUME Goto(w, "lock")
          PROVE  req' \in [Workers -> Request] /\ \A v \in Workers : Shaped(req'[v])
      <3>1. Shaped([r EXCEPT !.step = "lock"])
        BY <1>0, <1>2 DEF FindDuplicate, Under, Request, Shaped
      <3> HIDE DEF Shaped
      <3> QED  BY <2>1, <3>1, GotoMoves
    <2>2. ASSUME NEW g \in Files,
                 req' = [req EXCEPT ![w].step = "delete", ![w].dup = files[g].key]
          PROVE  req' \in [Workers -> Request] /\ \A v \in Workers : Shaped(req'[v])
      <3> DEFINE q == [r EXCEPT !.step = "delete", !.dup = files[g].key]
      <3>0. files[g].key \in Files /\ files[g].key # None
        BY NoneAssumption DEF Basic, TypeOK
      <3>1. q \in Request /\ Shaped(q)
        BY <1>0, <1>2, <3>0 DEF FindDuplicate, Under, Request, Shaped
      <3>2. req' = [req EXCEPT ![w] = q]
        BY <2>2 DEF Basic, TypeOK
      <3> HIDE DEF q, Shaped
      <3> QED  BY <3>1, <3>2, OneMoves
    <2>3. req' \in [Workers -> Request] /\ \A v \in Workers : Shaped(req'[v])
      BY <1>2, <2>1, <2>2 DEF FindDuplicate, Duplicates, Ready
    <2> QED  BY <1>2, <2>3 DEF FindDuplicate, Basic, TypeOK, team, assets, bounds
  <1>3. CASE DeleteObject(w)
    <2>1. Shaped([r EXCEPT !.step = "write"]) /\ r.item \in Files
      BY <1>0, <1>3 DEF DeleteObject, Under, Request, Shaped
    <2>2. objects' \in [Files -> {"none", "good", "bad", "gone"}]
      BY <1>3, <2>1 DEF DeleteObject, Basic, TypeOK
    <2> HIDE DEF Shaped
    <2>3. req' \in [Workers -> Request] /\ \A v \in Workers : Shaped(req'[v])
      BY <1>3, <2>1, GotoMoves DEF DeleteObject
    <2> QED  BY <1>3, <2>2, <2>3 DEF DeleteObject, Basic, TypeOK, team, bounds
  <1>4. CASE WriteFile(w)
    <2>1. r.item \in Files /\ FinalKey(w) \in Files
      BY <1>0, <1>4 DEF WriteFile, FinalKey, Under, Shaped, Request, Basic, TypeOK
    <2>2. files' \in [Files -> [status : {"none", "pending", "failed", "ready"}, key : Files]]
      BY <1>4, <2>1 DEF WriteFile, Basic, TypeOK
    <2> HIDE DEF Shaped
    <2>3. req' \in [Workers -> Request] /\ \A v \in Workers : Shaped(req'[v])
      BY <1>4, EndMoves DEF WriteFile
    <2> QED  BY <1>4, <2>2, <2>3 DEF WriteFile, Basic, TypeOK, team, bounds
  <1> QED  BY <1>1, <1>2, <1>3, <1>4 DEF FileSteps

LEMMA BasicAsks ==
    ASSUME Basic, NEW w \in Workers, Asks(w)
    PROVE  Basic'
  <1> USE NoneAssumption
  <1>1. ASSUME NEW b \in Boards, CreateBoard(w, b) \/ RestoreBoard(w, b)
        PROVE  Basic'
    <2> DEFINE c == [Idle EXCEPT !.kind = "create", !.step = "lock", !.item = b,
                                 !.invite = None]
               r == [Idle EXCEPT !.kind = "restore", !.step = "row", !.item = b,
                                 !.invite = None]
    <2>1. c \in Request /\ Shaped(c) /\ r \in Request /\ Shaped(r)
      BY DEF Idle, Request, Shaped
    <2> HIDE DEF Shaped, Idle, Request
    <2>2. Begin(w, "create", "lock", b, None) \/ Begin(w, "restore", "row", b, None)
      BY <1>1 DEF CreateBoard, RestoreBoard
    <2>3. /\ req' \in [Workers -> Request] /\ \A v \in Workers : Shaped(req'[v])
          /\ left' \in [Dims -> Nat]
      BY <2>1, <2>2, BeginMoves
    <2> QED  BY <1>1, <2>3 DEF CreateBoard, RestoreBoard, Basic, TypeOK, team, assets
  <1>2. ASSUME NEW i \in Invites, NEW u \in Users, AcceptInvite(w, i, u)
        PROVE  Basic'
    <2> DEFINE r == [Idle EXCEPT !.kind = "accept", !.step = "row", !.item = u, !.invite = i]
    <2>1. r \in Request /\ Shaped(r)
      BY DEF Idle, Request, Shaped
    <2> HIDE DEF Shaped, Idle, Request
    <2>2. /\ req' \in [Workers -> Request] /\ \A v \in Workers : Shaped(req'[v])
          /\ left' \in [Dims -> Nat]
      BY <1>2, <2>1, BeginMoves DEF AcceptInvite
    <2> QED  BY <1>2, <2>2 DEF AcceptInvite, Basic, TypeOK, team, assets
  <1>3. ASSUME NEW f \in Files, Commit(w, f)
        PROVE  Basic'
    <2> DEFINE r == [Idle EXCEPT !.kind = "commit", !.step = "validate", !.item = f,
                                 !.invite = None]
    <2>1. r \in Request /\ Shaped(r)
      BY DEF Idle, Request, Shaped
    <2> HIDE DEF Shaped, Idle, Request
    <2>2. /\ req' \in [Workers -> Request] /\ \A v \in Workers : Shaped(req'[v])
          /\ left' \in [Dims -> Nat]
      BY <1>3, <2>1, BeginMoves DEF Commit
    <2> QED  BY <1>3, <2>2 DEF Commit, Basic, TypeOK, team, assets
  <1> QED  BY <1>1, <1>2, <1>3 DEF Asks

LEMMA BasicDie ==
    ASSUME Basic, NEW w \in Workers, Die(w)
    PROVE  Basic'
  <1> HIDE DEF Shaped
  <1>1. req' \in [Workers -> Request] /\ \A v \in Workers : Shaped(req'[v])
    BY EndMoves DEF Die
  <1> QED  BY <1>1 DEF Die, Basic, TypeOK, team, assets

\* What happens around the requests leaves them alone.
Around ==
    \/ \E b \in Boards : DeleteBoard(b)
    \/ \E i \in Invites : Invite(i) \/ InviteExpires(i)
    \/ \E u \in Users : RemoveMember(u)
    \/ \E p \in Plans : ChangePlan(p)
    \/ \E f \in Files : Presign(f) \/ Upload(f)

LEMMA BasicAround == ASSUME Basic, Around PROVE Basic' /\ req' = req
  <1> HIDE DEF Shaped
  <1>1. req' = req /\ bounds' = bounds
    BY DEF Around, DeleteBoard, Invite, InviteExpires, RemoveMember, ChangePlan, Presign, Upload
  <1>2. plan' \in Plans /\ boards' \in SUBSET Boards /\ trash' \in SUBSET Boards
    BY DEF Around, DeleteBoard, Invite, InviteExpires, RemoveMember, ChangePlan, Presign,
           Upload, Basic, TypeOK, team
  <1>3. /\ members' \in SUBSET Users
        /\ invites' \in [Invites -> {"none", "open", "closed"}]
    BY DEF Around, DeleteBoard, Invite, InviteExpires, RemoveMember, ChangePlan, Presign,
           Upload, Basic, TypeOK, team
  <1>4. files' \in [Files -> [status : {"none", "pending", "failed", "ready"}, key : Files]]
    BY DEF Around, DeleteBoard, Invite, InviteExpires, RemoveMember, ChangePlan, Presign,
           Upload, Basic, TypeOK, assets
  <1>5. objects' \in [Files -> {"none", "good", "bad", "gone"}]
    BY DEF Around, DeleteBoard, Invite, InviteExpires, RemoveMember, ChangePlan, Presign,
           Upload, Basic, TypeOK, assets
  <1> QED  BY <1>1, <1>2, <1>3, <1>4, <1>5 DEF Basic, TypeOK, bounds

LEMMA BasicStep == ASSUME Basic, [Next]_vars PROVE Basic'
  <1>1. CASE UNCHANGED vars
    <2> HIDE DEF Shaped
    <2> QED  BY <1>1 DEF Basic, TypeOK, vars, team, assets, bounds
  <1>2. CASE Next
    BY <1>2, BasicCapacity, BasicBoards, BasicMembers, BasicFiles, BasicAsks, BasicDie,
       BasicAround DEF Next, Steps, Around
  <1> QED  BY <1>1, <1>2

\* What the database, the object store and a request can hold is of its type, for any
\* sets of boards, users, files and workers.
THEOREM TypeCorrect == Spec => []TypeOK
  <1>1. Basic /\ [Next]_vars => Basic'
    BY BasicStep
  <1>2. Basic => TypeOK
    BY DEF Basic
  <1> QED  BY BasicInit, <1>1, <1>2, PTL DEF Spec

-----------------------------------------------------------------------------
(***************************************************************************)
(* Images.  While a file is being committed it is not ready, so its object *)
(* is nobody else's: the key of a ready file is that of a ready file that  *)
(* kept its own.                                                           *)
(***************************************************************************)
CommitsExclude ==
    \A v, w \in Workers :
        req[v].kind = "commit" /\ req[w].kind = "commit" /\ req[v].item = req[w].item => v = w

Holds(k, f) ==
    /\ files[k].status = "ready" /\ files[k].key = k
    /\ objects[k] = "good" /\ Content[k] = Content[f]

FilesHeld ==
    /\ \A f \in Files : files[f].status # "ready" => files[f].key = f
    /\ \A f \in Files : files[f].status = "ready" => Holds(files[f].key, f)
    /\ \A f \in Files : objects[f] = "gone" => \E k \in Files : Holds(k, f)

Carries(r) ==
    /\ files[r.item].status \in {"pending", "failed"}
    /\ r.step # "validate" /\ r.dup = None => objects[r.item] = "good"
    /\ r.dup # None => Holds(r.dup, r.item)

CommitsHeld == \A w \in Workers : req[w].kind = "commit" => Carries(req[w])

Images == Basic /\ CommitsExclude /\ FilesHeld /\ CommitsHeld

\* A ready file keeps its row and its object: what was said of others still holds.
Keeps ==
    /\ \A f \in Files : files[f].status = "ready" => files'[f] = files[f]
    /\ \A k \in Files : files[k].status = "ready" /\ files[k].key = k => objects'[k] = objects[k]

LEMMA HoldsStays ==
    ASSUME Basic, Keeps, NEW k \in Files, NEW f \in Files, Holds(k, f)
    PROVE  Holds(k, f)'
  BY DEF Keeps, Holds

\* Nothing but the steps of a commit touches rows and objects that are under way.
LEMMA AroundKeeps ==
    ASSUME Images, Around
    PROVE  /\ Keeps
           /\ \A f \in Files : files'[f].key = files[f].key
           /\ \A f \in Files : files[f].status # "none" => files'[f] = files[f]
           /\ \A f \in Files : files'[f].status = "ready" => files[f].status = "ready"
           /\ \A f \in Files : objects[f] # "none" => objects'[f] = objects[f]
           /\ \A f \in Files : objects'[f] = "gone" => objects[f] = "gone"
  <1>1. CASE files' = files /\ objects' = objects
    BY <1>1 DEF Keeps
  <1>2. CASE \E f \in Files : Presign(f)
    BY <1>2 DEF Presign, Keeps, Images, Basic, TypeOK
  <1>3. CASE \E f \in Files : Upload(f)
    BY <1>3 DEF Upload, Keeps, Images, Basic, TypeOK, FilesHeld, Holds
  <1> QED  BY <1>1, <1>2, <1>3 DEF Around, DeleteBoard, Invite, InviteExpires, RemoveMember,
              ChangePlan, assets

LEMMA ImagesAround == ASSUME Images, Around PROVE Images'
  <1>1. Basic' /\ req' = req
    BY BasicAround DEF Images
  <1>2. CommitsExclude'
    BY <1>1 DEF Images, CommitsExclude
  <1>3. \A k, f \in Files : Holds(k, f) => Holds(k, f)'
    BY AroundKeeps, HoldsStays DEF Images
  <1>4. FilesHeld'
    <2>1. \A f \in Files : files[f].key \in Files
      BY DEF Images, Basic, TypeOK
    <2> QED  BY <1>3, <2>1, AroundKeeps DEF Images, FilesHeld
  <1>5. CommitsHeld'
    <2> SUFFICES ASSUME NEW w \in Workers, req[w].kind = "commit"
                 PROVE  Carries(req[w])'
      BY <1>1 DEF CommitsHeld
    <2>1. Carries(req[w]) /\ req[w].item \in Files /\ req[w].dup \in Files \cup {None}
      BY DEF Images, CommitsHeld, Basic, TypeOK, Request, Shaped
    <2> HIDE DEF Holds
    <2> QED  BY <1>1, <1>3, <2>1, AroundKeeps DEF Carries
  <1> QED  BY <1>1, <1>2, <1>4, <1>5 DEF Images

\* A step of a request is seen in its own record only.
OnlyMoves(w) == \A v \in Workers \ {w} : req'[v] = req[v]

LEMMA StepMoves ==
    ASSUME Basic, NEW w \in Workers, Steps(w) \/ Asks(w) \/ Die(w)
    PROVE  OnlyMoves(w)
  <1> USE DEF OnlyMoves, Basic, TypeOK, Goto, End, Begin
  <1>1. CASE Capacity(w)
    BY <1>1 DEF Capacity, LockTeam, ReadLimit, Count, Refuse
  <1>2. CASE BoardSteps(w) \/ MemberSteps(w)
    BY <1>2 DEF BoardSteps, MemberSteps, LockBoard, WriteBoard, LockInvite, WriteMember
  <1>3. CASE FileSteps(w)
    BY <1>3 DEF FileSteps, Validate, FindDuplicate, DeleteObject, WriteFile
  <1>4. CASE Asks(w)
    BY <1>4 DEF Asks, CreateBoard, RestoreBoard, AcceptInvite, Commit
  <1>5. CASE Die(w)
    BY <1>5 DEF Die
  <1> QED  BY <1>1, <1>2, <1>3, <1>4, <1>5 DEF Steps

\* A commit that stays what it is, or any other request, while nothing is written.
GoesOn(w) ==
    \/ req'[w].kind # "commit"
    \/ /\ req'[w].kind = req[w].kind /\ req'[w].item = req[w].item
       /\ req'[w].dup = req[w].dup /\ req[w].step # "validate"

LEMMA ImagesQuiet ==
    ASSUME Images, Basic', UNCHANGED assets, NEW w \in Workers, OnlyMoves(w), GoesOn(w)
    PROVE  Images'
  <1>1. CommitsExclude'
    BY DEF Images, CommitsExclude, OnlyMoves, GoesOn
  <1>2. FilesHeld'
    BY DEF Images, FilesHeld, Holds, assets
  <1>3. CommitsHeld'
    <2> SUFFICES ASSUME NEW v \in Workers, req'[v].kind = "commit"
                 PROVE  Carries(req[v])'
      BY DEF CommitsHeld
    <2>1. req[v].kind = "commit" /\ req'[v].item = req[v].item /\ req'[v].dup = req[v].dup
          /\ (req[v].step = "validate" => req'[v].step = "validate")
      BY DEF OnlyMoves, GoesOn
    <2>2. Carries(req[v])
      BY <2>1 DEF Images, CommitsHeld
    <2> QED  BY <2>1, <2>2 DEF Carries, Holds, assets
  <1> QED  BY <1>1, <1>2, <1>3 DEF Images

LEMMA EndGoesOn == ASSUME Basic, NEW w \in Workers, End(w) PROVE GoesOn(w)
  BY DEF End, GoesOn, Basic, TypeOK, Idle

LEMMA ImagesOthers ==
    ASSUME Images, NEW w \in Workers,
           Capacity(w) \/ BoardSteps(w) \/ MemberSteps(w) \/ Die(w)
    PROVE  Images'
  <1>0. Basic /\ Basic' /\ OnlyMoves(w)
    BY BasicCapacity, BasicBoards, BasicMembers, BasicDie, StepMoves DEF Images, Steps
  <1>1. UNCHANGED assets
    BY DEF Capacity, BoardSteps, MemberSteps, Die, LockTeam, ReadLimit, Count, LockBoard,
           WriteBoard, LockInvite, WriteMember
  <1>2. CASE Capacity(w)
    <2>1. CASE End(w)
      BY <1>0, <2>1, EndGoesOn, <1>1, ImagesQuiet
    <2>2. CASE ~ End(w)
      <3>0. req[w] \in Request /\ w \in DOMAIN req
        BY <1>0 DEF Basic, TypeOK
      <3>1. GoesOn(w)
        <4>1. CASE LockTeam(w)
          BY <3>0, <4>1 DEF LockTeam, GoesOn, Request
        <4>2. CASE ReadLimit(w)
          BY <3>0, <4>2 DEF ReadLimit, GoesOn, Request
        <4>3. CASE Count(w)
          BY <3>0, <4>3, <2>2 DEF Count, Refuse, Goto, GoesOn, Request
        <4> QED  BY <1>2, <4>1, <4>2, <4>3 DEF Capacity
      <3> QED  BY <1>0, <1>1, <3>1, ImagesQuiet
    <2> QED  BY <2>1, <2>2
  <1>3. CASE Die(w) \/ WriteBoard(w) \/ WriteMember(w)
    <2>1. End(w)
      BY <1>3 DEF Die, WriteBoard, WriteMember
    <2> QED  BY <1>0, <1>1, <2>1, EndGoesOn, ImagesQuiet
  <1>4. CASE LockBoard(w) \/ LockInvite(w)
    <2>0. req[w] \in Request /\ w \in DOMAIN req /\ req[w].kind # "commit"
      BY <1>0, <1>4 DEF LockBoard, LockInvite, Under, Basic, TypeOK
    <2>1. GoesOn(w)
      <3>1. CASE LockBoard(w)
        BY <2>0, <3>1 DEF LockBoard, Goto, GoesOn, Request
      <3>2. CASE LockInvite(w)
        <4>1. CASE End(w)
          BY <1>0, <4>1, EndGoesOn
        <4>2. CASE ~ End(w)
          BY <2>0, <3>2, <4>2 DEF LockInvite, Goto, GoesOn, Request
        <4> QED  BY <4>1, <4>2
      <3> QED  BY <1>4, <3>1, <3>2
    <2> QED  BY <1>0, <1>1, <2>1, ImagesQuiet
  <1> QED  BY <1>2, <1>3, <1>4 DEF BoardSteps, MemberSteps

LEMMA ImagesAsks == ASSUME Images, NEW w \in Workers, Asks(w) PROVE Images'
  <1>0. Basic /\ Basic' /\ OnlyMoves(w)
    BY BasicAsks, StepMoves DEF Images
  <1>1. UNCHANGED assets
    BY DEF Asks, CreateBoard, RestoreBoard, AcceptInvite, Commit
  <1>2. CASE ~ \E f \in Files : Commit(w, f)
    <2>0. w \in DOMAIN req
      BY <1>0 DEF Basic, TypeOK
    <2>1. \A b \in Boards : CreateBoard(w, b) \/ RestoreBoard(w, b) => req'[w].kind # "commit"
      <3>1. \A k, s, i, v : Begin(w, k, s, i, v) => req'[w].kind = k
        BY <2>0 DEF Begin, Idle
      <3> QED  BY <3>1 DEF CreateBoard, RestoreBoard
    <2>2. \A i \in Invites, u \in Users : AcceptInvite(w, i, u) => req'[w].kind # "commit"
      BY <2>0 DEF AcceptInvite, Begin, Idle
    <2>3. GoesOn(w)
      BY <1>2, <2>1, <2>2 DEF Asks, GoesOn
    <2> QED  BY <1>0, <1>1, <2>3, ImagesQuiet
  <1>3. ASSUME NEW f \in Files, Commit(w, f)
        PROVE  Images'
    <2>1. /\ req'[w].kind = "commit" /\ req'[w].step = "validate"
          /\ req'[w].item = f /\ req'[w].dup = None
      BY <1>0, <1>3 DEF Commit, Begin, Idle, Basic, TypeOK
    <2>2. CommitsExclude'
      BY <1>0, <1>3, <2>1 DEF Images, CommitsExclude, OnlyMoves, Commit
    <2>3. FilesHeld'
      BY <1>1 DEF Images, FilesHeld, Holds, assets
    <2>4. CommitsHeld'
      <3>1. Carries(req[w])'
        BY <1>1, <1>3, <2>1 DEF Carries, Commit, assets
      <3>2. \A v \in Workers \ {w} : req[v].kind = "commit" => Carries(req[v])'
        BY <1>0, <1>1 DEF Images, CommitsHeld, Carries, Holds, OnlyMoves, assets
      <3> QED  BY <1>0, <3>1, <3>2 DEF CommitsHeld, OnlyMoves
    <2> QED  BY <1>0, <2>2, <2>3, <2>4 DEF Images
  <1> QED  BY <1>2, <1>3

\* What a commit writes is of its own file, which no other commit has.
LEMMA CommitWrites ==
    ASSUME Images, Basic', NEW w \in Workers, FileSteps(w)
    PROVE  LET f == req[w].item IN
           /\ req[w].kind = "commit" /\ f \in Files /\ Carries(req[w])
           /\ files[f].status # "ready" /\ files[f].key = f
           /\ \A g \in Files \ {f} : files'[g] = files[g] /\ objects'[g] = objects[g]
           /\ \A v \in Workers \ {w} :
                 req[v].kind = "commit" => req[v].item \in Files \ {f}
           /\ OnlyMoves(w)
  <1> DEFINE f == req[w].item
  <1>1. req[w].kind = "commit"
    BY DEF FileSteps, Validate, FindDuplicate, DeleteObject, WriteFile, Under
  <1>2. f \in Files /\ Carries(req[w])
    BY <1>1 DEF Images, CommitsHeld, Basic, Shaped
  <1>3. files[f].status # "ready" /\ files[f].key = f
    BY <1>2 DEF Carries, Images, FilesHeld
  <1>4. \A g \in Files \ {f} : files'[g] = files[g] /\ objects'[g] = objects[g]
    BY <1>2, <1>3 DEF FileSteps, Validate, FindDuplicate, DeleteObject, WriteFile, Images,
                  Basic, TypeOK, assets
  <1>5. \A v \in Workers \ {w} : req[v].kind = "commit" => req[v].item \in Files \ {f}
    BY <1>1 DEF Images, CommitsExclude, Basic, Shaped
  <1>6. OnlyMoves(w)
    BY StepMoves DEF Images, Steps
  <1> QED  BY <1>1, <1>2, <1>3, <1>4, <1>5, <1>6

LEMMA FilesKeep ==
    ASSUME Images, Basic', NEW w \in Workers, FileSteps(w)
    PROVE  Keeps /\ \A k, f \in Files : Holds(k, f) => Holds(k, f)'
  <1>1. Keeps
    <2> HIDE DEF Carries, OnlyMoves
    <2> QED  BY CommitWrites DEF Keeps
  <1> QED  BY <1>1, HoldsStays DEF Images

LEMMA ImagesFiles == ASSUME Images, NEW w \in Workers, FileSteps(w) PROVE Images'
  <1>0. Basic /\ Basic'
    BY BasicFiles DEF Images
  <1>f. PICK f \in Files : f = req[w].item
    BY <1>0, CommitWrites
  <1>1. /\ req[w].kind = "commit" /\ f = req[w].item /\ Carries(req[w])
        /\ files[f].status # "ready" /\ files[f].key = f
        /\ \A g \in Files \ {f} : files'[g] = files[g] /\ objects'[g] = objects[g]
        /\ \A v \in Workers \ {w} : req[v].kind = "commit" => req[v].item \in Files \ {f}
        /\ OnlyMoves(w)
    BY <1>0, <1>f, CommitWrites
  <1>2. \A k, g \in Files : Holds(k, g) => Holds(k, g)'
    BY <1>0, FilesKeep
  <1>3. w \in DOMAIN req /\ f \in DOMAIN files /\ f \in DOMAIN objects /\ req[w] \in Request
    BY <1>1, <1>0 DEF Basic, TypeOK
  \* the request after the step is gone, or still commits this file
  <1>4. \/ End(w) /\ req'[w].kind = "idle"
        \/ req'[w].kind = "commit" /\ req'[w].item = f
    <2>1. End(w) => req'[w].kind = "idle"
      BY <1>3 DEF End, Idle
    <2>2. \A s : Goto(w, s) => req'[w].kind = "commit" /\ req'[w].item = f
      BY <1>1, <1>3 DEF Goto, Request
    <2>3. CASE Validate(w)
      BY <2>1, <2>2, <2>3 DEF Validate
    <2>4. CASE FindDuplicate(w)
      <3>1. Goto(w, "lock") \/ \E k : req' = [req EXCEPT ![w].step = "delete", ![w].dup = k]
        BY <2>4 DEF FindDuplicate
      <3>2. ASSUME NEW k, req' = [req EXCEPT ![w].step = "delete", ![w].dup = k]
            PROVE  req'[w].kind = req[w].kind /\ req'[w].item = req[w].item
        BY <1>3, <3>2 DEF Request
      <3> QED  BY <1>1, <2>2, <3>1, <3>2
    <2>5. CASE DeleteObject(w)
      BY <2>2, <2>5 DEF DeleteObject
    <2>6. CASE WriteFile(w)
      BY <2>1, <2>6 DEF WriteFile
    <2> QED  BY <2>3, <2>4, <2>5, <2>6 DEF FileSteps
  <1>5. CommitsExclude'
    BY <1>1, <1>4 DEF Images, CommitsExclude, OnlyMoves
  <1>6. FilesHeld' /\ (req'[w].kind = "commit" => Carries(req[w])')
    <2>1. \A g \in Files \ {f} :
             /\ files'[g].status # "ready" => files'[g].key = g
             /\ files'[g].status = "ready" => Holds(files[g].key, g)'
             /\ objects'[g] = "gone" => \E k \in Files : Holds(k, g)'
      BY <1>0, <1>1, <1>2 DEF Images, FilesHeld, Basic, TypeOK
    <2>2. SUFFICES
             /\ files'[f].status # "ready" => files'[f].key = f
             /\ files'[f].status = "ready" => Holds(files[f].key, f)'
             /\ objects'[f] = "gone" => \E k \in Files : Holds(k, f)'
             /\ req'[w].kind = "commit" => Carries(req[w])'
      BY <2>1 DEF FilesHeld
    <2>3. objects[f] = "gone" => \E k \in Files : Holds(k, f)'
      BY <1>1, <1>2 DEF Images, FilesHeld
    <2>4. CASE Validate(w)
      <3>1. objects' = objects /\ files'[f].key = f /\ files'[f].status # "ready"
        <4>1. \/ files' = files
              \/ files' = [files EXCEPT ![f].status = "failed"]
          BY <1>1, <2>4 DEF Validate
        <4>2. files[f] \in [status : {"none", "pending", "failed", "ready"}, key : Files]
          BY <1>0 DEF Basic, TypeOK
        <4>3. objects' = objects
          BY <2>4 DEF Validate
        <4> QED  BY <1>1, <1>3, <4>1, <4>2, <4>3
      <3>2. CASE objects[f] = "good"
        <4>1. files' = files /\ req'[w] = [req[w] EXCEPT !.step = "find"]
          BY <1>1, <1>3, <2>4, <3>2 DEF Validate, Goto
        <4>2. req[w].dup = None
          BY <1>0, <2>4 DEF Validate, Under, Basic, Shaped
        <4>3. req'[w].item = f /\ req'[w].dup = None
          BY <1>1, <1>3, <4>1, <4>2 DEF Request
        <4> QED  BY <1>1, <2>3, <3>1, <3>2, <4>1, <4>3 DEF Carries
      <3>3. CASE objects[f] # "good"
        BY <1>1, <1>3, <1>4, <2>3, <2>4, <3>1, <3>3 DEF Validate, End, Idle
      <3> QED  BY <3>2, <3>3
    <2>5. CASE FindDuplicate(w)
      <3>1. files' = files /\ objects' = objects /\ req[w].step = "find" /\ req[w].dup = None
        BY <1>0, <2>5 DEF FindDuplicate, Under, assets, Basic, Shaped
      <3>2. objects[f] = "good"
        BY <1>1, <3>1 DEF Carries
      <3>3. CASE Goto(w, "lock")
        <4>1. req'[w].item = f /\ req'[w].dup = None
          BY <1>1, <1>3, <3>1, <3>3 DEF Goto, Request
        <4> QED  BY <1>1, <2>3, <3>1, <3>2, <4>1 DEF Carries
      <3>4. CASE ~ Goto(w, "lock")
        <4>1. PICK g \in Duplicates(f) :
                 req' = [req EXCEPT ![w].step = "delete", ![w].dup = files[g].key]
          BY <1>1, <2>5, <3>4 DEF FindDuplicate
        <4>2. Holds(files[g].key, g) /\ Content[g] = Content[f] /\ files[g].key \in Files
          BY <1>0, <4>1 DEF Duplicates, Ready, Images, FilesHeld, Basic, TypeOK
        <4>3. Holds(files[g].key, f)'
          BY <3>1, <4>2 DEF Holds
        <4>4. req'[w].item = f /\ req'[w].dup = files[g].key /\ files[g].key # None
          BY <1>1, <1>3, <4>1, <4>2, NoneAssumption DEF Request
        <4> QED  BY <1>1, <2>3, <3>1, <3>2, <4>3, <4>4 DEF Carries
      <3> QED  BY <3>3, <3>4
    <2>6. CASE DeleteObject(w)
      <3>1. files' = files /\ req[w].dup # None
        BY <1>0, <2>6 DEF DeleteObject, Under, Basic, Shaped
      <3>2. req[w].dup \in Files /\ Holds(req[w].dup, f)
        BY <1>1, <1>3, <3>1 DEF Carries, Request
      <3>3. req'[w].item = f /\ req'[w].dup = req[w].dup
        BY <1>1, <1>3, <2>6 DEF DeleteObject, Goto, Request
      <3> HIDE DEF Holds
      <3> QED  BY <1>1, <1>2, <3>1, <3>2, <3>3 DEF Carries
    <2>7. CASE WriteFile(w)
      <3>1. /\ files'[f] = [status |-> "ready", key |-> FinalKey(w)] /\ objects' = objects
            /\ req[w].step = "write" /\ req'[w].kind = "idle"
        BY <1>1, <1>3, <2>7 DEF WriteFile, Under, End, Idle
      <3>2. PICK k \in Files : k = FinalKey(w)
        BY <1>1, <1>3 DEF FinalKey, Request
      <3>3. Holds(k, f)'
        <4>1. CASE req[w].dup = None
          BY <1>1, <3>1, <3>2, <4>1 DEF Carries, FinalKey, Holds
        <4>2. CASE req[w].dup # None
          <5>1. Holds(k, f)
            BY <1>1, <3>2, <4>2 DEF Carries, FinalKey
          <5> QED  BY <1>2, <5>1
        <4> QED  BY <4>1, <4>2
      <3>4. files'[f].status = "ready" /\ files'[f].key = k
        BY <3>1, <3>2
      <3> QED  BY <2>3, <3>1, <3>3, <3>4
    <2> QED  BY <2>4, <2>5, <2>6, <2>7 DEF FileSteps
  <1>7. CommitsHeld'
    <2>1. ASSUME NEW v \in Workers \ {w}, req[v].kind = "commit"
          PROVE  Carries(req[v])'
      <3>1. /\ Carries(req[v]) /\ req[v].item \in Files \ {f} /\ req'[v] = req[v]
            /\ req[v].dup \in Files \cup {None}
        BY <1>0, <1>1, <2>1 DEF Images, CommitsHeld, OnlyMoves, Basic, TypeOK, Request
      <3> HIDE DEF Holds
      <3> QED  BY <1>1, <1>2, <3>1 DEF Carries
    <2> QED  BY <1>1, <1>6, <2>1 DEF CommitsHeld, OnlyMoves
  <1> QED  BY <1>0, <1>5, <1>6, <1>7 DEF Images

LEMMA ImagesInit == ASSUME Init PROVE Images
  <1>1. Basic
    BY BasicInit
  <1>2. \A w \in Workers : req[w].kind = "idle"
    BY DEF Init, Idle
  <1>3. FilesHeld
    BY DEF Init, FilesHeld
  <1> QED  BY <1>1, <1>2, <1>3 DEF Images, CommitsExclude, CommitsHeld

LEMMA ImagesStep == ASSUME Images, [Next]_vars PROVE Images'
  <1>1. CASE UNCHANGED vars
    BY <1>1, BasicStep DEF vars, assets, Images, CommitsExclude, FilesHeld, CommitsHeld,
                           Carries, Holds
  <1>2. CASE Next
    BY <1>2, ImagesOthers, ImagesFiles, ImagesAsks, ImagesAround DEF Next, Steps, Around
  <1> QED  BY <1>1, <1>2

LEMMA ReadyStays ==
    ASSUME Images, [Next]_vars
    PROVE  \A f \in Ready : files'[f] = files[f]
  <1>1. CASE files' = files
    BY <1>1
  <1>2. CASE \E w \in Workers : FileSteps(w)
    <2>1. PICK w \in Workers : FileSteps(w)
      BY <1>2
    <2>2. Keeps
      BY <2>1, BasicFiles, FilesKeep DEF Images
    <2> QED  BY <2>2 DEF Keeps, Ready
  <1>3. CASE Around
    BY <1>3, AroundKeeps DEF Keeps, Ready
  <1>4. files' = files \/ (\E w \in Workers : FileSteps(w)) \/ Around
    <2>1. \A w \in Workers :
            Capacity(w) \/ BoardSteps(w) \/ MemberSteps(w) \/ Die(w) \/ Asks(w) => files' = files
      BY DEF Capacity, BoardSteps, MemberSteps, Die, LockTeam, ReadLimit, Count, LockBoard,
             WriteBoard, LockInvite, WriteMember, Asks, CreateBoard, RestoreBoard,
             AcceptInvite, Commit, assets
    <2> QED  BY <2>1 DEF Next, Steps, Around, vars, assets
  <1> QED  BY <1>1, <1>2, <1>3, <1>4

\* A ready image has the bytes that were uploaded for it: ReadyHasObject is an
\* invariant, whatever commits share and delete objects.
THEOREM ReadyHasBytes == Spec => []ReadyHasObject
  <1>1. Images /\ [Next]_vars => Images'
    BY ImagesStep
  <1>2. Images => ReadyHasObject
    BY DEF Images, FilesHeld, Holds, ReadyHasObject, Ready
  <1> QED  BY ImagesInit, <1>1, <1>2, PTL DEF Spec

\* Bytes are deleted only where a readable copy stays: GoneHasCopy is an invariant.
THEOREM DeletedHasCopy == Spec => []GoneHasCopy
  <1>1. Images /\ [Next]_vars => Images'
    BY ImagesStep
  <1>2. Images => GoneHasCopy
    BY DEF Images, FilesHeld, Holds, GoneHasCopy, Ready
  <1> QED  BY ImagesInit, <1>1, <1>2, PTL DEF Spec

\* No step takes a ready image back or moves it to another key.
THEOREM ReadyForGood == Spec => ReadyIsFinal
  <1>1. Images /\ [Next]_vars => Images'
    BY ImagesStep
  <1>2. Images /\ [Next]_vars => [\A f \in Ready : files'[f] = files[f]]_vars
    BY ReadyStays
  <1> QED  BY ImagesInit, <1>1, <1>2, PTL DEF Spec, ReadyIsFinal

-----------------------------------------------------------------------------
(***************************************************************************)
(* Capacity.  Whoever has counted still has the team's row, and nothing    *)
(* grows without it but for members who come back.                         *)
(***************************************************************************)
LocksExclude == \A v, w \in Workers : req[v].gated /\ req[w].gated => v = w

Counting == \A d \in Dims : IsFiniteSet(Counted[d])

HasRoom(r) == Fits(Used(DimOf(r.kind)) + 1, r.limit)

CountsHeld ==
    \A w \in Workers : req[w].step = "write" /\ req[w].gated => HasRoom(req[w])

Quota == Images /\ LocksExclude /\ Counting /\ CountsHeld

\* The lock of the team is taken when it is free, and counting needs it.
LEMMA WhoIsGated ==
    ASSUME Basic, [Next]_vars, NEW v \in Workers, req'[v].gated
    PROVE  /\ req[v].gated \/ LockTeam(v)
           /\ req'[v].step = "write" => req'[v] = req[v] \/ Count(v)
           /\ req'[v] = req[v] \/ Capacity(v)
  <1>0. req[v] \in Request /\ v \in DOMAIN req
    BY DEF Basic, TypeOK
  <1>1. ASSUME NEW w \in Workers, Steps(w) \/ Asks(w) \/ Die(w), w # v
        PROVE  req'[v] = req[v]
    BY <1>1, StepMoves DEF OnlyMoves
  <1>2. ~ End(v)
    BY <1>0 DEF End, Idle
  <1>3. CASE Capacity(v)
    BY <1>0, <1>2, <1>3 DEF Capacity, LockTeam, ReadLimit, Count, Refuse, Goto, Request
  <1>4. CASE BoardSteps(v) \/ MemberSteps(v)
    <2>1. PICK s \in {"lock", "write"} : Goto(v, s) /\ Under(v, {"restore", "accept"}, "row")
      BY <1>2, <1>4 DEF BoardSteps, MemberSteps, LockBoard, WriteBoard, LockInvite,
                        WriteMember, Under
    <2>2. ~ req[v].gated
      BY <2>1 DEF Basic, Shaped, Under
    <2>3. req'[v].gated = req[v].gated
      BY <1>0, <2>1 DEF Goto, Request
    <2> QED  BY <2>2, <2>3
  <1>5. CASE FileSteps(v)
    <2>1. /\ req[v].step \in {"validate", "find", "delete"}
          /\ \/ \E s : Goto(v, s)
             \/ \E k : req' = [req EXCEPT ![v].step = "delete", ![v].dup = k]
      BY <1>2, <1>5 DEF FileSteps, Validate, FindDuplicate, DeleteObject, WriteFile, Under
    <2>2. ~ req[v].gated
      BY <2>1 DEF Basic, Shaped
    <2>3. \A s : Goto(v, s) => req'[v].gated = req[v].gated
      BY <1>0 DEF Goto, Request
    <2>4. \A k : req' = [req EXCEPT ![v].step = "delete", ![v].dup = k]
                    => req'[v].gated = req[v].gated
      BY <1>0 DEF Request
    <2> QED  BY <2>1, <2>2, <2>3, <2>4
  <1>6. CASE Asks(v)
    <2>1. \A b \in Boards : ~ CreateBoard(v, b) /\ ~ RestoreBoard(v, b)
      BY <1>0 DEF CreateBoard, RestoreBoard, Begin, Idle
    <2>2. \A i \in Invites, u \in Users : ~ AcceptInvite(v, i, u)
      BY <1>0 DEF AcceptInvite, Begin, Idle
    <2>3. \A f \in Files : ~ Commit(v, f)
      BY <1>0 DEF Commit, Begin, Idle
    <2> QED  BY <1>6, <2>1, <2>2, <2>3 DEF Asks
  <1>7. CASE Around \/ UNCHANGED vars
    BY <1>7, BasicAround DEF vars
  <1>8. CASE Die(v)
    BY <1>2, <1>8 DEF Die
  <1> QED  BY <1>1, <1>3, <1>4, <1>5, <1>6, <1>7, <1>8 DEF Next, Steps, Around

LEMMA LocksStep == ASSUME Basic, LocksExclude, [Next]_vars PROVE LocksExclude'
  <1> SUFFICES ASSUME NEW v \in Workers, NEW w \in Workers, req'[v].gated, req'[w].gated,
                      v # w
               PROVE  FALSE
    BY DEF LocksExclude
  <1>1. ~ LockTeam(v) /\ ~ LockTeam(w)
    BY StepMoves DEF OnlyMoves, Steps, Capacity, LockTeam, TeamIsFree
  <1> QED  BY <1>1, WhoIsGated DEF LocksExclude

\* The writes of an image, as the storage that is counted sees them.
LEMMA StorageGrows ==
    ASSUME Images, Images', [Next]_vars
    PROVE  \/ Counted'["storage"] = Counted["storage"]
           \/ \E w \in Workers, k \in Files :
                 /\ Under(w, {"commit"}, "write") /\ req[w].gated /\ End(w)
                 /\ Counted'["storage"] = Counted["storage"] \cup {k}
  <1> DEFINE keys == {files[f].key : f \in Ready}
  <1>0. Counted["storage"] = keys /\ Counted'["storage"] = keys'
    BY DEF Counted
  <1>1. \A f \in Ready : files'[f] = files[f] /\ f \in Ready'
    BY ReadyStays DEF Ready
  <1>2. CASE Ready' = Ready
    <2>1. keys' = keys
      BY <1>1, <1>2
    <2> QED  BY <1>0, <2>1
  <1>3. ASSUME NEW w \in Workers, WriteFile(w)
        PROVE  \/ keys' = keys
               \/ \E k \in Files :
                     /\ Under(w, {"commit"}, "write") /\ req[w].gated /\ End(w)
                     /\ keys' = keys \cup {k}
    <2>0. Basic' /\ FileSteps(w)
      BY <1>3 DEF Images, FileSteps
    <2>1. PICK f \in Files : f = req[w].item
      BY <2>0, CommitWrites
    <2>2. /\ Carries(req[w]) /\ \A g \in Files \ {f} : files'[g] = files[g]
          /\ files[f].status # "ready" /\ files[f].key = f
      BY <2>0, <2>1, CommitWrites
    <2>3. PICK k \in Files : k = FinalKey(w)
      BY <2>1, <2>2 DEF FinalKey, Images, Basic, TypeOK, Request
    <2>4. files'[f] = [status |-> "ready", key |-> k]
      BY <1>3, <2>1, <2>3 DEF WriteFile, Images, Basic, TypeOK
    <2>5. Ready' = Ready \cup {f}
      BY <2>2, <2>4 DEF Ready
    <2>6. keys' = keys \cup {k}
      BY <1>1, <2>4, <2>5
    <2>7. CASE req[w].gated
      BY <1>3, <2>6, <2>7 DEF WriteFile
    <2>8. CASE ~ req[w].gated
      <3>1. req[w].dup # None
        BY <1>3, <2>8 DEF WriteFile, Under, Images, Basic, Shaped
      <3>2. k = req[w].dup
        BY <2>3, <3>1 DEF FinalKey
      <3>3. files[k].status = "ready" /\ files[k].key = k
        BY <2>2, <3>1, <3>2 DEF Carries, Holds
      <3>4. k \in keys
        BY <3>3 DEF Ready
      <3> QED  BY <2>6, <3>4
    <2> QED  BY <2>7, <2>8
  <1>4. ASSUME \A w \in Workers : ~ WriteFile(w)
        PROVE  Ready' = Ready
    <2>1. CASE files' = files
      BY <2>1 DEF Ready
    <2>2. ASSUME NEW w \in Workers, Validate(w)
          PROVE  Ready' = Ready
      <3>0. Basic' /\ FileSteps(w)
        BY <2>2 DEF Images, FileSteps
      <3>1. PICK f \in Files : f = req[w].item
        BY <3>0, CommitWrites
      <3>2. files[f].status # "ready" /\ \A g \in Files \ {f} : files'[g] = files[g]
        BY <3>0, <3>1, CommitWrites
      <3>3. files'[f].status # "ready"
        BY <2>2, <3>1, <3>2 DEF Validate, Images, Basic, TypeOK
      <3> QED  BY <3>2, <3>3 DEF Ready
    <2>3. CASE Around
      BY <1>1, <2>3, AroundKeeps DEF Ready
    <2>4. files' = files \/ Around \/ \E w \in Workers : Validate(w)
      BY <1>4 DEF Next, Around, Steps, Capacity, BoardSteps, MemberSteps, FileSteps, Die,
             LockTeam, ReadLimit, Count, LockBoard, WriteBoard, LockInvite, WriteMember,
             FindDuplicate, DeleteObject, Asks, CreateBoard, RestoreBoard, AcceptInvite,
             Commit, vars, assets
    <2> QED  BY <2>1, <2>2, <2>3, <2>4
  <1> QED  BY <1>0, <1>2, <1>3, <1>4

\* Who makes a dimension grow: a request with the team's row, or a member who is back
\* while nobody has it.
Grows(w, d) ==
    /\ req[w].step = "write" /\ DimOf(req[w].kind) = d /\ End(w)
    /\ req[w].gated \/ (d = "members" /\ TeamIsFree)
    /\ \E x : Counted'[d] = Counted[d] \cup {x}

LEMMA Growth ==
    ASSUME Images, Images', [Next]_vars, NEW d \in Dims
    PROVE  Counted'[d] \subseteq Counted[d] \/ \E w \in Workers : Grows(w, d)
  <1>1. CASE d = "storage"
    BY <1>1, StorageGrows DEF Grows, Under, DimOf
  <1>2. CASE d = "boards"
    <2>0. Counted[d] = boards /\ Counted'[d] = boards'
      BY <1>2 DEF Counted
    <2>1. ASSUME NEW w \in Workers, WriteBoard(w)
          PROVE  Grows(w, d)
      <3>1. req[w].gated /\ req[w].step = "write" /\ req[w].kind \in {"create", "restore"}
        BY <2>1 DEF WriteBoard, Under, Images, Basic, Shaped
      <3>2. DimOf(req[w].kind) = d /\ boards' = boards \cup {req[w].item} /\ End(w)
        BY <1>2, <2>1, <3>1 DEF WriteBoard, DimOf
      <3> QED  BY <2>0, <3>1, <3>2 DEF Grows
    <2>2. ASSUME \A w \in Workers : ~ WriteBoard(w)
          PROVE  boards' \subseteq boards
      BY <2>2 DEF Next, Steps, Capacity, BoardSteps, MemberSteps, FileSteps, Die, LockTeam,
         ReadLimit, Count, LockBoard, LockInvite, WriteMember, Validate, FindDuplicate,
         DeleteObject, WriteFile, Asks, CreateBoard, RestoreBoard, AcceptInvite, Commit,
         DeleteBoard, Invite, InviteExpires, RemoveMember, ChangePlan, Presign, Upload,
         vars, team
    <2> QED  BY <2>0, <2>1, <2>2
  <1>3. CASE d = "members"
    <2>0. Counted[d] = members /\ Counted'[d] = members'
      BY <1>3 DEF Counted
    <2>1. ASSUME NEW w \in Workers, WriteMember(w)
          PROVE  Grows(w, d) \/ members' \subseteq members
      <3>1. DimOf(req[w].kind) = d /\ members' = members \cup {req[w].item} /\ End(w)
            /\ req[w].step = "write"
        BY <1>3, <2>1 DEF WriteMember, Under, DimOf
      <3>2. CASE req[w].item \in members
        BY <3>1, <3>2
      <3>3. CASE req[w].item \notin members
        BY <1>3, <2>0, <2>1, <3>1, <3>3 DEF WriteMember, Grows
      <3> QED  BY <3>2, <3>3
    <2>2. ASSUME \A w \in Workers : ~ WriteMember(w)
          PROVE  members' \subseteq members
      BY <2>2 DEF Next, Steps, Capacity, BoardSteps, MemberSteps, FileSteps, Die, LockTeam,
         ReadLimit, Count, LockBoard, LockInvite, WriteBoard, Validate, FindDuplicate,
         DeleteObject, WriteFile, Asks, CreateBoard, RestoreBoard, AcceptInvite, Commit,
         DeleteBoard, Invite, InviteExpires, RemoveMember, ChangePlan, Presign, Upload,
         vars, team
    <2> QED  BY <2>0, <2>1, <2>2
  <1> QED  BY <1>1, <1>2, <1>3 DEF Dims

LEMMA UsedGrows ==
    ASSUME Images, Images', [Next]_vars, Counting, NEW d \in Dims
    PROVE  /\ IsFiniteSet(Counted'[d]) /\ Used(d) \in Nat /\ Used(d)' \in Nat
           /\ Used(d)' <= Used(d) \/ (Used(d)' = Used(d) + 1 /\ \E w \in Workers : Grows(w, d))
  <1>0. IsFiniteSet(Counted[d]) /\ Used(d) \in Nat
    BY FS_CardinalityType DEF Counting, Used
  <1>1. CASE Counted'[d] \subseteq Counted[d]
    <2>1. IsFiniteSet(Counted'[d]) /\ Cardinality(Counted'[d]) <= Cardinality(Counted[d])
      BY <1>0, <1>1, FS_Subset
    <2> QED  BY <1>0, <2>1, FS_CardinalityType DEF Used
  <1>2. ASSUME NEW w \in Workers, Grows(w, d)
        PROVE  /\ IsFiniteSet(Counted'[d])
               /\ Used(d)' = Used(d) \/ Used(d)' = Used(d) + 1
    <2>1. PICK x : Counted'[d] = Counted[d] \cup {x}
      BY <1>2 DEF Grows
    <2>2. /\ IsFiniteSet(Counted[d] \cup {x})
          /\ \/ Cardinality(Counted[d] \cup {x}) = Cardinality(Counted[d])
             \/ Cardinality(Counted[d] \cup {x}) = Cardinality(Counted[d]) + 1
      BY <1>0, FS_AddElement
    <2> QED  BY <2>1, <2>2 DEF Used
  <1> QED  BY <1>0, <1>1, <1>2, Growth

LEMMA QuotaInit == ASSUME Init PROVE Quota
  <1>1. Images
    BY ImagesInit
  <1>2. \A w \in Workers : ~ req[w].gated
    BY DEF Init, Idle
  <1>3. Counting
    <2>1. boards = {} /\ members = {Owner} /\ Ready = {}
      BY DEF Init, Ready
    <2>2. IsFiniteSet({}) /\ IsFiniteSet({Owner})
      BY FS_EmptySet, FS_Singleton
    <2>3. {files[f].key : f \in Ready} = {}
      BY <2>1
    <2> QED  BY <2>1, <2>2, <2>3 DEF Counting, Counted, Dims
  <1> QED  BY <1>1, <1>2, <1>3 DEF Quota, LocksExclude, CountsHeld

LEMMA QuotaStep == ASSUME Quota, [Next]_vars PROVE Quota'
  <1>1. Images' /\ Images
    BY ImagesStep DEF Quota
  <1>2. LocksExclude'
    BY LocksStep DEF Quota, Images
  <1>3. Counting'
    BY <1>1, UsedGrows DEF Quota, Counting
  <1>4. CountsHeld'
    <2> SUFFICES ASSUME NEW v \in Workers, req'[v].step = "write", req'[v].gated
                 PROVE  HasRoom(req[v])'
      BY DEF CountsHeld
    <2>0. /\ req[v] \in Request /\ v \in DOMAIN req /\ req'[v] \in Request
          /\ DimOf(req[v].kind) \in Dims
      BY <1>1 DEF Images, Basic, TypeOK, DimOf, Dims
    <2>1. req'[v] = req[v] \/ Count(v)
      BY WhoIsGated DEF Quota, Images
    <2>2. CASE Count(v)
      <3>1. req'[v] = [req[v] EXCEPT !.step = "write"] /\ HasRoom(req[v])
        BY <2>0, <2>2 DEF Count, HasRoom, Refuse, End, Idle, Goto
      <3>2. UNCHANGED <<boards, members, files>>
        BY <2>2 DEF Count, team, assets
      <3>3. req'[v].kind = req[v].kind /\ req'[v].limit = req[v].limit
        BY <2>0, <3>1 DEF Request
      <3>4. Counted' = Counted
        BY <3>2 DEF Counted, Ready
      <3> QED  BY <3>1, <3>3, <3>4 DEF HasRoom, Used
    <2>3. CASE req'[v] = req[v]
      <3> DEFINE d == DimOf(req[v].kind)
      <3>1. HasRoom(req[v])
        BY <2>3 DEF Quota, CountsHeld
      <3>2. ASSUME NEW w \in Workers, Grows(w, DimOf(req[v].kind))
            PROVE  FALSE
        <4>1. w = v
          BY <2>3, <3>2 DEF Grows, TeamIsFree, Quota, LocksExclude
        <4>2. req'[v] = Idle
          BY <2>0, <3>2, <4>1 DEF Grows, End
        <4> QED  BY <4>2 DEF Idle
      <3>3. PICK e \in Dims : e = DimOf(req[v].kind)
        BY <2>0
      <3>4. Used(e)' <= Used(e) /\ Used(e) \in Nat /\ Used(e)' \in Nat
        BY <1>1, <3>2, <3>3, UsedGrows DEF Quota
      <3>5. req[v].limit \in Nat \cup {Unlimited}
        BY <2>0 DEF Request
      <3>6. Fits(Used(e) + 1, req[v].limit)
        BY <3>1, <3>3 DEF HasRoom
      <3>7. Fits(Used(e)' + 1, req[v].limit)
        BY <3>4, <3>5, <3>6 DEF Fits, Unlimited
      <3> QED  BY <2>3, <3>3, <3>7 DEF HasRoom, Fits
    <2> QED  BY <2>1, <2>2, <2>3
  <1> QED  BY <1>1, <1>2, <1>3, <1>4 DEF Quota

LEMMA StepFits ==
    ASSUME Quota, [Next]_vars, NEW d \in Dims, Used(d)' > Used(d)
    PROVE  \E w \in Workers : Allowed(w, d)
  <1>1. Images /\ Images'
    BY ImagesStep DEF Quota
  <1>2. /\ Used(d) \in Nat /\ Used(d)' = Used(d) + 1
        /\ \E w \in Workers : Grows(w, d)
    BY <1>1, UsedGrows DEF Quota
  <1>3. PICK w \in Workers : Grows(w, d)
    BY <1>2
  <1>4. req'[w] = Idle
    BY <1>1, <1>3 DEF Grows, End, Images, Basic, TypeOK
  <1>5. req[w].gated => Fits(Used(d)', req[w].limit)
    <2> SUFFICES ASSUME req[w].gated PROVE Fits(Used(d)', req[w].limit)
      OBVIOUS
    <2>1. HasRoom(req[w]) /\ DimOf(req[w].kind) = d
      BY <1>3 DEF Quota, CountsHeld, Grows
    <2> QED  BY <1>2, <2>1 DEF HasRoom
  <1> QED  BY <1>3, <1>4, <1>5 DEF Allowed, Grows

\* A team grows only within the limit that a request has read under the team's lock,
\* or by a member who comes back: GrowthFits, for any number of requests on any nodes.
THEOREM GrowsWithinPlan == Spec => GrowthFits
  <1>1. Quota /\ [Next]_vars => Quota'
    BY QuotaStep
  <1>2. Quota /\ [Next]_vars =>
          [\A d \in Dims : Used(d)' > Used(d) => \E w \in Workers : Allowed(w, d)]_vars
    BY StepFits
  <1> QED  BY QuotaInit, <1>1, <1>2, PTL DEF Spec, GrowthFits

-----------------------------------------------------------------------------
(***************************************************************************)
(* While the plan stays the same.  What GrowthFits says of each step adds  *)
(* up: whoever has the team's row has read the limit that still holds.     *)
(***************************************************************************)
SteadyPlan == Init /\ [][Next /\ plan' = plan]_vars

SteadyTeam == Init /\ [][Next /\ plan' = plan /\ members \subseteq members']_vars

Within(d) == Fits(Used(d), Limits[plan][d])

LimitsKnown ==
    \A w \in Workers :
        req[w].gated /\ req[w].step # "limit" =>
            req[w].limit = Limits[plan][DimOf(req[w].kind)]

BoardsAndImagesFit == Within("boards") /\ Within("storage")

\* Who accepts without the team's row is a member, as long as nobody leaves.
ReturnsKnown ==
    \A w \in Workers :
        Under(w, {"accept"}, "write") /\ ~ req[w].gated => req[w].item \in members

MembersFit == Within("members") \/ members = {Owner}

LEMMA LimitsStep ==
    ASSUME Quota, LimitsKnown, [Next]_vars, plan' = plan
    PROVE  LimitsKnown'
  <1> SUFFICES ASSUME NEW v \in Workers, req'[v].gated, req'[v].step # "limit"
               PROVE  req'[v].limit = Limits[plan][DimOf(req'[v].kind)]
    BY DEF LimitsKnown
  <1>0. req[v] \in Request /\ v \in DOMAIN req /\ Basic
    BY DEF Quota, Images, Basic, TypeOK
  <1>1. (req[v].gated \/ LockTeam(v)) /\ (req'[v] = req[v] \/ Capacity(v))
    BY <1>0, WhoIsGated
  <1>2. ~ LockTeam(v)
    BY <1>0 DEF LockTeam, Request
  <1>3. CASE req'[v] = req[v]
    BY <1>1, <1>2, <1>3 DEF LimitsKnown
  <1>4. CASE ReadLimit(v)
    BY <1>0, <1>4 DEF ReadLimit, Request
  <1>5. CASE Count(v)
    <2>1. ~ End(v)
      BY <1>0 DEF End, Idle
    <2>2. req' = [req EXCEPT ![v].step = "write"] /\ req[v].step = "count"
      BY <1>5, <2>1 DEF Count, Refuse, Goto
    <2>3. req'[v].limit = req[v].limit /\ req'[v].kind = req[v].kind
      BY <1>0, <2>2 DEF Request
    <2> QED  BY <1>1, <1>2, <2>2, <2>3 DEF LimitsKnown
  <1> QED  BY <1>1, <1>2, <1>3, <1>4, <1>5 DEF Capacity

LEMMA SteadyInit ==
    ASSUME Init
    PROVE  Quota /\ LimitsKnown /\ BoardsAndImagesFit /\ ReturnsKnown /\ MembersFit
  <1>1. Quota
    BY QuotaInit
  <1>2. LimitsKnown /\ ReturnsKnown /\ MembersFit
    BY DEF Init, LimitsKnown, ReturnsKnown, MembersFit, Under, Idle
  <1>3. Counted["boards"] = {} /\ Counted["storage"] = {}
    <2>1. boards = {} /\ Ready = {}
      BY DEF Init, Ready
    <2> QED  BY <2>1 DEF Counted
  <1>4. Used("boards") = 0 /\ Used("storage") = 0
    BY <1>3, FS_EmptySet DEF Used
  <1>5. \A d \in Dims : Limits[plan][d] \in Nat \cup {Unlimited}
    BY LimitsAssumption DEF Init
  <1>6. BoardsAndImagesFit
    BY <1>4, <1>5 DEF BoardsAndImagesFit, Within, Fits, Dims
  <1> QED  BY <1>1, <1>2, <1>6

\* What does not grow still fits.
LEMMA StaysWithin ==
    ASSUME Quota, [Next]_vars, plan' = plan, NEW d \in Dims, Within(d), Used(d)' <= Used(d)
    PROVE  Within(d)'
  <1>1. Images /\ Images'
    BY ImagesStep DEF Quota
  <1>2. Used(d) \in Nat /\ Used(d)' \in Nat
    BY <1>1, UsedGrows DEF Quota
  <1>3. Limits[plan][d] \in Nat \cup {Unlimited}
    BY <1>1, LimitsAssumption DEF Images, Basic, TypeOK
  <1> QED  BY <1>2, <1>3 DEF Within, Fits, Unlimited

LEMMA FitsStep ==
    ASSUME Quota, LimitsKnown, BoardsAndImagesFit, [Next]_vars, plan' = plan
    PROVE  BoardsAndImagesFit'
  <1>1. ASSUME NEW d \in {"boards", "storage"}
        PROVE  Within(d)'
    <2>0. d \in Dims /\ d # "members" /\ Within(d)
      BY <1>1 DEF Dims, BoardsAndImagesFit
    <2>1. CASE Used(d)' > Used(d)
      <3>1. PICK w \in Workers : Allowed(w, d)
        BY <2>0, <2>1, StepFits
      <3>2. req[w].gated /\ Fits(Used(d)', req[w].limit)
        BY <2>0, <3>1 DEF Allowed
      <3>3. req[w].limit = Limits[plan][d]
        BY <3>1, <3>2 DEF Allowed, LimitsKnown
      <3> QED  BY <3>2, <3>3 DEF Within
    <2>2. CASE ~ (Used(d)' > Used(d))
      <3>1. Images /\ Images'
        BY ImagesStep DEF Quota
      <3>2. Used(d) \in Nat /\ Used(d)' \in Nat
        BY <2>0, <3>1, UsedGrows DEF Quota
      <3> QED  BY <2>0, <2>2, <3>2, StaysWithin
    <2> QED  BY <2>1, <2>2
  <1> QED  BY <1>1 DEF BoardsAndImagesFit

LEMMA ReturnsStep ==
    ASSUME Quota, ReturnsKnown, [Next]_vars, members \subseteq members'
    PROVE  ReturnsKnown'
  <1> SUFFICES ASSUME NEW v \in Workers, Under(v, {"accept"}, "write")', ~ req'[v].gated
               PROVE  req'[v].item \in members
    BY DEF ReturnsKnown
  <1>0. req[v] \in Request /\ v \in DOMAIN req /\ Shaped(req[v])
    BY DEF Quota, Images, Basic, TypeOK
  <1>1. ~ End(v)
    BY <1>0 DEF End, Idle, Under
  <1>2. CASE req'[v] = req[v]
    BY <1>2 DEF ReturnsKnown, Under
  <1>3. CASE LockInvite(v)
    <2>1. PICK s \in {"lock", "write"} :
              /\ req' = [req EXCEPT ![v].step = s]
              /\ s = "write" => req[v].item \in members
      BY <1>1, <1>3 DEF LockInvite, Goto
    <2>2. req'[v].step = s /\ req'[v].item = req[v].item
      BY <1>0, <2>1 DEF Request
    <2>3. req'[v].step = "write"
      BY DEF Under
    <2> QED  BY <2>1, <2>2, <2>3
  <1>4. ~ Capacity(v)
    <2>1. ~ LockTeam(v) /\ ~ ReadLimit(v)
      BY <1>0 DEF LockTeam, ReadLimit, Request, Under
    <2>2. ASSUME Count(v)
          PROVE  FALSE
      <3>1. req' = [req EXCEPT ![v].step = "write"] /\ req[v].gated
        BY <1>0, <1>1, <2>2 DEF Count, Goto, Refuse, Shaped
      <3> QED  BY <1>0, <3>1 DEF Request
    <2> QED  BY <2>1, <2>2 DEF Capacity
  <1>5. ~ BoardSteps(v) /\ ~ FileSteps(v)
    <2>1. ASSUME NEW s, Goto(v, s)
          PROVE  req'[v].kind = req[v].kind
      BY <1>0, <2>1 DEF Goto, Request
    <2>2. ASSUME NEW k, req' = [req EXCEPT ![v].step = "delete", ![v].dup = k]
          PROVE  req'[v].step = "delete"
      BY <1>0, <2>2 DEF Request
    <2>3. ~ BoardSteps(v)
      BY <1>1, <2>1 DEF BoardSteps, LockBoard, WriteBoard, Under
    <2>4. ~ FileSteps(v)
      BY <1>1, <2>1, <2>2 DEF FileSteps, Validate, FindDuplicate, DeleteObject, WriteFile, Under
    <2> QED  BY <2>3, <2>4
  <1>6. ASSUME Asks(v) \/ Die(v)
        PROVE  req'[v].step # "write"
    <2>1. ~ Die(v)
      BY <1>1 DEF Die
    <2>2. ASSUME NEW kind, NEW from, NEW item, NEW invite, Begin(v, kind, from, item, invite)
          PROVE  req'[v].step = from
      BY <1>0, <2>2 DEF Begin, Idle
    <2>3. \E from \in {"lock", "row", "validate"} : \E kind, item, invite :
              Begin(v, kind, from, item, invite)
      BY <1>6, <2>1 DEF Asks, CreateBoard, RestoreBoard, AcceptInvite, Commit
    <2> QED  BY <2>2, <2>3
  <1>7. ~ WriteMember(v)
    BY <1>1 DEF WriteMember
  <1>8. ASSUME NEW w \in Workers, Steps(w) \/ Asks(w) \/ Die(w), w # v
        PROVE  req'[v] = req[v]
    BY <1>8, StepMoves DEF OnlyMoves, Quota, Images
  <1>9. CASE Around \/ UNCHANGED vars
    BY <1>2, <1>9, BasicAround DEF vars, Quota, Images
  <1> QED
    BY <1>2, <1>3, <1>4, <1>5, <1>6, <1>7, <1>8, <1>9
    DEF Next, Steps, Around, MemberSteps, Under

\* A member is added by who has counted, or is one already.
LEMMA MembersStep ==
    ASSUME Quota, LimitsKnown, ReturnsKnown, MembersFit, [Next]_vars, plan' = plan,
           members \subseteq members'
    PROVE  MembersFit'
  <1>0. Images /\ Images' /\ "members" \in Dims
    BY ImagesStep DEF Quota, Dims
  <1>1. CASE members' = members
    <2>1. Used("members")' = Used("members")
      BY <1>1 DEF Used, Counted
    <2> QED  BY <1>1, <2>1 DEF MembersFit, Within
  <1>2. CASE \E w \in Workers : WriteMember(w) /\ members' # members
    <2>1. PICK w \in Workers : WriteMember(w) /\ members' # members
      BY <1>2
    <2>2. req[w].kind = "accept" /\ req[w].step = "write" /\ req[w].gated
      BY <2>1 DEF WriteMember, Under, ReturnsKnown
    <2>3. HasRoom(req[w]) /\ req[w].limit = Limits[plan]["members"]
      BY <2>2 DEF Quota, CountsHeld, LimitsKnown, DimOf
    <2>4. Fits(Used("members") + 1, Limits[plan]["members"])
      BY <2>2, <2>3 DEF HasRoom, DimOf
    <2>5. /\ Used("members") \in Nat /\ Used("members")' \in Nat
          /\ Used("members")' <= Used("members") + 1
      BY <1>0, UsedGrows DEF Quota
    <2>6. Limits[plan]["members"] \in Nat \cup {Unlimited}
      BY <1>0, LimitsAssumption DEF Images, Basic, TypeOK
    <2>7. Within("members")'
      BY <2>4, <2>5, <2>6 DEF Within, Fits, Unlimited
    <2> QED  BY <2>7 DEF MembersFit
  <1>3. members' \subseteq members \/ \E w \in Workers : WriteMember(w)
    BY DEF Next, Steps, Asks, Die, Capacity, BoardSteps, MemberSteps, FileSteps, LockTeam,
           ReadLimit, Count, LockBoard, WriteBoard, LockInvite, Validate, FindDuplicate,
           DeleteObject, WriteFile, CreateBoard, RestoreBoard, AcceptInvite, Commit,
           DeleteBoard, Invite, InviteExpires, RemoveMember, ChangePlan, Presign, Upload,
           team, vars
  <1> QED  BY <1>1, <1>2, <1>3

\* While its plan stays the same a team never holds more boards or images than that plan
\* allows, however many requests on however many nodes count at the same time and
\* whichever of them are refused or die (services/quota.ts).
THEOREM HoldsWithinPlan == SteadyPlan => []BoardsAndImagesFit
  <1> DEFINE I == Quota /\ LimitsKnown /\ BoardsAndImagesFit
  <1>1. Init => I
    BY SteadyInit
  <1>2. I /\ [Next /\ plan' = plan]_vars => I'
    <2> SUFFICES ASSUME I, [Next /\ plan' = plan]_vars PROVE I'
      OBVIOUS
    <2>1. [Next]_vars /\ plan' = plan
      BY DEF vars, team
    <2> QED  BY <2>1, QuotaStep, LimitsStep, FitsStep
  <1> QED  BY <1>1, <1>2, PTL DEF SteadyPlan

\* The same of members while nobody leaves the team either: who comes back uncounted is
\* the only way above the limit.  The owner is a member whatever the plan says.
THEOREM MembersWithinPlan == SteadyTeam => []MembersFit
  <1> DEFINE I == Quota /\ LimitsKnown /\ ReturnsKnown /\ MembersFit
             A == Next /\ plan' = plan /\ members \subseteq members'
  <1>1. Init => I
    BY SteadyInit
  <1>2. I /\ [A]_vars => I'
    <2> SUFFICES ASSUME I, [A]_vars PROVE I'
      OBVIOUS
    <2>1. [Next]_vars /\ plan' = plan /\ members \subseteq members'
      BY DEF vars, team
    <2> QED  BY <2>1, QuotaStep, LimitsStep, ReturnsStep, MembersStep
  <1> QED  BY <1>1, <1>2, PTL DEF SteadyTeam
=============================================================================
