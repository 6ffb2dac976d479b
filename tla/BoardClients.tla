---------------------------- MODULE BoardClients ----------------------------
(***************************************************************************)
(* The clients of one board and the room they meet in: the transport and   *)
(* the sync adapter of a browser (canvas-sync), the handshake of the       *)
(* realtime server (server.ts), the sessions of a room and what it does    *)
(* with their messages (room.ts), and presence (awareness.ts).             *)
(*                                                                         *)
(* An update is <<c, n>>, the n-th of client c.  Yjs keeps an update whose *)
(* predecessors are missing and does not integrate it: a document is the   *)
(* set it holds, and Whole() of it what can be seen.  Sessions are numbered *)
(* in the order in which they are opened.                                  *)
(***************************************************************************)
EXTENDS Naturals, Sequences, FiniteSets

CONSTANTS
    Clients,
    Edits,          \* how many edits each client makes
    MaxDrops,       \* bound: connections that break
    MaxFaults       \* bound: these, appends and joins that fail, and changes
                    \* of a user's role on the board

ASSUME ClientsAssumption == IsFiniteSet(Clients)
ASSUME EditsAssumption == Edits \in [Clients -> Nat]
ASSUME BoundAssumption == MaxDrops \in Nat /\ MaxFaults \in Nat

VARIABLES
    link,           \* the session of a client's open socket, or 0
    stopped,        \* clients whose transport gave up for good
    doc, shown,     \* a client's document; what it says of its work
    role,           \* the role a client believes to have
    by, step,       \* of a session: whose, and how far it is
    srole, fresh,   \* session.role; the role a refresh has read
    broken,         \* sessions whose connection does not carry any more
    up, down,       \* messages under way on a session's connection
    members,        \* room.sessions
    room, log,      \* the room's document; what is in the database
    pend,           \* the room's updates that wait for their append
    failed,         \* history: updates whose append failed
    refused,        \* history: updates that were denied for the role
    access,         \* the role that the database gives to a user
    present, newest, owned,   \* awareness: clients there; the newest session
                              \* they were heard on; sessions heard from
    drops, faults

client == <<link, stopped, doc, shown, role>>
session == <<by, step, srole, fresh, broken>>
board == <<members, room, log, pend, failed, refused>>
presence == <<present, newest, owned>>
bounds == <<drops, faults>>
vars == <<client, session, up, down, board, access, presence, bounds>>

Updates == UNION {{c} \X (1..Edits[c]) : c \in Clients}
Sessions == 1..(MaxDrops + Cardinality(Clients))
Roles == {"editor", "viewer"}

\* What Yjs integrates of the updates it holds.
Whole(S) == {u \in S : \A k \in 1..u[2] : <<u[1], k>> \in S}

\* Messages that are sent together are one here: SYNC with updates and a state
\* vector, AWARENESS, HB_PERMISSION and HB_ROOM_INFO; what one leaves out is "same" or {}.
Nothing == [type |-> "sync", set |-> {}, have |-> {}, role |-> "same", save |-> "same"]

Message == [type : {"hello", "sync", "present", "welcome"},
            set : SUBSET Updates, have : SUBSET Updates,
            role : Roles \cup {"same"}, save : {"saved", "unsaved", "same"}]

ClientTypes ==
    /\ link \in [Clients -> Sessions \cup {0}]
    /\ stopped \in SUBSET Clients
    /\ doc \in [Clients -> SUBSET Updates]
    /\ shown \in [Clients -> {"unsaved", "saving", "saved"}]
    /\ role \in [Clients -> Roles]

SessionTypes ==
    /\ by \in [Sessions -> Clients \cup {0}]
    /\ step \in [Sessions -> {"none", "verify", "load", "open", "closed", "denied"}]
    /\ srole \in [Sessions -> Roles] /\ fresh \in [Sessions -> Roles \cup {"none"}]
    /\ broken \in SUBSET Sessions

QueueTypes == up \in [Sessions -> Seq(Message)] /\ down \in [Sessions -> Seq(Message)]

BoardTypes ==
    /\ members \in SUBSET Sessions
    /\ room \in SUBSET Updates /\ log \in SUBSET Updates
    /\ pend \in Seq([set : SUBSET Updates, from : Sessions])
    /\ failed \in SUBSET Updates /\ refused \in SUBSET Updates

PresenceTypes ==
    /\ present \in SUBSET Clients /\ newest \in [Clients -> Sessions \cup {0}]
    /\ owned \in SUBSET Sessions

TypeOK ==
    /\ ClientTypes /\ SessionTypes /\ QueueTypes /\ BoardTypes /\ PresenceTypes
    /\ access \in [Clients -> Roles \cup {"none"}]
    /\ drops \in 0..MaxDrops /\ faults \in 0..MaxFaults

Init ==
    /\ link = [c \in Clients |-> 0] /\ stopped = {}
    /\ doc = [c \in Clients |-> {}] /\ shown = [c \in Clients |-> "unsaved"]
    /\ role = [c \in Clients |-> "editor"]
    /\ by = [s \in Sessions |-> 0] /\ step = [s \in Sessions |-> "none"]
    /\ srole = [s \in Sessions |-> "viewer"] /\ fresh = [s \in Sessions |-> "none"]
    /\ broken = {}
    /\ up = [s \in Sessions |-> <<>>] /\ down = [s \in Sessions |-> <<>>]
    /\ members = {} /\ room = {} /\ log = {} /\ pend = <<>>
    /\ failed = {} /\ refused = {}
    /\ access \in [Clients -> Roles]
    /\ present = {} /\ newest = [c \in Clients |-> 0] /\ owned = {}
    /\ drops = 0 /\ faults = 0

-----------------------------------------------------------------------------
(***************************************************************************)
(* The client.                                                             *)
(***************************************************************************)

\* What a socket takes once its connection is broken goes nowhere.
Sent(queues, s, messages) ==
    IF s = 0 \/ s \in broken THEN queues ELSE [queues EXCEPT ![s] = @ \o messages]

\* A client that asks and does not tell.
OffersNothing(c, have) == {}

\* What a client tells to one that has `have'.
Offer(c, have) == doc[c] \ have

\* requestInitialSync: "what do I lack?" and "this is all I have"; and reannounce.
Hello(c) == [Nothing EXCEPT !.type = "hello", !.set = Offer(c, {}), !.have = Whole(doc[c])]

Announcement == [Nothing EXCEPT !.type = "present"]

Update(set) == [Nothing EXCEPT !.set = set]

IsNextSession(s) ==
    step[s] = "none" /\ \A t \in Sessions : step[t] = "none" => s <= t

\* openSocket's onopen and resumeSession; "saving" until the server answers.
Connect(c) ==
    /\ link[c] = 0 /\ c \notin stopped
    /\ \E s \in Sessions :
         /\ IsNextSession(s)
         /\ link' = [link EXCEPT ![c] = s]
         /\ by' = [by EXCEPT ![s] = c]
         /\ step' = [step EXCEPT ![s] = "verify"]
         /\ up' = [up EXCEPT ![s] = <<Hello(c)>>]
    /\ shown' = [shown EXCEPT ![c] = "saving"]
    /\ UNCHANGED <<stopped, doc, role, srole, fresh, broken, down, board, access,
                   presence, bounds>>

IsNextEdit(c, n) ==
    <<c, n>> \notin doc[c] /\ \A k \in 1..(n - 1) : <<c, k>> \in doc[c]

\* emitElementChanges and commitChanges; while the link is down collectOffline says
\* "unsaved" for an element that was not touched since, and nothing otherwise.
Edit(c) ==
    /\ role[c] = "editor" /\ c \notin stopped
    /\ \E n \in 1..Edits[c] :
         /\ IsNextEdit(c, n)
         /\ doc' = [doc EXCEPT ![c] = @ \cup {<<c, n>>}]
         /\ up' = Sent(up, link[c], <<Update({<<c, n>>})>>)
    /\ \E say \in IF link[c] = 0 THEN {"saving", "unsaved"} ELSE {"saving"} :
           shown' = [shown EXCEPT ![c] = say]
    /\ UNCHANGED <<link, stopped, role, session, down, board, access, presence, bounds>>

\* applyRole: HB_PERMISSION sets what the user may do.
RoleAfter(c, m) == IF m.role = "same" THEN role[c] ELSE m.role

\* handleSync: what comes is merged, and a question is answered.
Answer(c, m) ==
    IF m.type = "welcome" /\ Offer(c, m.have) # {} THEN <<Update(Offer(c, m.have))>>
    ELSE <<>>

\* handleMessage of the adapter.
ClientReads(c) ==
    LET s == link[c]
        m == Head(down[s])
    IN  /\ s # 0 /\ down[s] # <<>>
        /\ down' = [down EXCEPT ![s] = Tail(@)]
        /\ doc' = [doc EXCEPT ![c] = @ \cup m.set]
        /\ role' = [role EXCEPT ![c] = RoleAfter(c, m)]
        /\ shown' = [shown EXCEPT ![c] = IF m.save = "same" THEN @ ELSE m.save]
        /\ up' = Sent(up, s, Answer(c, m))
        /\ UNCHANGED <<link, stopped, session, board, access, presence, bounds>>

\* handleStatus of the adapter: nothing is "saved" while there is no link.
SaysUnsaved(c) == shown' = [shown EXCEPT ![c] = "unsaved"]

\* handleClose, the silence timer, or the network that goes: a retry follows.
SeesClose(c) ==
    LET s == link[c]
    IN  /\ s # 0 /\ (s \in broken \/ step[s] = "closed")
        /\ link' = [link EXCEPT ![c] = 0]
        /\ SaysUnsaved(c)
        /\ down' = [down EXCEPT ![s] = <<>>]
        /\ UNCHANGED <<stopped, doc, role, session, up, board, access, presence, bounds>>

\* closeReaction: 1008 with FORBIDDEN is fatal.
SeesDenied(c) ==
    LET s == link[c]
    IN  /\ s # 0 /\ step[s] = "denied" /\ s \notin broken
        /\ link' = [link EXCEPT ![c] = 0]
        /\ stopped' = stopped \cup {c}
        /\ SaysUnsaved(c)
        /\ UNCHANGED <<doc, role, session, up, down, board, access, presence, bounds>>

\* y-protocols repeats a client's presence with a higher clock every 15 seconds.
Renew(c) ==
    LET s == link[c]
    IN  /\ s # 0 /\ c \notin present /\ up[s] = <<>>
        /\ up' = Sent(up, s, <<Announcement>>)
        /\ up' # up
        /\ UNCHANGED <<client, session, down, board, access, presence, bounds>>

-----------------------------------------------------------------------------
(***************************************************************************)
(* Presence in the room.                                                   *)
(***************************************************************************)

\* As if a client's clock did not go on within a connection.
AcceptsOnce(s) == s > newest[by[s]]

\* applyAwarenessUpdate takes a newer clock, and a client's clock only goes on.
Accepts(s) == s >= newest[by[s]]

Receive(s) ==
    IF Accepts(s)
    THEN /\ present' = present \cup {by[s]}
         /\ newest' = [newest EXCEPT ![by[s]] = s]
         /\ owned' = owned \cup {s}
    ELSE UNCHANGED presence

\* A session that is not asked which client it spoke for.
LeavesBehind(s) == {}

\* forget: the clients that were heard on this session, wherever they are now.
Forgotten(s) == IF s \in owned THEN {by[s]} ELSE {}

-----------------------------------------------------------------------------
(***************************************************************************)
(* The handshake and the room's sessions.                                  *)
(***************************************************************************)
ToAll(sessions, message) ==
    [s \in Sessions |-> IF s \in sessions \ broken
                        THEN Append(down[s], message) ELSE down[s]]

Info(save) == [Nothing EXCEPT !.save = save]

\* The role read once more instead of the session's.
WelcomeReadsAgain(s) == [type |-> "welcome", set |-> room, have |-> Whole(room),
                         role |-> access[by[s]], save |-> "saved"]

Welcome(s) == [type |-> "welcome", set |-> room, have |-> Whole(room),
               role |-> srole[s], save |-> "saved"]

\* verify and effectiveRole: the role in the database now.
Verify(s) ==
    /\ step[s] = "verify"
    /\ IF access[by[s]] = "none"
       THEN step' = [step EXCEPT ![s] = "denied"] /\ srole' = srole
       ELSE /\ step' = [step EXCEPT ![s] = "load"]
            /\ srole' = [srole EXCEPT ![s] = access[by[s]]]
    /\ UNCHANGED <<client, by, fresh, broken, up, down, board, access, presence, bounds>>

\* Whatever else fails on the way is answered with FORBIDDEN, too.
JoinFails(s) ==
    /\ step[s] \in {"verify", "load"} /\ faults < MaxFaults
    /\ faults' = faults + 1
    /\ step' = [step EXCEPT ![s] = "denied"]
    /\ UNCHANGED <<client, by, srole, fresh, broken, up, down, board, access, presence, drops>>

\* join: role, step 1 and step 2, and the news for everybody.
Join(s) ==
    /\ step[s] = "load"
    /\ step' = [step EXCEPT ![s] = "open"]
    /\ members' = members \cup {s}
    /\ down' = Sent(ToAll(members, Info("saved")), s, <<Welcome(s)>>)
    /\ UNCHANGED <<client, by, srole, fresh, broken, up, room, log, pend, failed, refused,
                   access, presence, bounds>>

MayWrite(s) == srole[s] = "editor"

\* As if the event left out what had waited in the document for what comes now.
GainedOfMessage(set) == (set \ room) \cap Whole(room \cup set)

\* Yjs' "update" event: what the document shows more than before.
Gained(set) == Whole(room \cup set) \ Whole(room)

\* readSyncMessage with a writer's updates, and wireDocument.
Merge(s, set) ==
    /\ room' = room \cup set
    /\ pend' = IF Gained(set) = {} THEN pend
               ELSE Append(pend, [set |-> Gained(set), from |-> s])
    /\ UNCHANGED refused

\* denyWrite: the role, then the error.
Denial(s) == <<[Nothing EXCEPT !.role = srole[s]]>>

\* handleMessage of the room.
SessionReads(s) ==
    LET m == Head(up[s])
        answer == IF m.type = "hello"
                  THEN <<Update(room \ m.have)>> ELSE <<>>
        denied == m.set # {} /\ ~MayWrite(s)
    IN  /\ step[s] = "open" /\ up[s] # <<>>
        /\ up' = [up EXCEPT ![s] = Tail(@)]
        /\ IF m.type \in {"hello", "present"} THEN Receive(s) ELSE UNCHANGED presence
        /\ IF denied
           THEN /\ refused' = refused \cup (m.set \ room)
                /\ UNCHANGED <<room, pend>>
           ELSE Merge(s, m.set)
        /\ down' = Sent(down, s, answer \o (IF denied THEN Denial(s) ELSE <<>>))
        /\ UNCHANGED <<client, session, members, log, failed, access, bounds>>

\* A room that thinks of viewers as clients that need no updates.
WritersOnly(from) == {s \in members \ {from} : MayWrite(s)}

Targets(from) == members \ {from}

\* fanoutLocal, and what the whole room is told.
Fanout(set, from) ==
    [s \in Sessions |->
        IF s \in Targets(from) \ broken
        THEN Append(down[s], [Update(set) EXCEPT !.save = "saved"])
        ELSE ToAll(members, Info("saved"))[s]]

\* persistAndFanout: the append is there, then everybody gets the update.
AppendOk ==
    /\ pend # <<>>
    /\ pend' = Tail(pend)
    /\ log' = log \cup Head(pend).set
    /\ down' = Fanout(Head(pend).set, Head(pend).from)
    /\ UNCHANGED <<client, session, up, members, room, failed, refused, access, presence, bounds>>

\* The append fails: the room is told, the update is not passed on.
AppendFails ==
    /\ pend # <<>> /\ faults < MaxFaults
    /\ faults' = faults + 1
    /\ pend' = Tail(pend)
    /\ failed' = failed \cup Head(pend).set
    /\ down' = ToAll(members, Info("unsaved"))
    /\ UNCHANGED <<client, session, up, members, room, log, refused, access, presence, drops>>

\* leave, when the server sees the close or terminates a silent socket.
Leave(s) ==
    /\ step[s] = "open" /\ s \in broken
    /\ step' = [step EXCEPT ![s] = "closed"]
    /\ up' = [up EXCEPT ![s] = <<>>]
    /\ members' = members \ {s}
    /\ present' = present \ Forgotten(s)
    /\ owned' = owned \ {s}
    /\ down' = ToAll(members \ {s}, Info("saved"))
    /\ UNCHANGED <<client, by, srole, fresh, broken, room, log, pend, failed, refused,
                   access, newest, bounds>>

-----------------------------------------------------------------------------
(***************************************************************************)
(* refreshAuth, and the world outside.                                     *)
(***************************************************************************)

\* currentRole is awaited; an access that is gone is an error, and no more.
RefreshRead(s) ==
    /\ step[s] = "open" /\ fresh[s] = "none" /\ s \notin broken
    /\ access[by[s]] \notin {"none", srole[s]}
    /\ fresh' = [fresh EXCEPT ![s] = access[by[s]]]
    /\ UNCHANGED <<client, by, step, srole, broken, up, down, board, access, presence, bounds>>

TellsNothing(s) == <<>>

\* HB_PERMISSION goes with every change of session.role.
RoleNews(s) == <<[Nothing EXCEPT !.role = fresh[s]]>>

RefreshSet(s) ==
    /\ fresh[s] # "none"
    /\ srole' = [srole EXCEPT ![s] = fresh[s]]
    /\ fresh' = [fresh EXCEPT ![s] = "none"]
    /\ down' = Sent(down, s, RoleNews(s))
    /\ UNCHANGED <<client, by, step, broken, up, board, access, presence, bounds>>

\* An owner of the board gives a user another role, or none.
ChangeRole(c) ==
    /\ faults < MaxFaults
    /\ faults' = faults + 1
    /\ \E r \in (Roles \cup {"none"}) \ {access[c]} : access' = [access EXCEPT ![c] = r]
    /\ UNCHANGED <<client, session, up, down, board, presence, drops>>

\* The network, a suspended tab, the heartbeat or a server that says goodbye.
Break(s) ==
    /\ step[s] \in {"verify", "load", "open"} /\ s \notin broken
    /\ drops < MaxDrops /\ faults < MaxFaults
    /\ drops' = drops + 1 /\ faults' = faults + 1
    /\ broken' = broken \cup {s}
    /\ UNCHANGED <<client, by, step, srole, fresh, up, down, board, access, presence>>

Next ==
    \/ \E c \in Clients : \/ Connect(c) \/ Edit(c) \/ ClientReads(c) \/ SeesClose(c)
                          \/ SeesDenied(c) \/ Renew(c) \/ ChangeRole(c)
    \/ \E s \in Sessions : \/ Verify(s) \/ JoinFails(s) \/ Join(s) \/ SessionReads(s)
                           \/ Leave(s) \/ RefreshRead(s) \/ RefreshSet(s) \/ Break(s)
    \/ AppendOk \/ AppendFails

Spec == Init /\ [][Next]_vars
-----------------------------------------------------------------------------
(***************************************************************************)
(* Properties.                                                             *)
(***************************************************************************)
\* u or something it needs is in S.
Lacks(u, S) == \E k \in 1..u[2] : <<u[1], k>> \in S

Quiet(c) ==
    LET s == link[c]
    IN  /\ s # 0 /\ step[s] = "open" /\ s \notin broken /\ pend = <<>>
        /\ up[s] = <<>> /\ down[s] = <<>> /\ fresh[s] = "none"

\* When nothing is under way, a client, the room and the database have the same
\* updates, except for those whose append failed or that were denied, and what
\* builds on them.
QuietMeansSame ==
    \A c \in Clients : Quiet(c) =>
        /\ \A u \in Whole(room) \ Whole(doc[c]) : Lacks(u, failed)
        /\ \A u \in doc[c] \ Whole(room) : Lacks(u, refused)
        /\ Whole(room) \subseteq log \cup failed

\* When nothing is under way, a client knows its session's role, however roles,
\* refreshes, denials and connections overlap.
ClientKnowsRole == \A c \in Clients : Quiet(c) => role[c] = srole[link[c]]

\* Nobody is shown who has no session: each client that is present was heard on a
\* session the room still has.
PresentIsHere == \A c \in present : \E s \in members : by[s] = c /\ s \in owned

\* An edit reaches the room, or was denied, or its client was turned away for good:
\* also an edit made offline, or on a connection that was broken already.
EditsArrive ==
    \A u \in Updates :
        u \in doc[u[1]] ~> \/ u \in Whole(room) \/ Lacks(u, refused)
                           \/ u[1] \in stopped

\* A client that keeps its connection is present in the end, also when the old
\* session of the same client leaves after the new one was announced.
PresenceReturns == \A c \in Clients : <>[](c \in present \/ c \in stopped)

\* A client that says "saved" has each of its own edits in the database.
SavedIsStored ==
    \A c \in Clients :
        shown[c] = "saved" => \A u \in doc[c] : u[1] = c => u \in log \cup refused

(***************************************************************************)
(* A client retries for ever and its timers find a dead connection; the    *)
(* server's heartbeat does; every awaited call of the server ends.         *)
(***************************************************************************)
Fairness ==
    /\ \A c \in Clients :
         /\ WF_vars(Connect(c)) /\ WF_vars(ClientReads(c)) /\ WF_vars(Renew(c))
         /\ WF_vars(SeesClose(c) \/ SeesDenied(c))
    /\ \A s \in Sessions :
         /\ WF_vars(Verify(s) \/ Join(s)) /\ WF_vars(SessionReads(s))
         /\ WF_vars(Leave(s)) /\ WF_vars(RefreshSet(s))
    /\ WF_vars(AppendOk)

FairSpec == Spec /\ Fairness
=============================================================================
