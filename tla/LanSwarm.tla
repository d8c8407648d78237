------------------------------ MODULE LanSwarm ------------------------------
(***************************************************************************)
(* One file offered to a peer or to a group, and its pieces:               *)
(* src-tauri/src/lanchat/swarm.rs.                                         *)
(*                                                                         *)
(* The origin seeds; a member that accepts the offer leeches and serves    *)
(* what it holds.  Each node keeps a SwarmFile, registered under the file  *)
(* id in `swarms`; handlers and the leecher loop hold on to the object     *)
(* after it was taken out of the map.  Control frames of a connection      *)
(* arrive in order.  Requests and pieces travel on their own and are kept  *)
(* as sets: what arrives twice is ignored, and their order says nothing.   *)
(***************************************************************************)
EXTENDS Integers, Sequences, FiniteSets

CONSTANTS
    Origin,      \* the node that offers the file
    Member,      \* the nodes it is offered to
    Group,       \* whether it is offered in a group conversation
    Piece,       \* the pieces of the file
    None,        \* nobody
    Window,      \* PER_PEER_WINDOW
    MaxInflight, \* MAX_INFLIGHT
    MaxPauses, MaxCancels, MaxBreaks, MaxBad,  \* bounds, by event
    MaxExpiries  \* as the others, or None: as often as it likes

ASSUME ConstantsAssumption ==
    /\ Origin \notin Member /\ None \notin Member \cup {Origin}
    /\ Group \in BOOLEAN
    /\ Group \/ Cardinality(Member) = 1
    /\ Piece # {} /\ IsFiniteSet(Piece)
    /\ Window \in Nat \ {0} /\ MaxInflight \in Nat \ {0}
    /\ {MaxPauses, MaxCancels, MaxBreaks, MaxBad} \subseteq Nat
    /\ MaxExpiries \in Nat \cup {None}

VARIABLES
    sf,      \* the SwarmFile of each node
    offer,   \* swarm_offers: members with a prompt on screen
    disk,    \* what a member has on disk
    ui,      \* the transfer state last shown to the user
    loop,    \* the leecher loop of each member
    job,     \* handle_piece, per connection of a member
    ctl, req, pcs, \* frames under way, by sender and receiver
    up,      \* connected pairs
    cancelling, \* nodes between the two halves of a cancel
    used     \* how often each bounded event has happened

vars == <<sf, offer, disk, ui, loop, job, ctl, req, pcs, up, cancelling, used>>
net  == <<ctl, req, pcs, up>>

Node == Member \cup {Origin}
Pair == {{n, p} : n, p \in Node} \ {{n} : n \in Node}

SwarmFile == [live : BOOLEAN, have : SUBSET Piece, peers : SUBSET Node,
              holds : [Node -> SUBSET Piece],
              inflight : [Piece -> Node \cup {None}],
              cancelled : BOOLEAN, paused : BOOLEAN, finalized : BOOLEAN,
              open : BOOLEAN]
Terminal  == {"done", "failed", "cancelled", "rejected"}
Progress  == {"none", "offering", "active", "paused"} \cup Terminal
Frame     == [type : {"offer", "accept", "reject", "have", "bitfield",
                      "cancel"}, pieces : SUBSET Piece]
Job       == [step : {"free", "write", "check", "rename", "saved", "unsaved"},
              piece : Piece]
Event     == {"pause", "cancel", "break", "bad", "expire"}
Bound     == [pause |-> MaxPauses, cancel |-> MaxCancels, break |-> MaxBreaks,
              bad |-> MaxBad, expire |-> MaxExpiries]

Unborn == [live |-> FALSE, have |-> {}, peers |-> {},
           holds |-> [p \in Node |-> {}], inflight |-> [i \in Piece |-> None],
           cancelled |-> FALSE, paused |-> FALSE, finalized |-> FALSE,
           open |-> FALSE]

Idle == [step |-> "free", piece |-> CHOOSE i \in Piece : TRUE]

TypeOK ==
    /\ sf \in [Node -> SwarmFile]
    /\ \A n \in Node : n \notin sf[n].peers
    /\ offer \in SUBSET Member
    /\ disk \in [Member -> {"none", "part", "saved"}]
    /\ ui \in [Node -> Progress]
    /\ loop \in [Member -> {"off", "run", "saw", "asleep"}]
    /\ job \in [Member -> [Node -> Job]]
    /\ ctl \in [Node -> [Node -> Seq(Frame)]]
    /\ req \in [Node -> [Node -> SUBSET Piece]]
    /\ pcs \in [Node -> [Node -> SUBSET Piece]]
    /\ up \in SUBSET Pair
    /\ cancelling \in SUBSET Node
    /\ used \in [Event -> Nat]

Init ==
    /\ sf = [n \in Node |-> Unborn]
    /\ offer = {}
    /\ disk = [m \in Member |-> "none"]
    /\ ui = [n \in Node |-> "none"]
    /\ loop = [m \in Member |-> "off"]
    /\ job = [m \in Member |-> [p \in Node |-> Idle]]
    /\ ctl = [n \in Node |-> [p \in Node |-> <<>>]]
    /\ req = [n \in Node |-> [p \in Node |-> {}]]
    /\ pcs = [n \in Node |-> [p \in Node |-> {}]]
    /\ up = Pair
    /\ cancelling = {}
    /\ used = [e \in Event |-> 0]

Linked(n, p) == {n, p} \in up

(* Table f with v as the entry of n for p.                                 *)
Put(f, n, p, v) == [f EXCEPT ![n] = [@ EXCEPT ![p] = v]]

Happens(e) ==
    IF Bound[e] = None THEN used' = used
    ELSE used[e] < Bound[e] /\ used' = [used EXCEPT ![e] = @ + 1]

(* send_to_peer / try_send: without a connection the frame is lost.  A dial *)
(* on demand that succeeds is a Reconnect before the step.                 *)
Sends(n, targets, type, pieces) ==
    ctl' = [ctl EXCEPT ![n] = [p \in Node |->
               IF p \in targets /\ Linked(n, p)
               THEN Append(ctl[n][p], [type |-> type, pieces |-> pieces])
               ELSE ctl[n][p]]]

(* progress_state: what an update without an explicit state shows.         *)
ProgressState(n, o) ==
    CASE o.cancelled -> "cancelled"
      [] ~o.cancelled /\ o.paused -> "paused"
      [] ~o.cancelled /\ ~o.paused ->
            IF n = Origin /\ (o.peers = {} \/ \E p \in o.peers : o.holds[p] = {})
            THEN "offering" ELSE "active"

Becomes(n, o, shown) ==
    /\ sf' = [sf EXCEPT ![n] = o]
    /\ ui' = [ui EXCEPT ![n] = shown]

-----------------------------------------------------------------------------
(* Offering, accepting, rejecting.                                         *)

(* send: the offer is dropped again when it reached nobody.                *)
Send(reached) ==
    /\ ui[Origin] = "none"
    /\ {m \in Member : Linked(Origin, m)} \subseteq reached
    /\ IF reached = {}
       THEN Becomes(Origin, Unborn, "failed") /\ UNCHANGED <<ctl, up>>
       ELSE /\ Becomes(Origin, [Unborn EXCEPT !.live = TRUE, !.have = Piece,
                                              !.open = TRUE], "offering")
            /\ up' = up \cup {{Origin, m} : m \in reached}
            /\ ctl' = [ctl EXCEPT ![Origin] = [p \in Node |->
                          IF p \in reached
                          THEN <<[type |-> "offer", pieces |-> {}]>>
                          ELSE ctl[Origin][p]]]
    /\ UNCHANGED <<offer, disk, loop, job, req, pcs, cancelling, used>>

(* Whom a member that joins trades with: the sender and the other members. *)
Others(m) == Node \ {m}

(* accept_offer: the partial file is created, the origin is believed to    *)
(* hold everything and the other members nothing.                          *)
AcceptOffer(m) ==
    /\ m \in offer
    /\ offer' = offer \ {m}
    /\ Becomes(m, [Unborn EXCEPT !.live = TRUE, !.open = TRUE,
                     !.peers = Others(m),
                     !.holds = [p \in Node |-> IF p = Origin THEN Piece
                                               ELSE {}]], "active")
    /\ disk' = [disk EXCEPT ![m] = "part"]
    /\ loop' = [loop EXCEPT ![m] = "run"]
    /\ ctl' = [ctl EXCEPT ![m] = [p \in Node |->
                  IF p = m \/ ~Linked(m, p) THEN ctl[m][p]
                  ELSE Append(ctl[m][p],
                              [type |-> IF p = Origin THEN "accept"
                                        ELSE "bitfield", pieces |-> {}])]]
    /\ UNCHANGED <<job, req, pcs, up, cancelling, used>>

(* reject_offer.                                                           *)
RejectOffer(m) ==
    /\ m \in offer
    /\ offer' = offer \ {m}
    /\ Sends(m, {Origin}, "reject", {})
    /\ UNCHANGED <<sf, disk, ui, loop, job, req, pcs, up, cancelling, used>>

-----------------------------------------------------------------------------
(* Control frames.  A connection's frames are handled one after the other. *)

Busy(n, p) == n \in Member /\ job[n][p].step # "free"

Takes(n, p, type) ==
    /\ Linked(n, p) /\ ~Busy(n, p)
    /\ ctl[p][n] # <<>> /\ Head(ctl[p][n]).type = type
    /\ ctl' = Put(ctl, p, n, Tail(ctl[p][n]))

Pieces(n, p) == Head(ctl[p][n]).pieces

HandleOffer(n, p) ==
    /\ Takes(n, p, "offer")
    /\ offer' = offer \cup {n}
    /\ UNCHANGED <<sf, disk, ui, loop, job, req, pcs, up, cancelling, used>>

HandleAccept(n, p) ==
    /\ Takes(n, p, "accept")
    /\ IF sf[n].live
       THEN LET o == [sf[n] EXCEPT !.peers = @ \cup {p}]
            IN  Becomes(n, o, ProgressState(n, o))
       ELSE UNCHANGED <<sf, ui>>
    /\ UNCHANGED <<offer, disk, loop, job, req, pcs, up, cancelling, used>>

HandleReject(n, p) ==
    /\ Takes(n, p, "reject")
    /\ IF sf[n].live /\ ~Group
       THEN Becomes(n, [sf[n] EXCEPT !.live = FALSE], "rejected")
       ELSE UNCHANGED <<sf, ui>>
    /\ UNCHANGED <<offer, disk, loop, job, req, pcs, up, cancelling, used>>

(* Tests that are too soon satisfied, or never.                            *)
ServedOne(o)  == \E p \in o.peers : o.holds[p] = Piece
ServedAll(o)  == o.peers # {} /\ \A p \in Node : o.holds[p] = Piece

Served(o)     == o.peers # {} /\ \A p \in o.peers : o.holds[p] = Piece

(* maybe_finalize_origin: the origin is done when every peer that accepted *)
(* so far holds the whole file.                                            *)
MaybeFinalizeOrigin(n, o) ==
    IF n = Origin /\ ~o.finalized /\ Served(o)
    THEN Becomes(n, [o EXCEPT !.finalized = TRUE, !.live = FALSE], "done")
    ELSE Becomes(n, o, ProgressState(n, o))

Holds(o, p, pieces) ==
    [o EXCEPT !.peers = @ \cup {p}, !.holds = [o.holds EXCEPT ![p] = pieces]]

(* handle_have and handle_bitfield: the one adds a piece to what the peer  *)
(* is known to hold, the other replaces it.                                *)
HandleHave(n, p) ==
    /\ Takes(n, p, "have")
    /\ IF sf[n].live
       THEN MaybeFinalizeOrigin(n, Holds(sf[n], p,
                                         sf[n].holds[p] \cup Pieces(n, p)))
       ELSE UNCHANGED <<sf, ui>>
    /\ UNCHANGED <<offer, disk, loop, job, req, pcs, up, cancelling, used>>

HandleBitfield(n, p) ==
    /\ Takes(n, p, "bitfield")
    /\ IF sf[n].live
       THEN MaybeFinalizeOrigin(n, Holds(sf[n], p, Pieces(n, p)))
       ELSE UNCHANGED <<sf, ui>>
    /\ UNCHANGED <<offer, disk, loop, job, req, pcs, up, cancelling, used>>

(* What was asked of a peer that left may be asked of another.             *)
Forgets(o, p) ==
    [o EXCEPT !.peers = @ \ {p}, !.holds = [o.holds EXCEPT ![p] = {}],
              !.inflight = [i \in Piece |-> IF o.inflight[i] = p THEN None
                                            ELSE o.inflight[i]]]

(* handle_cancel: any peer's cancel clears a prompt for the file; only the *)
(* origin's aborts a transfer.                                             *)
HandleCancel(n, p) ==
    /\ Takes(n, p, "cancel")
    /\ offer' = offer \ {n}
    /\ IF sf[n].live /\ p = Origin
       THEN /\ Becomes(n, [sf[n] EXCEPT !.cancelled = TRUE, !.open = FALSE,
                                        !.live = FALSE], "cancelled")
            /\ disk' = [disk EXCEPT ![n] = IF @ = "part" THEN "none" ELSE @]
            /\ loop' = [loop EXCEPT ![n] = IF @ = "asleep" THEN "run" ELSE @]
       ELSE /\ sf' = IF ~sf[n].live THEN sf
                     ELSE [sf EXCEPT ![n] = Forgets(sf[n], p)]
            /\ ui' = IF n \in offer THEN [ui EXCEPT ![n] = "cancelled"] ELSE ui
            /\ UNCHANGED <<disk, loop>>
    /\ UNCHANGED <<job, req, pcs, up, cancelling, used>>

-----------------------------------------------------------------------------
(* Pieces.                                                                 *)

(* handle_request.                                                         *)
HandleRequest(n, p, i) ==
    /\ Linked(n, p) /\ ~Busy(n, p)
    /\ i \in req[p][n]
    /\ req' = Put(req, p, n, req[p][n] \ {i})
    /\ pcs' = IF sf[n].live /\ ~sf[n].paused /\ i \in sf[n].have /\ sf[n].open
              THEN Put(pcs, n, p, pcs[n][p] \cup {i}) ELSE pcs
    /\ UNCHANGED <<sf, offer, disk, ui, loop, job, ctl, up, cancelling, used>>

Works(m, p, step, i) == job' = Put(job, m, p, [step |-> step, piece |-> i])

Arrives(m, p, i) ==
    /\ Linked(m, p) /\ ~Busy(m, p)
    /\ i \in pcs[p][m]
    /\ pcs' = Put(pcs, p, m, pcs[p][m] \ {i})

Unasked(o, i) == [o EXCEPT !.inflight = [o.inflight EXCEPT ![i] = None]]

(* handle_piece: an unknown transfer or a piece we hold ends it here.      *)
HandlePiece(m, p, i) ==
    /\ Arrives(m, p, i)
    /\ IF sf[m].live /\ i \notin sf[m].have /\ sf[m].open
       THEN Works(m, p, "write", i) ELSE job' = job
    /\ UNCHANGED <<sf, offer, disk, ui, loop, ctl, req, up, cancelling, used>>

(* The hash differs: the piece may be asked for again.                     *)
PieceIsBad(m, p, i) ==
    /\ Arrives(m, p, i)
    /\ sf[m].live /\ i \notin sf[m].have
    /\ Happens("bad")
    /\ sf' = [sf EXCEPT ![m] = Unasked(sf[m], i)]
    /\ UNCHANGED <<offer, disk, ui, loop, job, ctl, req, up, cancelling>>

(* A handler that advertises the piece before it has it.                   *)
AnnounceFirst(m, p) ==
    LET i == job[m][p].piece IN
    /\ job[m][p].step = "write"
    /\ sf' = [sf EXCEPT ![m] = Unasked(sf[m], i)]
    /\ ui' = [ui EXCEPT ![m] = ProgressState(m, sf[m])]
    /\ Sends(m, sf[m].peers, "have", {i})
    /\ Works(m, p, "check", i)
    /\ UNCHANGED <<offer, disk, loop, req, pcs, up, cancelling, used>>

(* Written: marked, advertised to every known peer, shown.                 *)
PieceWritten(m, p) ==
    LET i == job[m][p].piece
        o == [Unasked(sf[m], i) EXCEPT !.have = @ \cup {i}]
    IN
    /\ job[m][p].step = "write"
    /\ Becomes(m, o, ProgressState(m, o))
    /\ Sends(m, o.peers, "have", {i})
    /\ Works(m, p, "check", i)
    /\ UNCHANGED <<offer, disk, loop, req, pcs, up, cancelling, used>>

(* A completeness test that forgets what is not in flight any more.        *)
LooksWhole(m) == \A i \in Piece : sf[m].inflight[i] = None

IsWhole(m) == sf[m].have = Piece

(* finalize_leecher, entered once: the flag is swapped, the file closed.   *)
CheckWhole(m, p) ==
    /\ job[m][p].step = "check"
    /\ IF IsWhole(m) /\ ~sf[m].finalized
       THEN /\ sf' = [sf EXCEPT ![m] = [@ EXCEPT !.finalized = TRUE,
                                                 !.open = FALSE]]
            /\ Works(m, p, "rename", job[m][p].piece)
       ELSE /\ Works(m, p, "free", job[m][p].piece)
            /\ UNCHANGED sf
    /\ UNCHANGED <<offer, disk, ui, loop, net, cancelling, used>>

(* The partial file becomes the file.  In a group it is opened again and   *)
(* served; otherwise the entry goes.                                       *)
RenamePart(m, p) ==
    /\ job[m][p].step = "rename"
    /\ IF disk[m] = "part"
       THEN /\ disk' = [disk EXCEPT ![m] = "saved"]
            /\ sf' = [sf EXCEPT ![m] = IF Group THEN [@ EXCEPT !.open = TRUE]
                                       ELSE [@ EXCEPT !.live = FALSE]]
            /\ Works(m, p, "saved", job[m][p].piece)
       ELSE /\ disk' = disk
            /\ sf' = [sf EXCEPT ![m] = [@ EXCEPT !.live = FALSE]]
            /\ Works(m, p, "unsaved", job[m][p].piece)
    /\ UNCHANGED <<offer, ui, loop, net, cancelling, used>>

ShowResult(m, p) ==
    /\ job[m][p].step \in {"saved", "unsaved"}
    /\ ui' = [ui EXCEPT ![m] = IF job[m][p].step = "saved" THEN "done"
                               ELSE "failed"]
    /\ job' = Put(job, m, p, Idle)
    /\ UNCHANGED <<sf, offer, disk, loop, net, cancelling, used>>

-----------------------------------------------------------------------------
(* The leecher loop.                                                       *)

Load(f, p) == Cardinality({i \in Piece : f[i] = p})
Open(f)    == {i \in Piece : f[i] # None}

(* What schedule_requests may make of the requests that are open: one more *)
(* request after the other, each to a peer known to hold the piece and     *)
(* with room in its window, until there is nothing left to ask.            *)
Room(o, f, i, p) ==
    /\ i \notin o.have /\ f[i] = None
    /\ p \in o.peers /\ i \in o.holds[p]
    /\ Load(f, p) < Window /\ Cardinality(Open(f)) < MaxInflight

Schedules(o) ==
    {f \in [Piece -> Node \cup {None}] :
        /\ \A i \in Piece : o.inflight[i] # None => f[i] = o.inflight[i]
        /\ \A i \in Open(f) \ Open(o.inflight) :
              /\ i \notin o.have /\ f[i] \in o.peers /\ i \in o.holds[f[i]]
              /\ Load(f, f[i]) <= Window
        /\ Open(f) # Open(o.inflight) => Cardinality(Open(f)) <= MaxInflight
        /\ \A i \in Piece, p \in Node : ~Room(o, f, i, p)}

ScheduleRequests(m) ==
    /\ loop[m] = "run"
    /\ ~sf[m].cancelled /\ ~sf[m].paused
    /\ \E f \in Schedules(sf[m]) :
          LET new(p) == {i \in Piece : /\ f[i] = p
                                       /\ sf[m].inflight[i] = None}
          IN  /\ Open(f) # Open(sf[m].inflight)
              /\ sf' = [sf EXCEPT ![m] = [@ EXCEPT !.inflight = f]]
              /\ req' = [req EXCEPT ![m] = [p \in Node |->
                            IF Linked(m, p) THEN req[m][p] \cup new(p)
                            ELSE req[m][p]]]
    /\ UNCHANGED <<offer, disk, ui, loop, job, ctl, pcs, up, cancelling, used>>

(* Requests that are never given up.                                       *)
NeverExpires(m, i) == FALSE

(* PIECE_TIMEOUT has passed: the next schedule_requests forgets the        *)
(* request.                                                                *)
RequestExpires(m, i) ==
    /\ loop[m] = "run"
    /\ sf[m].inflight[i] # None
    /\ Happens("expire")
    /\ sf' = [sf EXCEPT ![m] = Unasked(sf[m], i)]
    /\ UNCHANGED <<offer, disk, ui, loop, job, net, cancelling>>

LoopEnds(m) ==
    /\ loop[m] = "run"
    /\ sf[m].cancelled \/ (sf[m].have = Piece /\ ~sf[m].paused)
    /\ loop' = [loop EXCEPT ![m] = "off"]
    /\ UNCHANGED <<sf, offer, disk, ui, job, net, cancelling, used>>

(* wait_while_paused: the flag is read, then the wake-up is waited for.    *)
SeePause(m) ==
    /\ loop[m] = "run"
    /\ sf[m].paused /\ ~sf[m].cancelled
    /\ loop' = [loop EXCEPT ![m] = "saw"]
    /\ UNCHANGED <<sf, offer, disk, ui, job, net, cancelling, used>>

FallAsleep(m) ==
    /\ loop[m] = "saw"
    /\ loop' = [loop EXCEPT ![m] = "asleep"]
    /\ UNCHANGED <<sf, offer, disk, ui, job, net, cancelling, used>>

-----------------------------------------------------------------------------
(* The user's controls.                                                    *)

Controllable(n) == sf[n].live /\ ui[n] \notin Terminal /\ n \notin cancelling

(* notify_waiters wakes a loop that waits, and leaves nothing for one that *)
(* is about to.                                                            *)
Woken(n) == IF n \in Member /\ loop[n] = "asleep"
            THEN [loop EXCEPT ![n] = "run"] ELSE loop

Pause(n) ==
    /\ Controllable(n) /\ ~sf[n].paused
    /\ Happens("pause")
    /\ Becomes(n, [sf[n] EXCEPT !.paused = TRUE], "paused")
    /\ UNCHANGED <<offer, disk, loop, job, net, cancelling>>

Resume(n) ==
    /\ Controllable(n) /\ sf[n].paused
    /\ LET o == [sf[n] EXCEPT !.paused = FALSE]
       IN  Becomes(n, o, ProgressState(n, o))
    /\ loop' = Woken(n)
    /\ UNCHANGED <<offer, disk, job, net, cancelling, used>>

Cancel(n) ==
    /\ Controllable(n)
    /\ Happens("cancel")
    /\ sf' = [sf EXCEPT ![n] = [@ EXCEPT !.cancelled = TRUE]]
    /\ loop' = Woken(n)
    /\ Sends(n, sf[n].peers, "cancel", {})
    /\ cancelling' = cancelling \cup {n}
    /\ UNCHANGED <<offer, disk, ui, job, req, pcs, up>>

(* A cancel that leaves the partial file behind.                           *)
CancelKeepsPart(n) ==
    /\ n \in cancelling
    /\ cancelling' = cancelling \ {n}
    /\ Becomes(n, [sf[n] EXCEPT !.live = FALSE], "cancelled")
    /\ UNCHANGED <<offer, disk, loop, job, net, used>>

(* A cancel that removes the finished file too.                            *)
CancelRemovesSaved(n) ==
    /\ n \in cancelling
    /\ cancelling' = cancelling \ {n}
    /\ Becomes(n, [sf[n] EXCEPT !.live = FALSE, !.open = FALSE], "cancelled")
    /\ disk' = IF n \in Member THEN [disk EXCEPT ![n] = "none"] ELSE disk
    /\ UNCHANGED <<offer, loop, job, net, used>>

CancelEnds(n) ==
    /\ n \in cancelling
    /\ cancelling' = cancelling \ {n}
    /\ Becomes(n, [sf[n] EXCEPT !.live = FALSE,
                                !.open = @ /\ n = Origin], "cancelled")
    /\ disk' = IF n \in Member /\ disk[n] = "part"
               THEN [disk EXCEPT ![n] = "none"] ELSE disk
    /\ UNCHANGED <<offer, loop, job, net, used>>

-----------------------------------------------------------------------------
Break(n, p) ==
    /\ Linked(n, p)
    /\ Happens("break")
    /\ up' = up \ {{n, p}}
    /\ ctl' = Put(Put(ctl, n, p, <<>>), p, n, <<>>)
    /\ req' = Put(Put(req, n, p, {}), p, n, {})
    /\ pcs' = Put(Put(pcs, n, p, {}), p, n, {})
    /\ UNCHANGED <<sf, offer, disk, ui, loop, job, cancelling>>

Reconnect(n, p) ==
    /\ n # p /\ ~Linked(n, p)
    /\ up' = up \cup {{n, p}}
    /\ UNCHANGED <<sf, offer, disk, ui, loop, job, ctl, req, pcs, cancelling,
                   used>>

-----------------------------------------------------------------------------
ControlFrame(n, p) ==
    \/ HandleAccept(n, p) \/ HandleReject(n, p)
    \/ HandleHave(n, p) \/ HandleBitfield(n, p)
    \/ n \in Member /\ (HandleOffer(n, p) \/ HandleCancel(n, p))
    \/ n = Origin /\ HandleCancel(n, p)

HandlerStep(m, p) ==
    \/ PieceWritten(m, p) \/ CheckWhole(m, p) \/ RenamePart(m, p)
    \/ ShowResult(m, p)

LoopStep(m) == ScheduleRequests(m) \/ LoopEnds(m) \/ SeePause(m) \/ FallAsleep(m)

Next ==
    \/ \E reached \in SUBSET Member : Send(reached)
    \/ \E n, p \in Node : \/ ControlFrame(n, p)
                          \/ \E i \in Piece : HandleRequest(n, p, i)
                          \/ Break(n, p) \/ Reconnect(n, p)
    \/ \E n \in Node : Pause(n) \/ Resume(n) \/ Cancel(n) \/ CancelEnds(n)
    \/ \E m \in Member :
          \/ AcceptOffer(m) \/ RejectOffer(m) \/ LoopStep(m)
          \/ \E i \in Piece : RequestExpires(m, i)
          \/ \E p \in Node : \/ HandlerStep(m, p)
                             \/ \E i \in Piece : \/ HandlePiece(m, p, i)
                                                 \/ PieceIsBad(m, p, i)

Spec == Init /\ [][Next]_vars

(* The runtime polls every task, time passes, and two nodes that lost      *)
(* their connection get another.  The user owes nothing.                   *)
FairSpec ==
    /\ Spec
    /\ \A n, p \in Node : /\ WF_vars(ControlFrame(n, p))
                          /\ WF_vars(Reconnect(n, p))
                          /\ \A i \in Piece : WF_vars(HandleRequest(n, p, i))
    /\ \A n \in Node : WF_vars(CancelEnds(n))
    /\ \A m \in Member :
          /\ WF_vars(LoopStep(m))
          /\ \A i \in Piece : WF_vars(RequestExpires(m, i))
          /\ \A p \in Node : /\ WF_vars(HandlerStep(m, p))
                             /\ \A i \in Piece : WF_vars(HandlePiece(m, p, i))
-----------------------------------------------------------------------------
(* What a member has, seen without frames, peers and handlers.             *)
Copy(m) == IF disk[m] = "none" /\ sf[m].cancelled THEN "gone" ELSE disk[m]

Promise == INSTANCE Sharing WITH
    have <- [m \in Member |-> sf[m].have], copy <- [m \in Member |-> Copy(m)]

(* The transfer is what Sharing promises: whoever accepts, repeats, cancels *)
(* or finishes in whatever order, a member takes part once, loses no piece, *)
(* and neither saves what it gave up nor gives up what it saved.            *)
IsSharing == Promise!Spec

(* A file under its final name is whole.                                   *)
SavedIsWhole == \A m \in Member : disk[m] = "saved" => sf[m].have = Piece

(* What a node believes of a peer is true: it asks nobody for a piece that *)
(* the peer does not hold, and the origin finishes for nobody's sake but   *)
(* the receivers'.                                                         *)
BeliefsAreTrue ==
    \A n, p \in Node : sf[n].holds[p] \subseteq
        (IF p = Origin THEN Piece ELSE sf[p].have)

(* An origin that shows "done" has served everybody who had accepted.      *)
DoneIsTrue ==
    ui[Origin] = "done" => \A p \in sf[Origin].peers : sf[p].have = Piece

(* A transfer that was cancelled leaves no partial file.                   *)
CancelCleansUp ==
    \A m \in Member : sf[m].cancelled /\ m \notin cancelling
                          => disk[m] # "part"

(* Whoever leeches gets the file or is told why not, whatever is lost,     *)
(* damaged or cancelled by the receiver.  Only a pause holds it up, and an *)
(* origin that cancels before it knows of the acceptance does not tell.    *)
LeecherFinishes ==
    \A m \in Member :
        ui[m] = "active" ~> \/ ui[m] \in Terminal
                            \/ \E n \in Node : sf[n].paused
                            \/ loop[m] = "asleep"
                            \/ sf[Origin].cancelled

(* The sender of a direct transfer learns how it ends, unless a pause, a   *)
(* lost connection or a receiver who cancels keeps it from him.            *)
OriginSettles ==
    ui[Origin] = "active" ~>
        ui[Origin] \in Terminal \/ \E e \in {"pause", "cancel", "break"} : used[e] > 0
=============================================================================
