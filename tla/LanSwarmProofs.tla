--------------------------- MODULE LanSwarmProofs ---------------------------
(***************************************************************************)
(* Proofs about LanSwarm, for any members, any pieces, any window and any  *)
(* numbers of pauses, cancels, breaks, damaged pieces and expiries: the    *)
(* types, that what nodes believe of each other is true, that only whole   *)
(* files are saved, that "done" is the truth, that a cancel leaves no      *)
(* partial file, and that the transfer is what Sharing promises.           *)
(***************************************************************************)
EXTENDS LanSwarm, TLAPS

-----------------------------------------------------------------------------
(* What the helpers do.                                                     *)

LEMMA Constants ==
    /\ Origin \notin Member /\ None \notin Node /\ Member \subseteq Node
    /\ Origin \in Node /\ \A n \in Node : n \in Member \/ n = Origin
    /\ Idle \in Job /\ Idle.step = "free" /\ Idle.piece \in Piece
    /\ \A n, p \in Node : {n, p} \in Pair => n # p
    /\ \A n, p \in Node : n # p => {n, p} \in Pair
<1>1. Idle \in Job /\ Idle.step = "free" /\ Idle.piece \in Piece
  BY ConstantsAssumption DEF ConstantsAssumption, Idle, Job
<1>2. ASSUME NEW n \in Node, NEW p \in Node, {n, p} \in Pair PROVE n # p
  BY <1>2 DEF Pair
<1>3. ASSUME NEW n \in Node, NEW p \in Node, n # p PROVE {n, p} \in Pair
  <2>1. \A x : {n, p} # {x}
    BY <1>3
  <2> QED BY <2>1 DEF Pair
<1> QED BY <1>1, <1>2, <1>3, ConstantsAssumption DEF ConstantsAssumption, Node

LEMMA Puts ==
    ASSUME NEW S, NEW T, NEW V, NEW f \in [S -> [T -> V]],
           NEW s \in S, NEW t \in T, NEW v \in V
    PROVE  /\ Put(f, s, t, v) \in [S -> [T -> V]]
           /\ \A x \in S, y \in T :
                 Put(f, s, t, v)[x][y] = IF x = s /\ y = t THEN v ELSE f[x][y]
BY DEF Put

LEMMA Counts ==
    ASSUME used \in [Event -> Nat], NEW e \in Event, Happens(e)
    PROVE  used' \in [Event -> Nat]
BY DEF Happens

LEMMA Shows ==
    ASSUME NEW n, NEW o \in SwarmFile
    PROVE  ProgressState(n, o) \in {"cancelled", "paused", "offering", "active"}
<1>1. o.cancelled \in BOOLEAN /\ o.paused \in BOOLEAN
  BY DEF SwarmFile
<1> QED BY <1>1 DEF ProgressState

(* A change that keeps the pieces, believes no more, knows no more peers    *)
(* and revives nothing.                                                     *)
Mild(o, q) ==
    /\ q \in SwarmFile /\ q.have = o.have /\ q.peers \subseteq o.peers
    /\ \A p \in Node : q.holds[p] \subseteq o.holds[p]
    /\ q.live => o.live

LEMMA MildChanges ==
    ASSUME NEW o \in SwarmFile, NEW b \in BOOLEAN
    PROVE  /\ Mild(o, o)
           /\ LET q == [o EXCEPT !.live = FALSE]
              IN  Mild(o, q) /\ q.cancelled = o.cancelled /\ ~q.live
           /\ LET q == [o EXCEPT !.paused = b]
              IN  Mild(o, q) /\ q.cancelled = o.cancelled
           /\ LET q == [o EXCEPT !.open = b]
              IN  Mild(o, q) /\ q.cancelled = o.cancelled
           /\ LET q == [o EXCEPT !.finalized = TRUE, !.open = FALSE]
              IN  Mild(o, q) /\ q.cancelled = o.cancelled
           /\ LET q == [o EXCEPT !.finalized = TRUE, !.live = FALSE]
              IN  Mild(o, q) /\ q.cancelled = o.cancelled /\ ~q.live
                  /\ q.peers = o.peers /\ q.holds = o.holds
           /\ LET q == [o EXCEPT !.live = FALSE, !.open = b]
              IN  Mild(o, q) /\ q.cancelled = o.cancelled /\ ~q.live
           /\ LET q == [o EXCEPT !.cancelled = TRUE]
              IN  Mild(o, q)
           /\ LET q == [o EXCEPT !.cancelled = TRUE, !.open = FALSE, !.live = FALSE]
              IN  Mild(o, q) /\ ~q.live
BY DEF Mild, SwarmFile

LEMMA MildRequests ==
    ASSUME NEW o \in SwarmFile, NEW p \in Node, NEW i \in Piece,
           NEW f \in [Piece -> Node \cup {None}]
    PROVE  /\ LET q == [o EXCEPT !.inflight = f]
              IN  Mild(o, q) /\ q.cancelled = o.cancelled
           /\ Mild(o, Unasked(o, i)) /\ Unasked(o, i).cancelled = o.cancelled
           /\ Mild(o, Forgets(o, p)) /\ Forgets(o, p).cancelled = o.cancelled
<1>1. [o.inflight EXCEPT ![i] = None] \in [Piece -> Node \cup {None}]
  BY DEF SwarmFile
<1>2. [j \in Piece |-> IF o.inflight[j] = p THEN None ELSE o.inflight[j]]
         \in [Piece -> Node \cup {None}]
  BY DEF SwarmFile
<1>3. /\ [o.holds EXCEPT ![p] = {}] \in [Node -> SUBSET Piece]
      /\ \A x \in Node : [o.holds EXCEPT ![p] = {}][x] \subseteq o.holds[x]
  BY DEF SwarmFile
<1>4. ASSUME NEW g \in [Piece -> Node \cup {None}]
      PROVE  LET q == [o EXCEPT !.inflight = g]
             IN  Mild(o, q) /\ q.cancelled = o.cancelled
  BY DEF Mild, SwarmFile
<1>5. ASSUME NEW g \in [Piece -> Node \cup {None}], NEW h \in [Node -> SUBSET Piece],
             \A x \in Node : h[x] \subseteq o.holds[x]
      PROVE  LET q == [o EXCEPT !.peers = @ \ {p}, !.holds = h, !.inflight = g]
             IN  Mild(o, q) /\ q.cancelled = o.cancelled
  BY <1>5 DEF Mild, SwarmFile
<1> QED BY <1>1, <1>2, <1>3, <1>4, <1>5 DEF Unasked, Forgets

(* Another peer is known; it is known to hold some pieces; a node has one   *)
(* piece more.                                                              *)
LEMMA JoinsPeer ==
    ASSUME NEW o \in SwarmFile, NEW p \in Node
    PROVE  LET q == [o EXCEPT !.peers = @ \cup {p}]
           IN  /\ q \in SwarmFile /\ q.have = o.have /\ q.holds = o.holds
               /\ q.peers = o.peers \cup {p} /\ q.cancelled = o.cancelled
               /\ q.live = o.live
BY DEF SwarmFile

LEMMA Learns ==
    ASSUME NEW o \in SwarmFile, NEW p \in Node, NEW ps \in SUBSET Piece
    PROVE  LET q == Holds(o, p, ps)
           IN  /\ q \in SwarmFile /\ q.have = o.have /\ q.peers = o.peers \cup {p}
               /\ \A x \in Node : q.holds[x] = IF x = p THEN ps ELSE o.holds[x]
               /\ q.cancelled = o.cancelled
<1>1. [o.holds EXCEPT ![p] = ps] \in [Node -> SUBSET Piece]
  BY DEF SwarmFile
<1>2. ASSUME NEW h \in [Node -> SUBSET Piece]
      PROVE  LET q == [o EXCEPT !.peers = @ \cup {p}, !.holds = h]
             IN  /\ q \in SwarmFile /\ q.have = o.have /\ q.peers = o.peers \cup {p}
                 /\ q.holds = h /\ q.cancelled = o.cancelled
  BY DEF SwarmFile
<1>3. \A x \in Node : [o.holds EXCEPT ![p] = ps][x] = IF x = p THEN ps ELSE o.holds[x]
  BY DEF SwarmFile
<1> QED BY <1>1, <1>2, <1>3 DEF Holds

LEMMA GetsPiece ==
    ASSUME NEW o \in SwarmFile, NEW i \in Piece
    PROVE  LET q == [Unasked(o, i) EXCEPT !.have = @ \cup {i}]
           IN  /\ q \in SwarmFile /\ q.have = o.have \cup {i} /\ q.holds = o.holds
               /\ q.peers = o.peers /\ q.cancelled = o.cancelled /\ q.live = o.live
<1>1. [o.inflight EXCEPT ![i] = None] \in [Piece -> Node \cup {None}]
  BY DEF SwarmFile
<1>2. ASSUME NEW g \in [Piece -> Node \cup {None}]
      PROVE  LET u == [o EXCEPT !.inflight = g]
                 q == [u EXCEPT !.have = @ \cup {i}]
             IN  /\ q \in SwarmFile /\ q.have = o.have \cup {i} /\ q.holds = o.holds
                 /\ q.peers = o.peers /\ q.cancelled = o.cancelled /\ q.live = o.live
  BY DEF SwarmFile
<1> QED BY <1>1, <1>2 DEF Unasked

LEMMA UnbornType ==
    /\ Unborn \in SwarmFile /\ Unborn.have = {} /\ Unborn.peers = {} /\ ~Unborn.live
    /\ ~Unborn.cancelled /\ \A p \in Node : Unborn.holds[p] = {}
    /\ LET q == [Unborn EXCEPT !.live = TRUE, !.have = Piece, !.open = TRUE]
       IN  /\ q \in SwarmFile /\ q.have = Piece /\ q.peers = {} /\ ~q.cancelled
           /\ \A p \in Node : q.holds[p] = {}
    /\ \A ps \in SUBSET Node, h \in [Node -> SUBSET Piece] :
          LET q == [Unborn EXCEPT !.live = TRUE, !.open = TRUE, !.peers = ps, !.holds = h]
          IN  /\ q \in SwarmFile /\ q.have = {} /\ q.peers = ps /\ q.holds = h
              /\ ~q.cancelled
BY DEF Unborn, SwarmFile

(* A node's file is replaced, and what is shown of it.                      *)
LEMMA SfEffect ==
    ASSUME TypeOK, NEW n \in Node, NEW q \in SwarmFile, n \notin q.peers,
           sf' = [sf EXCEPT ![n] = q]
    PROVE  /\ sf' \in [Node -> SwarmFile]
           /\ \A x \in Node : x \notin sf'[x].peers
           /\ \A x \in Node : sf'[x] = IF x = n THEN q ELSE sf[x]
<1>1. sf \in [Node -> SwarmFile] /\ \A x \in Node : x \notin sf[x].peers
  BY DEF TypeOK
<1>2. /\ sf' \in [Node -> SwarmFile]
      /\ \A x \in Node : sf'[x] = IF x = n THEN q ELSE sf[x]
  BY <1>1
<1> QED BY <1>1, <1>2

LEMMA UiEffect ==
    ASSUME TypeOK, NEW n \in Node, NEW s \in Progress, ui' = [ui EXCEPT ![n] = s]
    PROVE  /\ ui' \in [Node -> Progress]
           /\ \A x \in Node : ui'[x] = IF x = n THEN s ELSE ui[x]
BY DEF TypeOK

LEMMA SendsEffect ==
    ASSUME TypeOK, NEW n \in Node, NEW targets, NEW type, NEW pieces,
           [type |-> type, pieces |-> pieces] \in Frame,
           Sends(n, targets, type, pieces)
    PROVE  /\ ctl' \in [Node -> [Node -> Seq(Frame)]]
           /\ \A x \in Node, y \in Node :
                 \/ ctl'[x][y] = ctl[x][y]
                 \/ /\ x = n
                    /\ ctl'[x][y] = Append(ctl[x][y], [type |-> type, pieces |-> pieces])
<1> DEFINE f == [type |-> type, pieces |-> pieces]
           row == [p \in Node |-> IF p \in targets /\ Linked(n, p)
                                  THEN Append(ctl[n][p], f) ELSE ctl[n][p]]
<1>1. ctl' = [ctl EXCEPT ![n] = row] /\ ctl \in [Node -> [Node -> Seq(Frame)]] /\ f \in Frame
  BY DEF Sends, TypeOK
<1> HIDE DEF f
<1>2. /\ row \in [Node -> Seq(Frame)]
      /\ \A y \in Node : row[y] = ctl[n][y] \/ row[y] = Append(ctl[n][y], f)
  BY <1>1
<1> HIDE DEF row
<1>3. /\ ctl' \in [Node -> [Node -> Seq(Frame)]]
      /\ \A x \in Node : ctl'[x] = IF x = n THEN row ELSE ctl[x]
  BY <1>1, <1>2
<1>4. \A x \in Node, y \in Node :
          \/ ctl'[x][y] = ctl[x][y]
          \/ /\ x = n
             /\ ctl'[x][y] = Append(ctl[x][y], f)
  BY <1>2, <1>3
<1> QED BY <1>3, <1>4 DEF f

LEMMA TakesEffect ==
    ASSUME TypeOK, NEW n \in Node, NEW p \in Node, NEW type, Takes(n, p, type)
    PROVE  /\ ctl' \in [Node -> [Node -> Seq(Frame)]] /\ n # p
           /\ \A x \in Node, y \in Node :
                 ctl'[x][y] = IF x = p /\ y = n THEN Tail(ctl[x][y]) ELSE ctl[x][y]
           /\ ctl[p][n] # <<>> /\ Head(ctl[p][n]) \in Frame
           /\ Head(ctl[p][n]).type = type /\ Pieces(n, p) \in SUBSET Piece
<1>0. /\ ctl \in [Node -> [Node -> Seq(Frame)]] /\ ctl[p][n] \in Seq(Frame)
      /\ up \subseteq Pair
  BY DEF TypeOK
<1>1. /\ ctl[p][n] # <<>> /\ Head(ctl[p][n]).type = type /\ {n, p} \in up
      /\ ctl' = Put(ctl, p, n, Tail(ctl[p][n]))
  BY DEF Takes, Linked
<1>2. Tail(ctl[p][n]) \in Seq(Frame) /\ Head(ctl[p][n]) \in Frame
  BY <1>0, <1>1
<1>3. /\ ctl' \in [Node -> [Node -> Seq(Frame)]]
      /\ \A x \in Node, y \in Node :
            ctl'[x][y] = IF x = p /\ y = n THEN Tail(ctl[p][n]) ELSE ctl[x][y]
  <2> DEFINE t == Tail(ctl[p][n])
  <2>1. t \in Seq(Frame) /\ ctl' = Put(ctl, p, n, t)
    BY <1>1, <1>2
  <2> HIDE DEF t
  <2>2. /\ Put(ctl, p, n, t) \in [Node -> [Node -> Seq(Frame)]]
        /\ \A x \in Node, y \in Node :
              Put(ctl, p, n, t)[x][y] = IF x = p /\ y = n THEN t ELSE ctl[x][y]
    BY <1>0, <2>1 DEF Put
  <2>3. t = Tail(ctl[p][n])
    BY DEF t
  <2> QED BY <2>1, <2>2, <2>3
<1>4. n # p
  BY <1>0, <1>1, Constants
<1>5. Pieces(n, p) \in SUBSET Piece
  BY <1>2 DEF Pieces, Frame
<1> QED BY <1>1, <1>2, <1>3, <1>4, <1>5

LEMMA WorksEffect ==
    ASSUME TypeOK, NEW m \in Member, NEW p \in Node, NEW j \in Job,
           job' = Put(job, m, p, j)
    PROVE  /\ job' \in [Member -> [Node -> Job]]
           /\ \A x \in Member, y \in Node :
                 job'[x][y] = IF x = m /\ y = p THEN j ELSE job[x][y]
<1>1. job \in [Member -> [Node -> Job]]
  BY DEF TypeOK
<1>2. /\ Put(job, m, p, j) \in [Member -> [Node -> Job]]
      /\ \A x \in Member, y \in Node :
            Put(job, m, p, j)[x][y] = IF x = m /\ y = p THEN j ELSE job[x][y]
  BY <1>1 DEF Put
<1> QED BY <1>2

-----------------------------------------------------------------------------
(* The inductive invariant.                                                 *)

(* What node p may say it holds, by the files s.                            *)
Told(s, p) == IF p = Origin THEN Piece ELSE s[p].have

(* Member m has taken no part in the transfer yet.                          *)
Fresh(m) ==
    /\ sf[m].have = {} /\ ~sf[m].live /\ ~sf[m].cancelled
    /\ disk[m] = "none" /\ m \notin cancelling
    /\ \A p \in Node : job[m][p].step = "free"

Offers(n, p, i) == i \in 1..Len(ctl[n][p]) /\ ctl[n][p][i].type = "offer"

(* An offer reaches a member once, before it takes part: a second one would *)
(* have it begin again with nothing, after others were told what it holds.  *)
OfferedOnce ==
    /\ \A n, p \in Node : \A i : Offers(n, p, i) =>
          /\ n = Origin /\ i = 1 /\ ui[Origin] # "none"
          /\ p \notin offer
          /\ p \in Member /\ Fresh(p)
    /\ \A m \in offer : Fresh(m) /\ ui[Origin] # "none"
    /\ ui[Origin] = "none" => \A m \in Member : Fresh(m)

(* No frame advertises more than its sender holds.                          *)
Honest ==
    \A n, p \in Node : \A i \in 1..Len(ctl[n][p]) :
        ctl[n][p][i].pieces \subseteq Told(sf, n)

(* Only a whole file is about to get its final name.                        *)
RenamesWhole ==
    \A m \in Member, p \in Node :
        job[m][p].step = "rename" => sf[m].have = Piece

(* An origin that is done knows the transfer no more.                       *)
DoneIsOver == ui[Origin] = "done" => ~sf[Origin].live

(* Who takes part has a copy, or gave one up.                               *)
Begun == \A m \in Member : Fresh(m) \/ Copy(m) # "none"

(* The flag is set before the cancel is sent.                               *)
CancelIsFlagged == \A m \in Member : m \in cancelling => sf[m].cancelled

IInv ==
    /\ TypeOK /\ OfferedOnce /\ Honest /\ BeliefsAreTrue
    /\ RenamesWhole /\ SavedIsWhole
    /\ DoneIsOver /\ DoneIsTrue /\ CancelCleansUp
    /\ Begun /\ CancelIsFlagged

(* What every step keeps to.                                                *)
HaveGrows == \A x \in Member : sf[x].have \subseteq sf'[x].have

(* Frames are added at the end, taken from the front or lost.               *)
Appends(x, y) ==
    \E f \in Frame : /\ f.type # "offer" /\ f.pieces \subseteq Told(sf', x)
                     /\ ctl'[x][y] = Append(ctl[x][y], f)

FirstOffer(x, y) ==
    /\ x = Origin /\ y \in Member
    /\ ui[Origin] = "none" /\ ui'[Origin] # "none"
    /\ ctl'[x][y] = <<[type |-> "offer", pieces |-> {}]>>

FramesStep ==
    \A x, y \in Node :
        \/ ctl'[x][y] = ctl[x][y] \/ ctl'[x][y] = <<>>
        \/ /\ ctl[x][y] # <<>>
           /\ ctl'[x][y] = Tail(ctl[x][y])
        \/ Appends(x, y) \/ FirstOffer(x, y)

OfferStep ==
    \A x \in offer' :
        \/ x \in offer
        \/ /\ Offers(Origin, x, 1)
           /\ ctl'[Origin][x] = Tail(ctl[Origin][x])

FreshStep ==
    \A x \in Member : Fresh(x) =>
        \/ Fresh(x)'
        \/ x \in offer /\ x \notin offer' /\ Copy(x)' = "part"

BeliefStep ==
    \A x, p \in Node : \/ sf'[x].holds[p] \subseteq sf[x].holds[p]
                       \/ sf'[x].holds[p] \subseteq Told(sf', p)

(* One member's copy at most moves, and nobody gets a piece meanwhile.      *)
Moves(m) ==
    \/ Copy(m) = "none" /\ Copy(m)' = "part"
    \/ Copy(m) = "part" /\ Copy(m)' = "gone"
    \/ Copy(m) = "part" /\ Copy(m)' = "saved" /\ sf[m].have = Piece

CopyStep ==
    \/ \A x \in Member : Copy(x)' = Copy(x)
    \/ /\ \A x \in Member : sf'[x].have = sf[x].have
       /\ \E m \in Member : /\ Moves(m)
                            /\ \A x \in Member \ {m} : Copy(x)' = Copy(x)

(* One member at most gets one piece.                                       *)
PieceStep ==
    \/ \A x \in Member : sf'[x].have = sf[x].have
    \/ /\ \A x \in Member : Copy(x)' = Copy(x)
       /\ \E m \in Member, i \in Piece :
             /\ sf'[m].have = sf[m].have \cup {i} /\ Copy(m) # "none"
             /\ \A x \in Member \ {m} : sf'[x].have = sf[x].have

FileStep ==
    /\ CopyStep
    /\ \A m \in Member :
          /\ \A p \in Node : job'[m][p].step = "rename" =>
                job[m][p].step = "rename" \/ sf[m].have = Piece
          /\ disk'[m] = "saved" => disk[m] = "saved" \/ sf[m].have = Piece
          /\ (sf'[m].cancelled /\ m \notin cancelling' /\ disk'[m] = "part")
                => (sf[m].cancelled /\ m \notin cancelling /\ disk[m] = "part")
          /\ m \in cancelling' =>
                sf'[m].cancelled \/ (m \in cancelling /\ ~sf[m].cancelled)

UiStep ==
    /\ ui[Origin] # "none" => ui'[Origin] # "none"
    /\ ui'[Origin] = "done" =>
          \/ /\ ui[Origin] = "done"
             /\ sf'[Origin].peers \subseteq sf[Origin].peers
             /\ sf'[Origin].live => sf[Origin].live
          \/ /\ ~sf'[Origin].live
             /\ \A p \in sf'[Origin].peers : sf[p].have = Piece

Evolves ==
    /\ TypeOK' /\ HaveGrows /\ FramesStep /\ OfferStep /\ FreshStep
    /\ BeliefStep /\ FileStep /\ PieceStep /\ UiStep

LEMMA ToldGrows ==
    ASSUME HaveGrows, NEW p \in Node
    PROVE  Told(sf, p) \subseteq Told(sf', p)
BY Constants DEF HaveGrows, Told

(* Where an offer that is under way after a step comes from.                *)
LEMMA OffersStep ==
    ASSUME IInv, Evolves, NEW n \in Node, NEW p \in Node, NEW i, Offers(n, p, i)'
    PROVE  \/ Offers(n, p, i) /\ ~(ctl[n][p] # <<>> /\ ctl'[n][p] = Tail(ctl[n][p]))
           \/ i = 1 /\ FirstOffer(n, p)
<1>1. /\ ctl[n][p] \in Seq(Frame) /\ ctl'[n][p] \in Seq(Frame)
      /\ i \in 1..Len(ctl'[n][p]) /\ ctl'[n][p][i].type = "offer"
  BY DEF IInv, Evolves, TypeOK, Offers
<1>2. \A j : Offers(n, p, j) => j = 1
  BY DEF IInv, OfferedOnce
<1>3. ctl'[n][p] # <<>>
  BY <1>1
<1>4. CASE ctl[n][p] # <<>> /\ ctl'[n][p] = Tail(ctl[n][p])
  <2>1. i + 1 \in 1..Len(ctl[n][p]) /\ ctl[n][p][i + 1].type = "offer" /\ i + 1 # 1
    BY <1>1, <1>4
  <2> QED BY <2>1, <1>2 DEF Offers
<1>5. CASE Appends(n, p)
  <2>1. PICK f \in Frame : f.type # "offer" /\ ctl'[n][p] = Append(ctl[n][p], f)
    BY <1>5 DEF Appends
  <2>2. i # Len(ctl[n][p]) + 1 /\ Len(ctl'[n][p]) = Len(ctl[n][p]) + 1
    BY <1>1, <2>1
  <2>3. i \in 1..Len(ctl[n][p]) /\ ctl[n][p][i] = ctl'[n][p][i]
    BY <1>1, <2>1, <2>2
  <2>4. ASSUME ctl[n][p] # <<>> PROVE ctl'[n][p] # Tail(ctl[n][p])
    <3>1. Len(Tail(ctl[n][p])) = Len(ctl[n][p]) - 1 /\ Len(ctl[n][p]) \in Nat
      BY <1>1, <2>4
    <3>2. Len(ctl'[n][p]) # Len(Tail(ctl[n][p]))
      BY <2>2, <3>1
    <3> QED BY <3>2
  <2> QED BY <1>1, <2>3, <2>4 DEF Offers
<1>6. CASE FirstOffer(n, p)
  BY <1>1, <1>6 DEF FirstOffer
<1>7. CASE ctl'[n][p] = ctl[n][p]
  BY <1>1, <1>4, <1>7 DEF Offers
<1> QED BY <1>3, <1>4, <1>5, <1>6, <1>7 DEF Evolves, FramesStep

LEMMA OfferedKept ==
    ASSUME IInv, Evolves
    PROVE  OfferedOnce'
<1>1. offer \subseteq Member /\ offer' \subseteq Member /\ Member \subseteq Node
  BY Constants DEF IInv, Evolves, TypeOK
<1>2. ASSUME NEW n \in Node, NEW p \in Node, NEW i, Offers(n, p, i)'
      PROVE  /\ n = Origin /\ i = 1 /\ ui'[Origin] # "none"
             /\ p \notin offer' /\ p \in Member /\ Fresh(p)'
  <2>1. CASE Offers(n, p, i) /\ ~(ctl[n][p] # <<>> /\ ctl'[n][p] = Tail(ctl[n][p]))
    <3>1. /\ n = Origin /\ i = 1 /\ ui[Origin] # "none"
          /\ p \notin offer /\ p \in Member /\ Fresh(p)
      BY <2>1 DEF IInv, OfferedOnce
    <3>2. ctl[n][p] # <<>>
      BY <2>1 DEF Offers
    <3>3. p \notin offer'
      BY <2>1, <3>1, <3>2 DEF Evolves, OfferStep
    <3>4. Fresh(p)'
      BY <3>1 DEF Evolves, FreshStep
    <3> QED BY <3>1, <3>3, <3>4 DEF Evolves, UiStep
  <2>2. CASE i = 1 /\ FirstOffer(n, p)
    <3>1. n = Origin /\ ui[Origin] = "none" /\ ui'[Origin] # "none" /\ p \in Member
      BY <2>2 DEF FirstOffer
    <3>2. Fresh(p) /\ p \notin offer /\ \A j : ~Offers(n, p, j)
      BY <3>1 DEF IInv, OfferedOnce
    <3>3. p \notin offer'
      BY <3>1, <3>2 DEF Evolves, OfferStep
    <3>4. Fresh(p)'
      BY <3>1, <3>2 DEF Evolves, FreshStep
    <3> QED BY <2>2, <3>1, <3>3, <3>4
  <2> QED BY <1>2, <2>1, <2>2, OffersStep
<1>3. ASSUME NEW m \in offer' PROVE Fresh(m)' /\ ui'[Origin] # "none"
  <2>1. CASE m \in offer
    BY <1>1, <1>3, <2>1 DEF IInv, OfferedOnce, Evolves, FreshStep, UiStep
  <2>2. CASE m \notin offer
    <3>1. Offers(Origin, m, 1)
      BY <1>3, <2>2 DEF Evolves, OfferStep
    <3>2. Fresh(m) /\ ui[Origin] # "none"
      BY <1>1, <3>1, Constants DEF IInv, OfferedOnce
    <3> QED BY <1>1, <1>3, <2>2, <3>2 DEF Evolves, FreshStep, UiStep
  <2> QED BY <2>1, <2>2
<1>4. ASSUME ui'[Origin] = "none", NEW m \in Member PROVE Fresh(m)'
  <2>1. ui[Origin] = "none"
    BY <1>4 DEF Evolves, UiStep
  <2>2. Fresh(m) /\ m \notin offer
    BY <2>1 DEF IInv, OfferedOnce
  <2> QED BY <2>2 DEF Evolves, FreshStep
<1> QED BY <1>2, <1>3, <1>4 DEF OfferedOnce

LEMMA HonestKept ==
    ASSUME IInv, Evolves
    PROVE  Honest'
<1>1. ASSUME NEW n \in Node, NEW p \in Node, NEW i \in 1..Len(ctl'[n][p])
      PROVE  ctl'[n][p][i].pieces \subseteq Told(sf', n)
  <2>1. ctl[n][p] \in Seq(Frame) /\ ctl'[n][p] \in Seq(Frame)
    BY DEF IInv, Evolves, TypeOK
  <2>2. \A j \in 1..Len(ctl[n][p]) : ctl[n][p][j].pieces \subseteq Told(sf', n)
    BY ToldGrows DEF IInv, Honest, Evolves
  <2>3. CASE ctl'[n][p] = ctl[n][p]
    BY <2>2, <2>3
  <2>4. CASE ctl'[n][p] = <<>>
    BY <2>4
  <2>5. CASE ctl[n][p] # <<>> /\ ctl'[n][p] = Tail(ctl[n][p])
    <3>1. i + 1 \in 1..Len(ctl[n][p]) /\ ctl'[n][p][i] = ctl[n][p][i + 1]
      BY <2>1, <2>5
    <3> QED BY <2>2, <3>1
  <2>6. CASE Appends(n, p)
    <3>1. PICK f \in Frame : /\ f.pieces \subseteq Told(sf', n)
                             /\ ctl'[n][p] = Append(ctl[n][p], f)
      BY <2>6 DEF Appends
    <3>2. \/ ctl'[n][p][i] = f
          \/ i \in 1..Len(ctl[n][p]) /\ ctl'[n][p][i] = ctl[n][p][i]
      BY <2>1, <3>1
    <3> QED BY <2>2, <3>1, <3>2
  <2>7. CASE FirstOffer(n, p)
    BY <2>7 DEF FirstOffer
  <2> QED BY <2>3, <2>4, <2>5, <2>6, <2>7 DEF Evolves, FramesStep
<1> QED BY <1>1 DEF Honest, Told

LEMMA FilesKept ==
    ASSUME IInv, Evolves
    PROVE  BeliefsAreTrue' /\ RenamesWhole' /\ SavedIsWhole' /\ CancelCleansUp'
<1>1. HaveGrows /\ sf' \in [Node -> SwarmFile] /\ Member \subseteq Node
  BY Constants DEF Evolves, TypeOK
<1>2. \A x \in Member : sf[x].have = Piece => sf'[x].have = Piece
  <2>1. \A x \in Member : sf'[x].have \subseteq Piece
    BY <1>1 DEF SwarmFile
  <2> QED BY <1>1, <2>1 DEF HaveGrows
<1>3. BeliefsAreTrue'
  <2>1. ASSUME NEW x \in Node, NEW p \in Node
        PROVE  sf'[x].holds[p] \subseteq Told(sf', p)
    <3>1. sf[x].holds[p] \subseteq Told(sf, p)
      BY DEF IInv, BeliefsAreTrue, Told
    <3> QED BY <1>1, <3>1, ToldGrows DEF Evolves, BeliefStep
  <2> QED BY <2>1 DEF BeliefsAreTrue, Told
<1>4. RenamesWhole'
  BY <1>2 DEF IInv, RenamesWhole, Evolves, FileStep
<1>5. SavedIsWhole'
  BY <1>2 DEF IInv, SavedIsWhole, Evolves, FileStep
<1>6. CancelCleansUp'
  BY DEF IInv, CancelCleansUp, Evolves, FileStep
<1> QED BY <1>3, <1>4, <1>5, <1>6

LEMMA DoneKept ==
    ASSUME IInv, Evolves
    PROVE  DoneIsOver' /\ DoneIsTrue'
<1>1. HaveGrows /\ sf' \in [Node -> SwarmFile] /\ Member \subseteq Node
  BY Constants DEF Evolves, TypeOK
<1>2. \A x \in Member : sf[x].have = Piece => sf'[x].have = Piece
  <2>1. \A x \in Member : sf'[x].have \subseteq Piece
    BY <1>1 DEF SwarmFile
  <2> QED BY <1>1, <2>1 DEF HaveGrows
<1>3. \A p \in sf'[Origin].peers : p \in Member
  <2>1. sf'[Origin].peers \subseteq Node /\ Origin \notin sf'[Origin].peers
    BY Constants DEF Evolves, TypeOK, SwarmFile
  <2> QED BY <2>1, Constants
<1>4. DoneIsOver'
  BY DEF IInv, DoneIsOver, Evolves, UiStep
<1>5. ASSUME ui'[Origin] = "done", NEW p \in sf'[Origin].peers PROVE sf'[p].have = Piece
  <2>1. sf[p].have = Piece
    BY <1>5 DEF IInv, DoneIsTrue, Evolves, UiStep
  <2> QED BY <1>2, <1>3, <2>1
<1> QED BY <1>4, <1>5 DEF DoneIsTrue

LEMMA BegunKept ==
    ASSUME IInv, Evolves
    PROVE  Begun' /\ CancelIsFlagged'
<1>1. ASSUME NEW m \in Member, Copy(m) # "none" PROVE Copy(m)' # "none"
  BY <1>1 DEF Evolves, FileStep, CopyStep, Moves
<1>2. ASSUME NEW m \in Member, Fresh(m) PROVE Fresh(m)' \/ Copy(m)' # "none"
  BY <1>2 DEF Evolves, FreshStep
<1>3. Begun'
  BY <1>1, <1>2 DEF IInv, Begun
<1>4. CancelIsFlagged'
  BY DEF IInv, CancelIsFlagged, Evolves, FileStep
<1> QED BY <1>3, <1>4

LEMMA Keeps ==
    ASSUME IInv, Evolves
    PROVE  IInv'
BY OfferedKept, HonestKept, FilesKept, DoneKept, BegunKept DEF IInv, Evolves

-----------------------------------------------------------------------------
(* One step of each kind.                                                   *)

(* Whoever takes no part stays out of it.                                   *)
StaysOut ==
    \A m \in Member : Fresh(m) =>
        /\ disk'[m] = "none" /\ m \notin cancelling' /\ ~sf'[m].cancelled
        /\ \A p \in Node : job'[m][p].step = "free"

(* No node has other pieces than before, or knows the transfer again.       *)
SamePieces ==
    \A x \in Node : sf'[x].have = sf[x].have /\ (sf'[x].live => sf[x].live)

LEMMA Quietly ==
    ASSUME IInv, TypeOK', SamePieces, StaysOut, BeliefStep, FramesStep, OfferStep,
           FileStep, UiStep
    PROVE  Evolves
<1>1. Member \subseteq Node
  BY Constants
<1>2. HaveGrows
  BY <1>1 DEF SamePieces, HaveGrows
<1>3. FreshStep
  BY <1>1 DEF SamePieces, StaysOut, FreshStep, Fresh
<1>4. PieceStep
  BY <1>1 DEF SamePieces, PieceStep
<1> QED BY <1>2, <1>3, <1>4 DEF Evolves

LEMMA CopiesSame ==
    ASSUME disk' = disk, \A x \in Member : sf'[x].cancelled = sf[x].cancelled
    PROVE  (\A x \in Member : Copy(x)' = Copy(x)) /\ CopyStep
BY DEF Copy, CopyStep

(* The copy of a member whose transfer is cancelled.                        *)
LEMMA GivesUp ==
    ASSUME IInv, NEW n \in Member, ~Fresh(n), SamePieces, sf'[n].cancelled,
           \A x \in Member \ {n} : sf'[x].cancelled = sf[x].cancelled,
           \/ disk' = disk
           \/ disk' = [disk EXCEPT ![n] = IF @ = "part" THEN "none" ELSE @]
    PROVE  CopyStep
<1>1. Member \subseteq Node /\ disk \in [Member -> {"none", "part", "saved"}]
  BY Constants DEF IInv, TypeOK
<1>2. /\ \A x \in Member \ {n} : disk'[x] = disk[x]
      /\ disk'[n] = disk[n] \/ (disk[n] = "part" /\ disk'[n] = "none")
  BY <1>1
<1>3. \A x \in Member \ {n} : Copy(x)' = Copy(x)
  BY <1>2 DEF Copy
<1>4. Copy(n) # "none"
  BY DEF IInv, Begun
<1>5. Copy(n)' = Copy(n) \/ (Copy(n) = "part" /\ Copy(n)' = "gone")
  BY <1>1, <1>2, <1>4 DEF Copy
<1>6. \A x \in Member : sf'[x].have = sf[x].have
  BY <1>1 DEF SamePieces
<1> QED BY <1>3, <1>5, <1>6 DEF CopyStep, Moves

LEMMA FilesQuiet ==
    ASSUME UNCHANGED <<disk, cancelling, job>>,
           \A x \in Member : sf'[x].cancelled = sf[x].cancelled
    PROVE  StaysOut /\ FileStep
BY CopiesSame DEF StaysOut, FileStep, Fresh

LEMMA FramesQuiet == ctl' = ctl => FramesStep
BY DEF FramesStep

LEMMA OffersQuiet == offer' = offer => OfferStep
BY DEF OfferStep

(* One file changes mildly.                                                 *)
LEMMA Mildly ==
    ASSUME IInv, NEW n \in Node, NEW q, Mild(sf[n], q), sf' = [sf EXCEPT ![n] = q]
    PROVE  /\ sf' \in [Node -> SwarmFile] /\ \A x \in Node : x \notin sf'[x].peers
           /\ \A x \in Node : sf'[x] = IF x = n THEN q ELSE sf[x]
           /\ SamePieces /\ BeliefStep
           /\ sf'[Origin].peers \subseteq sf[Origin].peers
           /\ sf'[Origin].live => sf[Origin].live
<1>1. TypeOK /\ q \in SwarmFile /\ n \notin q.peers
  BY DEF IInv, TypeOK, Mild
<1>2. /\ sf' \in [Node -> SwarmFile] /\ \A x \in Node : x \notin sf'[x].peers
      /\ \A x \in Node : sf'[x] = IF x = n THEN q ELSE sf[x]
  BY <1>1, SfEffect
<1>3. SamePieces
  BY <1>2 DEF SamePieces, Mild
<1>4. BeliefStep
  BY <1>2 DEF BeliefStep, Mild
<1>5. /\ sf'[Origin].peers \subseteq sf[Origin].peers
      /\ sf'[Origin].live => sf[Origin].live
  BY <1>2, Constants DEF Mild
<1> QED BY <1>2, <1>3, <1>4, <1>5

LEMMA FilesSame ==
    ASSUME sf' = sf
    PROVE  /\ SamePieces /\ BeliefStep
           /\ \A x \in Member : sf'[x].cancelled = sf[x].cancelled
           /\ ui' = ui => UiStep
BY DEF SamePieces, BeliefStep, UiStep

(* What is shown: "done" is never an update of its own.                     *)
LEMMA ShowsUi ==
    ASSUME IInv, NEW n \in Node, NEW s \in Progress \ {"none"}, ui' = [ui EXCEPT ![n] = s],
           n = Origin => s # "done",
           n # Origin => sf'[Origin] = sf[Origin]
    PROVE  UiStep /\ ui' \in [Node -> Progress]
<1>1. /\ ui' \in [Node -> Progress]
      /\ \A x \in Node : ui'[x] = IF x = n THEN s ELSE ui[x]
  BY UiEffect DEF IInv
<1> QED BY <1>1, Constants DEF UiStep

LEMMA UiSame ==
    ASSUME ui' = ui, sf'[Origin].peers \subseteq sf[Origin].peers,
           sf'[Origin].live => sf[Origin].live
    PROVE  UiStep
BY DEF UiStep

LEMMA SendsFrames ==
    ASSUME TypeOK, NEW n \in Node, NEW targets,
           NEW type \in {"reject", "have", "cancel"}, NEW pieces \in SUBSET Piece,
           pieces \subseteq Told(sf', n),
           Sends(n, targets, type, pieces)
    PROVE  ctl' \in [Node -> [Node -> Seq(Frame)]] /\ FramesStep
<1> DEFINE f == [type |-> type, pieces |-> pieces]
<1>1. f \in Frame /\ f.type # "offer" /\ f.pieces \subseteq Told(sf', n)
  BY DEF Frame
<1>2. /\ ctl' \in [Node -> [Node -> Seq(Frame)]]
      /\ \A x \in Node, y \in Node :
            \/ ctl'[x][y] = ctl[x][y]
            \/ /\ x = n
               /\ ctl'[x][y] = Append(ctl[x][y], f)
  BY <1>1, SendsEffect
<1> HIDE DEF f
<1> QED BY <1>1, <1>2 DEF FramesStep, Appends

LEMMA TakesFrames ==
    ASSUME TypeOK, NEW n \in Node, NEW p \in Node, NEW type, Takes(n, p, type)
    PROVE  /\ FramesStep /\ ctl' \in [Node -> [Node -> Seq(Frame)]]
           /\ n # p /\ Pieces(n, p) \in SUBSET Piece
<1>1. /\ ctl' \in [Node -> [Node -> Seq(Frame)]] /\ n # p
      /\ \A x \in Node, y \in Node :
            ctl'[x][y] = IF x = p /\ y = n THEN Tail(ctl[x][y]) ELSE ctl[x][y]
      /\ ctl[p][n] # <<>> /\ Pieces(n, p) \in SUBSET Piece
  BY TakesEffect
<1> QED BY <1>1 DEF FramesStep

(* What a frame says its sender holds, the sender holds.                    *)
LEMMA TakenIsTrue ==
    ASSUME IInv, NEW n \in Node, NEW p \in Node, NEW type, Takes(n, p, type)
    PROVE  Pieces(n, p) \subseteq Told(sf, p)
<1>1. ctl[p][n] \in Seq(Frame) /\ ctl[p][n] # <<>>
  BY DEF IInv, TypeOK, Takes
<1>2. 1 \in 1..Len(ctl[p][n]) /\ Head(ctl[p][n]) = ctl[p][n][1]
  BY <1>1
<1> QED BY <1>2 DEF IInv, Honest, Pieces

LEMMA SendEvolves ==
    ASSUME IInv, NEW reached \in SUBSET Member, Send(reached)
    PROVE  Evolves
<1>1. Origin \in Node /\ Member \subseteq Node /\ TypeOK /\ ui[Origin] = "none"
  BY Constants DEF IInv, Send
<1>2. /\ UNCHANGED <<offer, disk, loop, job, req, pcs, cancelling, used>>
      /\ \A m \in Member : m # Origin
  BY Constants DEF Send
<1>3. PICK q \in SwarmFile, s \in {"failed", "offering"} :
         /\ Becomes(Origin, q, s) /\ q.peers = {} /\ \A p \in Node : q.holds[p] = {}
  <2>1. CASE reached = {}
    BY <2>1, UnbornType DEF Send
  <2>2. CASE reached # {}
    BY <2>2, UnbornType DEF Send
  <2> QED BY <2>1, <2>2
<1>4. /\ sf' \in [Node -> SwarmFile] /\ \A x \in Node : x \notin sf'[x].peers
      /\ \A x \in Node : sf'[x] = IF x = Origin THEN q ELSE sf[x]
  <2>1. sf' = [sf EXCEPT ![Origin] = q] /\ Origin \notin q.peers
    BY <1>3 DEF Becomes
  <2> QED BY <1>1, <2>1, SfEffect
<1>5. ui' \in [Node -> Progress] /\ ui'[Origin] = s
  BY <1>1, <1>3, UiEffect DEF Becomes, Progress, Terminal
<1>6. up' \subseteq Pair
  <2>1. \A m \in Member : {Origin, m} \in Pair
    BY <1>1, <1>2, Constants
  <2> QED BY <1>1, <2>1 DEF Send, TypeOK
<1>7. ctl' \in [Node -> [Node -> Seq(Frame)]] /\ FramesStep
  <2>1. CASE reached = {}
    BY <1>1, <2>1, FramesQuiet DEF Send, TypeOK
  <2>2. CASE reached # {}
    <3> DEFINE f == [type |-> "offer", pieces |-> {}]
               row == [p \in Node |-> IF p \in reached THEN <<f>> ELSE ctl[Origin][p]]
    <3>1. f \in Frame /\ ctl' = [ctl EXCEPT ![Origin] = row]
      BY <2>2 DEF Send, Frame
    <3> HIDE DEF f
    <3>2. /\ row \in [Node -> Seq(Frame)]
          /\ \A y \in Node : \/ row[y] = ctl[Origin][y]
                             \/ y \in Member /\ row[y] = <<f>>
      BY <1>1, <3>1 DEF TypeOK
    <3> HIDE DEF row
    <3>3. /\ ctl' \in [Node -> [Node -> Seq(Frame)]]
          /\ \A x \in Node : ctl'[x] = IF x = Origin THEN row ELSE ctl[x]
      BY <1>1, <3>1, <3>2 DEF TypeOK
    <3>4. \A x, y \in Node : ctl'[x][y] = ctl[x][y] \/ FirstOffer(x, y)
      <4>1. ASSUME NEW x \in Node, NEW y \in Node, ctl'[x][y] # ctl[x][y]
            PROVE  FirstOffer(x, y)
        <5>1. x = Origin /\ y \in Member /\ ctl'[x][y] = <<f>>
          BY <3>2, <3>3, <4>1
        <5>2. ui'[Origin] # "none"
          BY <1>5
        <5> QED BY <1>1, <5>1, <5>2 DEF FirstOffer, f
      <4> QED BY <4>1
    <3> QED BY <3>3, <3>4 DEF FramesStep
  <2> QED BY <2>1, <2>2
<1>8. TypeOK'
  BY <1>1, <1>2, <1>4, <1>5, <1>6, <1>7 DEF TypeOK
<1>9. HaveGrows /\ FreshStep
  BY <1>1, <1>2, <1>4 DEF HaveGrows, FreshStep, Fresh
<1>10. BeliefStep
  BY <1>1, <1>3, <1>4 DEF BeliefStep
<1>11. FileStep /\ PieceStep
  BY <1>1, <1>2, <1>4, FilesQuiet DEF PieceStep
<1>12. UiStep
  BY <1>1, <1>5 DEF UiStep
<1> QED BY <1>2, <1>7, <1>8, <1>9, <1>10, <1>11, <1>12, OffersQuiet DEF Evolves

LEMMA AcceptOfferEvolves ==
    ASSUME IInv, NEW m \in Member, AcceptOffer(m)
    PROVE  Evolves
<1>1. /\ m \in Node /\ m # Origin /\ Member \subseteq Node /\ Origin \in Node
      /\ TypeOK /\ Fresh(m) /\ m \in offer
  BY Constants DEF IInv, OfferedOnce, AcceptOffer
<1>2. /\ UNCHANGED <<job, req, pcs, up, cancelling, used>>
      /\ offer' = offer \ {m}
      /\ disk' = [disk EXCEPT ![m] = "part"] /\ loop' = [loop EXCEPT ![m] = "run"]
  BY DEF AcceptOffer
<1>3. PICK q \in SwarmFile :
         /\ Becomes(m, q, "active") /\ q.have = {} /\ m \notin q.peers /\ ~q.cancelled
         /\ \A p \in Node : q.holds[p] \subseteq IF p = Origin THEN Piece ELSE {}
  <2> DEFINE h == [p \in Node |-> IF p = Origin THEN Piece ELSE {}]
             r == [Unborn EXCEPT !.live = TRUE, !.open = TRUE, !.peers = Others(m),
                                 !.holds = h]
  <2>1. h \in [Node -> SUBSET Piece] /\ Others(m) \in SUBSET Node /\ m \notin Others(m)
    BY DEF Others
  <2>2. /\ r \in SwarmFile /\ r.have = {} /\ r.peers = Others(m) /\ r.holds = h
        /\ ~r.cancelled
    BY <2>1, UnbornType
  <2>3. Becomes(m, r, "active")
    BY DEF AcceptOffer
  <2>4. \A p \in Node : r.holds[p] \subseteq IF p = Origin THEN Piece ELSE {}
    BY <2>2
  <2> HIDE DEF r
  <2> QED BY <2>1, <2>2, <2>3, <2>4
<1>4. /\ sf' \in [Node -> SwarmFile] /\ \A x \in Node : x \notin sf'[x].peers
      /\ \A x \in Node : sf'[x] = IF x = m THEN q ELSE sf[x]
  BY <1>1, <1>3, SfEffect DEF Becomes
<1>5. ui' \in [Node -> Progress] /\ ui'[Origin] = ui[Origin]
  BY <1>1, <1>3, UiEffect DEF Becomes, Progress, Terminal
<1>6. ctl' \in [Node -> [Node -> Seq(Frame)]] /\ FramesStep
  <2> DEFINE f(p) == [type |-> IF p = Origin THEN "accept" ELSE "bitfield",
                      pieces |-> {}]
             row == [p \in Node |-> IF p = m \/ ~Linked(m, p) THEN ctl[m][p]
                                    ELSE Append(ctl[m][p], f(p))]
  <2>1. ctl' = [ctl EXCEPT ![m] = row]
    BY DEF AcceptOffer
  <2>2. \A p \in Node : f(p) \in Frame /\ f(p).type # "offer" /\ f(p).pieces = {}
    BY DEF Frame
  <2> HIDE DEF f
  <2>3. /\ row \in [Node -> Seq(Frame)]
        /\ \A y \in Node : row[y] = ctl[m][y] \/ row[y] = Append(ctl[m][y], f(y))
    BY <1>1, <2>2 DEF TypeOK
  <2> HIDE DEF row
  <2>4. /\ ctl' \in [Node -> [Node -> Seq(Frame)]]
        /\ \A x \in Node : ctl'[x] = IF x = m THEN row ELSE ctl[x]
    BY <1>1, <2>1, <2>3 DEF TypeOK
  <2>5. \A x, y \in Node : ctl'[x][y] = ctl[x][y] \/ Appends(x, y)
    BY <2>2, <2>3, <2>4 DEF Appends
  <2> QED BY <2>4, <2>5 DEF FramesStep
<1>7. TypeOK'
  BY <1>1, <1>2, <1>4, <1>5, <1>6 DEF TypeOK
<1>8. HaveGrows
  BY <1>1, <1>3, <1>4 DEF HaveGrows, Fresh
<1>9. /\ \A x \in Member : x # m => disk'[x] = disk[x] /\ sf'[x] = sf[x]
      /\ disk'[m] = "part"
  BY <1>1, <1>2, <1>4 DEF TypeOK
<1>14. FreshStep
  BY <1>1, <1>2, <1>9 DEF FreshStep, Fresh, Copy
<1>15. PieceStep /\ CopyStep
  <2>1. \A x \in Member : sf'[x].have = sf[x].have
    BY <1>1, <1>3, <1>4, <1>9 DEF Fresh
  <2>2. \A x \in Member \ {m} : Copy(x)' = Copy(x)
    BY <1>9 DEF Copy
  <2>3. Copy(m) = "none" /\ Copy(m)' = "part"
    BY <1>1, <1>9 DEF Copy, Fresh
  <2> QED BY <2>1, <2>2, <2>3 DEF PieceStep, CopyStep, Moves
<1>10. BeliefStep
  BY <1>1, <1>3, <1>4 DEF BeliefStep, Told
<1>11. FileStep
  <2>1. \A x \in Member : disk'[x] = IF x = m THEN "part" ELSE disk[x]
    BY <1>1, <1>2 DEF TypeOK
  <2>2. m \notin cancelling'
    BY <1>1, <1>2 DEF Fresh
  <2>3. \A x \in Member : x # m => sf'[x] = sf[x]
    BY <1>9
  <2> QED BY <1>1, <1>2, <1>3, <1>4, <1>15, <2>1, <2>2, <2>3 DEF FileStep
<1>12. UiStep
  BY <1>1, <1>4, <1>5 DEF UiStep
<1>13. OfferStep
  BY <1>2 DEF OfferStep
<1> QED BY <1>6, <1>7, <1>8, <1>10, <1>11, <1>12, <1>13, <1>14, <1>15 DEF Evolves

LEMMA RejectOfferEvolves ==
    ASSUME IInv, NEW m \in Member, RejectOffer(m)
    PROVE  Evolves
<1>1. m \in Node /\ TypeOK
  BY Constants DEF IInv
<1>2. /\ UNCHANGED <<sf, disk, ui, loop, job, req, pcs, up, cancelling, used>>
      /\ offer' = offer \ {m} /\ Sends(m, {Origin}, "reject", {})
  BY DEF RejectOffer
<1>3. ctl' \in [Node -> [Node -> Seq(Frame)]] /\ FramesStep
  <2>1. {} \in SUBSET Piece /\ {} \subseteq Told(sf', m)
    OBVIOUS
  <2> QED BY <1>1, <1>2, <2>1, SendsFrames
<1>4. TypeOK'
  BY <1>1, <1>2, <1>3 DEF TypeOK
<1>5. OfferStep
  BY <1>2 DEF OfferStep
<1> QED BY <1>2, <1>3, <1>4, <1>5, FilesSame, FilesQuiet, Quietly

LEMMA HandleOfferEvolves ==
    ASSUME IInv, NEW n \in Member, NEW p \in Node, HandleOffer(n, p)
    PROVE  Evolves
<1>1. n \in Node /\ TypeOK
  BY Constants DEF IInv
<1>2. /\ UNCHANGED <<sf, disk, ui, loop, job, req, pcs, up, cancelling, used>>
      /\ offer' = offer \cup {n} /\ Takes(n, p, "offer")
  BY DEF HandleOffer
<1>3. ctl' \in [Node -> [Node -> Seq(Frame)]] /\ FramesStep
  BY <1>1, <1>2, TakesFrames
<1>4. TypeOK'
  BY <1>1, <1>2, <1>3 DEF TypeOK
<1>5. OfferStep
  <2>1. /\ ctl[p][n] \in Seq(Frame) /\ ctl[p][n] # <<>>
        /\ Head(ctl[p][n]).type = "offer" /\ ctl'[p][n] = Tail(ctl[p][n])
    BY <1>1, <1>2, TakesEffect DEF TypeOK
  <2>2. Offers(p, n, 1)
    BY <2>1 DEF Offers
  <2>3. p = Origin
    BY <1>1, <2>2 DEF IInv, OfferedOnce
  <2> QED BY <1>2, <2>1, <2>2, <2>3 DEF OfferStep
<1> QED BY <1>2, <1>3, <1>4, <1>5, FilesSame, FilesQuiet, Quietly

LEMMA HandleAcceptEvolves ==
    ASSUME IInv, NEW n \in Node, NEW p \in Node, HandleAccept(n, p)
    PROVE  Evolves
<1>1. TypeOK /\ sf[n] \in SwarmFile /\ n \notin sf[n].peers
  BY DEF IInv, TypeOK
<1>2. /\ UNCHANGED <<offer, disk, loop, job, req, pcs, up, cancelling, used>>
      /\ Takes(n, p, "accept")
  BY DEF HandleAccept
<1>3. ctl' \in [Node -> [Node -> Seq(Frame)]] /\ FramesStep /\ n # p
  BY <1>1, <1>2, TakesFrames
<1>4. CASE sf[n].live
  <2> DEFINE o == [sf[n] EXCEPT !.peers = @ \cup {p}]
             shown == ProgressState(n, o)
  <2>1. sf' = [sf EXCEPT ![n] = o] /\ ui' = [ui EXCEPT ![n] = shown]
    BY <1>4 DEF HandleAccept, Becomes
  <2>2. /\ o \in SwarmFile /\ o.have = sf[n].have /\ o.holds = sf[n].holds
        /\ o.peers = sf[n].peers \cup {p} /\ o.cancelled = sf[n].cancelled
        /\ o.live = sf[n].live
    BY <1>1, JoinsPeer
  <2>3. shown \in {"cancelled", "paused", "offering", "active"}
    BY <2>2, Shows
  <2> HIDE DEF o, shown
  <2>4. shown \in Progress \ {"none"} /\ shown # "done"
    BY <2>3 DEF Progress, Terminal
  <2>5. /\ sf' \in [Node -> SwarmFile] /\ \A x \in Node : x \notin sf'[x].peers
        /\ \A x \in Node : sf'[x] = IF x = n THEN o ELSE sf[x]
    BY <1>1, <1>3, <2>1, <2>2, SfEffect
  <2>6. SamePieces /\ BeliefStep
    BY <2>2, <2>5 DEF SamePieces, BeliefStep
  <2>7. n # Origin => sf'[Origin] = sf[Origin]
    BY <2>5, Constants
  <2>8. UiStep /\ ui' \in [Node -> Progress]
    BY <2>1, <2>4, <2>7, ShowsUi
  <2>9. \A x \in Member : sf'[x].cancelled = sf[x].cancelled
    BY <2>2, <2>5, Constants
  <2>10. TypeOK'
    BY <1>1, <1>2, <1>3, <2>5, <2>8 DEF TypeOK
  <2> QED BY <1>2, <1>3, <2>6, <2>8, <2>9, <2>10, OffersQuiet, FilesQuiet, Quietly
<1>5. CASE ~sf[n].live
  <2>1. UNCHANGED <<sf, ui>>
    BY <1>5 DEF HandleAccept
  <2>2. TypeOK'
    BY <1>1, <1>2, <1>3, <2>1 DEF TypeOK
  <2> QED BY <1>2, <1>3, <2>1, <2>2, OffersQuiet, FilesSame, FilesQuiet, Quietly
<1> QED BY <1>4, <1>5

LEMMA HandleRejectEvolves ==
    ASSUME IInv, NEW n \in Node, NEW p \in Node, HandleReject(n, p)
    PROVE  Evolves
<1>1. TypeOK /\ sf[n] \in SwarmFile
  BY DEF IInv, TypeOK
<1>2. /\ UNCHANGED <<offer, disk, loop, job, req, pcs, up, cancelling, used>>
      /\ Takes(n, p, "reject")
  BY DEF HandleReject
<1>3. ctl' \in [Node -> [Node -> Seq(Frame)]] /\ FramesStep
  BY <1>1, <1>2, TakesFrames
<1>4. CASE sf[n].live /\ ~Group
  <2> DEFINE o == [sf[n] EXCEPT !.live = FALSE]
  <2>1. sf' = [sf EXCEPT ![n] = o] /\ ui' = [ui EXCEPT ![n] = "rejected"]
    BY <1>4 DEF HandleReject, Becomes
  <2>2. Mild(sf[n], o) /\ o.cancelled = sf[n].cancelled
    BY <1>1, MildChanges
  <2> HIDE DEF o
  <2>3. /\ sf' \in [Node -> SwarmFile] /\ \A x \in Node : x \notin sf'[x].peers
        /\ \A x \in Node : sf'[x] = IF x = n THEN o ELSE sf[x]
        /\ SamePieces /\ BeliefStep
    BY <2>1, <2>2, Mildly
  <2>4. n # Origin => sf'[Origin] = sf[Origin]
    BY <2>3, Constants
  <2>5. "rejected" \in Progress \ {"none"}
    BY DEF Progress, Terminal
  <2>6. UiStep /\ ui' \in [Node -> Progress]
    BY <2>1, <2>4, <2>5, ShowsUi
  <2>7. \A x \in Member : sf'[x].cancelled = sf[x].cancelled
    BY <2>2, <2>3, Constants
  <2>8. TypeOK'
    BY <1>1, <1>2, <1>3, <2>3, <2>6 DEF TypeOK
  <2> QED BY <1>2, <1>3, <2>3, <2>6, <2>7, <2>8, OffersQuiet, FilesQuiet, Quietly
<1>5. CASE ~(sf[n].live /\ ~Group)
  <2>1. UNCHANGED <<sf, ui>>
    BY <1>5 DEF HandleReject
  <2>2. TypeOK'
    BY <1>1, <1>2, <1>3, <2>1 DEF TypeOK
  <2> QED BY <1>2, <1>3, <2>1, <2>2, OffersQuiet, FilesSame, FilesQuiet, Quietly
<1> QED BY <1>4, <1>5

(* A node learns what a peer holds; if it is the origin, it may be done.    *)
LEMMA FinalizeEvolves ==
    ASSUME IInv, NEW n \in Node, NEW p \in Node, n # p, sf[n].live,
           NEW ps \in SUBSET Piece, ps \subseteq Told(sf, p),
           MaybeFinalizeOrigin(n, Holds(sf[n], p, ps)),
           UNCHANGED <<offer, disk, loop, job, req, pcs, up, cancelling, used>>,
           ctl' \in [Node -> [Node -> Seq(Frame)]], FramesStep
    PROVE  Evolves
<1> DEFINE o == Holds(sf[n], p, ps)
<1>1. TypeOK /\ sf[n] \in SwarmFile /\ n \notin sf[n].peers
  BY DEF IInv, TypeOK
<1>2. /\ o \in SwarmFile /\ o.have = sf[n].have /\ o.peers = sf[n].peers \cup {p}
      /\ \A x \in Node : o.holds[x] = IF x = p THEN ps ELSE sf[n].holds[x]
      /\ o.cancelled = sf[n].cancelled
  BY <1>1, Learns
<1>3. MaybeFinalizeOrigin(n, o)
  OBVIOUS
<1> HIDE DEF o
<1>4. \A x \in Node : o.holds[x] \subseteq Told(sf, x)
  <2>1. \A x \in Node : sf[n].holds[x] \subseteq Told(sf, x)
    BY DEF IInv, BeliefsAreTrue, Told
  <2> QED BY <1>2, <2>1
<1>5. PICK q \in SwarmFile, s \in Progress \ {"none"} :
         /\ sf' = [sf EXCEPT ![n] = q] /\ ui' = [ui EXCEPT ![n] = s]
         /\ q.have = o.have /\ q.peers = o.peers /\ q.holds = o.holds
         /\ q.cancelled = o.cancelled
         /\ s = "done" => n = Origin /\ Served(o) /\ ~q.live
  <2>1. CASE n = Origin /\ ~o.finalized /\ Served(o)
    <3> DEFINE q == [o EXCEPT !.finalized = TRUE, !.live = FALSE]
    <3>1. Becomes(n, q, "done")
      BY <1>3, <2>1 DEF MaybeFinalizeOrigin
    <3>2. /\ q \in SwarmFile /\ q.have = o.have /\ q.peers = o.peers
          /\ q.holds = o.holds /\ q.cancelled = o.cancelled /\ ~q.live
      BY <1>2 DEF SwarmFile
    <3>3. "done" \in Progress \ {"none"}
      BY DEF Progress, Terminal
    <3> HIDE DEF q
    <3> QED BY <2>1, <3>1, <3>2, <3>3 DEF Becomes
  <2>2. CASE ~(n = Origin /\ ~o.finalized /\ Served(o))
    <3> DEFINE s == ProgressState(n, o)
    <3>1. Becomes(n, o, s)
      BY <1>3, <2>2 DEF MaybeFinalizeOrigin
    <3>2. s \in {"cancelled", "paused", "offering", "active"}
      BY <1>2, Shows
    <3> HIDE DEF s
    <3>3. s \in Progress \ {"none"} /\ s # "done"
      BY <3>2 DEF Progress, Terminal
    <3> QED BY <1>2, <3>1, <3>3 DEF Becomes
  <2> QED BY <2>1, <2>2
<1>6. n \notin q.peers
  BY <1>1, <1>2, <1>5
<1>7. /\ sf' \in [Node -> SwarmFile] /\ \A x \in Node : x \notin sf'[x].peers
      /\ \A x \in Node : sf'[x] = IF x = n THEN q ELSE sf[x]
  BY <1>1, <1>5, <1>6, SfEffect
<1>8. /\ ui' \in [Node -> Progress]
      /\ \A x \in Node : ui'[x] = IF x = n THEN s ELSE ui[x]
  BY <1>1, <1>5, UiEffect
<1>9. \A x \in Node : sf'[x].have = sf[x].have /\ sf'[x].cancelled = sf[x].cancelled
  BY <1>2, <1>5, <1>7
<1>10. SamePieces
  BY <1>7, <1>9 DEF SamePieces
<1>11. BeliefStep
  <2>1. \A x \in Node : Told(sf', x) = Told(sf, x)
    BY <1>9 DEF Told
  <2> QED BY <1>4, <1>5, <1>7, <2>1 DEF BeliefStep
<1>12. UiStep
  <2>1. ASSUME n = Origin, s = "done", NEW x \in q.peers PROVE sf[x].have = Piece
    <3>1. x \in Node /\ x # Origin /\ o.holds[x] = Piece
      BY <1>2, <1>5, <1>6, <2>1 DEF Served, SwarmFile
    <3>2. sf[x].have \subseteq Piece
      BY <1>1, <3>1 DEF TypeOK, SwarmFile
    <3> QED BY <1>4, <3>1, <3>2 DEF Told
  <2>2. Origin \in Node
    BY Constants
  <2>3. CASE n = Origin
    BY <1>5, <1>7, <1>8, <2>1, <2>2, <2>3 DEF UiStep
  <2>4. CASE n # Origin
    BY <1>7, <1>8, <2>2, <2>4 DEF UiStep
  <2> QED BY <2>3, <2>4
<1>13. TypeOK'
  BY <1>1, <1>7, <1>8 DEF TypeOK
<1>14. \A x \in Member : sf'[x].cancelled = sf[x].cancelled
  BY <1>9, Constants
<1> QED BY <1>10, <1>11, <1>12, <1>13, <1>14, OffersQuiet, FilesQuiet, Quietly

LEMMA HandleHaveEvolves ==
    ASSUME IInv, NEW n \in Node, NEW p \in Node, HandleHave(n, p)
    PROVE  Evolves
<1>1. TypeOK /\ sf[n].holds[p] \in SUBSET Piece
  BY DEF IInv, TypeOK, SwarmFile
<1>2. /\ UNCHANGED <<offer, disk, loop, job, req, pcs, up, cancelling, used>>
      /\ Takes(n, p, "have")
  BY DEF HandleHave
<1>3. /\ ctl' \in [Node -> [Node -> Seq(Frame)]] /\ FramesStep /\ n # p
      /\ Pieces(n, p) \in SUBSET Piece
  BY <1>1, <1>2, TakesFrames
<1>4. CASE sf[n].live
  <2> DEFINE ps == sf[n].holds[p] \cup Pieces(n, p)
  <2>1. sf[n].holds[p] \subseteq Told(sf, p)
    BY DEF IInv, BeliefsAreTrue, Told
  <2>2. ps \in SUBSET Piece /\ ps \subseteq Told(sf, p)
    BY <1>1, <1>2, <1>3, <2>1, TakenIsTrue
  <2>3. MaybeFinalizeOrigin(n, Holds(sf[n], p, ps))
    BY <1>4 DEF HandleHave
  <2> HIDE DEF ps
  <2> QED BY <1>2, <1>3, <1>4, <2>2, <2>3, FinalizeEvolves
<1>5. CASE ~sf[n].live
  <2>1. UNCHANGED <<sf, ui>>
    BY <1>5 DEF HandleHave
  <2>2. TypeOK'
    BY <1>1, <1>2, <1>3, <2>1 DEF TypeOK
  <2> QED BY <1>2, <1>3, <2>1, <2>2, OffersQuiet, FilesSame, FilesQuiet, Quietly
<1> QED BY <1>4, <1>5

LEMMA HandleBitfieldEvolves ==
    ASSUME IInv, NEW n \in Node, NEW p \in Node, HandleBitfield(n, p)
    PROVE  Evolves
<1>1. TypeOK
  BY DEF IInv
<1>2. /\ UNCHANGED <<offer, disk, loop, job, req, pcs, up, cancelling, used>>
      /\ Takes(n, p, "bitfield")
  BY DEF HandleBitfield
<1>3. /\ ctl' \in [Node -> [Node -> Seq(Frame)]] /\ FramesStep /\ n # p
      /\ Pieces(n, p) \in SUBSET Piece
  BY <1>1, <1>2, TakesFrames
<1>4. CASE sf[n].live
  <2> DEFINE ps == Pieces(n, p)
  <2>1. ps \in SUBSET Piece /\ ps \subseteq Told(sf, p)
    BY <1>2, <1>3, TakenIsTrue
  <2>2. MaybeFinalizeOrigin(n, Holds(sf[n], p, ps))
    BY <1>4 DEF HandleBitfield
  <2> HIDE DEF ps
  <2> QED BY <1>2, <1>3, <1>4, <2>1, <2>2, FinalizeEvolves
<1>5. CASE ~sf[n].live
  <2>1. UNCHANGED <<sf, ui>>
    BY <1>5 DEF HandleBitfield
  <2>2. TypeOK'
    BY <1>1, <1>2, <1>3, <2>1 DEF TypeOK
  <2> QED BY <1>2, <1>3, <2>1, <2>2, OffersQuiet, FilesSame, FilesQuiet, Quietly
<1> QED BY <1>4, <1>5

LEMMA HandleCancelEvolves ==
    ASSUME IInv, NEW n \in Node, NEW p \in Node, HandleCancel(n, p)
    PROVE  Evolves
<1>1. TypeOK /\ sf[n] \in SwarmFile /\ Member \subseteq Node /\ offer \subseteq Member
  BY Constants DEF IInv, TypeOK
<1>2. /\ UNCHANGED <<job, req, pcs, up, cancelling, used>>
      /\ Takes(n, p, "cancel") /\ offer' = offer \ {n}
  BY DEF HandleCancel
<1>3. ctl' \in [Node -> [Node -> Seq(Frame)]] /\ FramesStep /\ n # p
  BY <1>1, <1>2, TakesFrames
<1>4. OfferStep /\ "cancelled" \in Progress \ {"none"}
  BY <1>2 DEF OfferStep, Progress, Terminal
<1>5. CASE sf[n].live /\ p = Origin
  <2> DEFINE o == [sf[n] EXCEPT !.cancelled = TRUE, !.open = FALSE, !.live = FALSE]
  <2>1. /\ sf' = [sf EXCEPT ![n] = o] /\ ui' = [ui EXCEPT ![n] = "cancelled"]
        /\ disk' = [disk EXCEPT ![n] = IF @ = "part" THEN "none" ELSE @]
        /\ loop' = [loop EXCEPT ![n] = IF @ = "asleep" THEN "run" ELSE @]
    BY <1>5 DEF HandleCancel, Becomes
  <2>2. Mild(sf[n], o)
    BY <1>1, MildChanges
  <2> HIDE DEF o
  <2>3. /\ sf' \in [Node -> SwarmFile] /\ \A x \in Node : x \notin sf'[x].peers
        /\ \A x \in Node : sf'[x] = IF x = n THEN o ELSE sf[x]
        /\ SamePieces /\ BeliefStep
    BY <2>1, <2>2, Mildly
  <2>4. n \in Member /\ n # Origin
    BY <1>3, <1>5, Constants
  <2>5. sf'[Origin] = sf[Origin]
    BY <2>3, <2>4, Constants
  <2>6. UiStep /\ ui' \in [Node -> Progress]
    BY <1>4, <2>1, <2>4, <2>5, ShowsUi
  <2>7. /\ disk' \in [Member -> {"none", "part", "saved"}]
        /\ \A x \in Member : IF x = n THEN disk'[x] \in {"none", disk[x]} \ {"part"}
                             ELSE disk'[x] = disk[x]
    BY <1>1, <2>1, <2>4 DEF TypeOK
  <2>8. loop' \in [Member -> {"off", "run", "saw", "asleep"}]
    BY <1>1, <2>1 DEF TypeOK
  <2>9. ~Fresh(n)
    BY <1>5 DEF Fresh
  <2>12. StaysOut
    BY <1>1, <1>2, <2>3, <2>7, <2>9 DEF StaysOut, Fresh
  <2>13. o.cancelled
    BY <1>1 DEF o, SwarmFile
  <2>14. CopyStep
    BY <1>1, <2>1, <2>3, <2>4, <2>9, <2>13, GivesUp
  <2>10. FileStep
    BY <1>1, <1>2, <2>3, <2>7, <2>13, <2>14 DEF FileStep
  <2>11. TypeOK'
    BY <1>1, <1>2, <1>3, <2>3, <2>6, <2>7, <2>8 DEF TypeOK
  <2> QED BY <1>3, <1>4, <2>3, <2>6, <2>10, <2>11, <2>12, Quietly
<1>6. CASE ~(sf[n].live /\ p = Origin)
  <2>1. UNCHANGED <<disk, loop>>
    BY <1>6 DEF HandleCancel
  <2>2. PICK q : Mild(sf[n], q) /\ q.cancelled = sf[n].cancelled
                 /\ sf' = [sf EXCEPT ![n] = q]
    <3>1. CASE sf[n].live
      <4>1. sf' = [sf EXCEPT ![n] = Forgets(sf[n], p)]
        BY <1>6, <3>1 DEF HandleCancel
      <4>2. Mild(sf[n], Forgets(sf[n], p))
            /\ Forgets(sf[n], p).cancelled = sf[n].cancelled
        <5>1. PICK i \in Piece : TRUE
          BY ConstantsAssumption DEF ConstantsAssumption
        <5>2. sf[n].inflight \in [Piece -> Node \cup {None}]
          BY <1>1 DEF SwarmFile
        <5> QED BY <1>1, <5>1, <5>2, MildRequests
      <4> QED BY <4>1, <4>2
    <3>2. CASE ~sf[n].live
      <4>1. sf' = sf
        BY <1>6, <3>2 DEF HandleCancel
      <4>2. sf' = [sf EXCEPT ![n] = sf[n]]
        BY <1>1, <4>1 DEF TypeOK
      <4>3. Mild(sf[n], sf[n])
        BY <1>1, MildChanges
      <4> QED BY <4>2, <4>3
    <3> QED BY <3>1, <3>2
  <2>3. /\ sf' \in [Node -> SwarmFile] /\ \A x \in Node : x \notin sf'[x].peers
        /\ \A x \in Node : sf'[x] = IF x = n THEN q ELSE sf[x]
        /\ SamePieces /\ BeliefStep
        /\ sf'[Origin].peers \subseteq sf[Origin].peers
        /\ sf'[Origin].live => sf[Origin].live
    BY <2>2, Mildly
  <2>4. \A x \in Member : sf'[x].cancelled = sf[x].cancelled
    BY <1>1, <2>2, <2>3
  <2>5. UiStep /\ ui' \in [Node -> Progress]
    <3>1. CASE n \in offer
      <4>1. n # Origin /\ sf'[Origin] = sf[Origin]
        BY <1>1, <2>3, <3>1, Constants
      <4>2. ui' = [ui EXCEPT ![n] = "cancelled"]
        BY <1>6, <3>1 DEF HandleCancel
      <4> QED BY <1>4, <4>1, <4>2, ShowsUi
    <3>2. CASE n \notin offer
      <4>1. ui' = ui
        BY <1>6, <3>2 DEF HandleCancel
      <4> QED BY <1>1, <2>3, <4>1, UiSame DEF TypeOK
    <3> QED BY <3>1, <3>2
  <2>6. TypeOK'
    BY <1>1, <1>2, <1>3, <2>1, <2>3, <2>5 DEF TypeOK
  <2> QED BY <1>2, <1>3, <1>4, <2>1, <2>3, <2>4, <2>5, <2>6, FilesQuiet, Quietly
<1> QED BY <1>5, <1>6

LEMMA HandleRequestEvolves ==
    ASSUME IInv, NEW n \in Node, NEW p \in Node, NEW i \in Piece, HandleRequest(n, p, i)
    PROVE  Evolves
<1>1. TypeOK
  BY DEF IInv
<1>2. UNCHANGED <<sf, offer, disk, ui, loop, job, ctl, up, cancelling, used>>
  BY DEF HandleRequest
<1>3. req' \in [Node -> [Node -> SUBSET Piece]]
  BY <1>1 DEF HandleRequest, TypeOK, Put
<1>4. pcs' \in [Node -> [Node -> SUBSET Piece]]
  BY <1>1 DEF HandleRequest, TypeOK, Put
<1>5. TypeOK'
  BY <1>1, <1>2, <1>3, <1>4 DEF TypeOK
<1> QED BY <1>2, <1>5, FilesSame, FilesQuiet, FramesQuiet, OffersQuiet, Quietly

LEMMA ArrivesEffect ==
    ASSUME TypeOK, NEW m \in Member, NEW p \in Node, NEW i \in Piece, Arrives(m, p, i)
    PROVE  pcs' \in [Node -> [Node -> SUBSET Piece]] /\ job[m][p].step = "free"
BY Constants DEF Arrives, TypeOK, Put, Busy

(* A handler goes on, and does not come to the renaming.                    *)
LEMMA JobMoves ==
    ASSUME IInv, NEW m \in Member, NEW p \in Node, ~Fresh(m),
           NEW j \in Job, j.step # "rename", job' = Put(job, m, p, j),
           UNCHANGED <<disk, cancelling>>,
           \A x \in Member : sf'[x].cancelled = sf[x].cancelled
    PROVE  /\ job' \in [Member -> [Node -> Job]]
           /\ StaysOut /\ FileStep
<1>1. /\ job' \in [Member -> [Node -> Job]]
      /\ \A x \in Member, y \in Node :
            job'[x][y] = IF x = m /\ y = p THEN j ELSE job[x][y]
  BY WorksEffect DEF IInv
<1>2. StaysOut
  BY <1>1 DEF StaysOut, Fresh
<1>3. FileStep
  BY <1>1, CopiesSame DEF FileStep
<1> QED BY <1>1, <1>2, <1>3

LEMMA HandlePieceEvolves ==
    ASSUME IInv, NEW m \in Member, NEW p \in Node, NEW i \in Piece, HandlePiece(m, p, i)
    PROVE  Evolves
<1>1. TypeOK
  BY DEF IInv
<1>2. /\ UNCHANGED <<sf, offer, disk, ui, loop, ctl, req, up, cancelling, used>>
      /\ Arrives(m, p, i)
  BY DEF HandlePiece
<1>3. pcs' \in [Node -> [Node -> SUBSET Piece]]
  BY <1>1, <1>2, ArrivesEffect
<1>4. job' \in [Member -> [Node -> Job]] /\ StaysOut /\ FileStep
  <2>1. CASE sf[m].live /\ i \notin sf[m].have /\ sf[m].open
    <3> DEFINE j == [step |-> "write", piece |-> i]
    <3>1. j \in Job /\ j.step # "rename" /\ job' = Put(job, m, p, j)
      BY <2>1 DEF HandlePiece, Works, Job
    <3>2. ~Fresh(m)
      BY <2>1 DEF Fresh
    <3>3. \A x \in Member : sf'[x].cancelled = sf[x].cancelled
      BY <1>2
    <3> HIDE DEF j
    <3> QED BY <1>2, <3>1, <3>2, <3>3, JobMoves
  <2>2. CASE ~(sf[m].live /\ i \notin sf[m].have /\ sf[m].open)
    <3>1. job' = job
      BY <2>2 DEF HandlePiece
    <3> QED BY <1>1, <1>2, <3>1, FilesSame, FilesQuiet DEF TypeOK
  <2> QED BY <2>1, <2>2
<1>5. TypeOK'
  BY <1>1, <1>2, <1>3, <1>4 DEF TypeOK
<1> QED BY <1>2, <1>4, <1>5, FilesSame, FramesQuiet, OffersQuiet, Quietly

(* A request is open or is given up: nothing else of the file changes.      *)
LEMMA RequestsEvolve ==
    ASSUME IInv, NEW m \in Member, NEW q, Mild(sf[m], q), q.cancelled = sf[m].cancelled,
           sf' = [sf EXCEPT ![m] = q],
           UNCHANGED <<offer, disk, ui, loop, job, ctl, up, cancelling>>,
           used' \in [Event -> Nat], req' \in [Node -> [Node -> SUBSET Piece]],
           pcs' \in [Node -> [Node -> SUBSET Piece]]
    PROVE  Evolves
<1>1. TypeOK /\ Member \subseteq Node /\ m \in Node
  BY Constants DEF IInv
<1>2. /\ sf' \in [Node -> SwarmFile] /\ \A x \in Node : x \notin sf'[x].peers
      /\ \A x \in Node : sf'[x] = IF x = m THEN q ELSE sf[x]
      /\ SamePieces /\ BeliefStep
      /\ sf'[Origin].peers \subseteq sf[Origin].peers
      /\ sf'[Origin].live => sf[Origin].live
  BY <1>1, Mildly
<1>3. \A x \in Member : sf'[x].cancelled = sf[x].cancelled
  BY <1>1, <1>2
<1>4. UiStep
  BY <1>2, UiSame
<1>5. TypeOK'
  BY <1>1, <1>2 DEF TypeOK
<1> QED BY <1>2, <1>3, <1>4, <1>5, FilesQuiet, FramesQuiet, OffersQuiet, Quietly

LEMMA UnaskedMild ==
    ASSUME NEW o \in SwarmFile, NEW i \in Piece
    PROVE  Mild(o, Unasked(o, i)) /\ Unasked(o, i).cancelled = o.cancelled
BY Constants, MildRequests DEF SwarmFile

LEMMA PieceIsBadEvolves ==
    ASSUME IInv, NEW m \in Member, NEW p \in Node, NEW i \in Piece, PieceIsBad(m, p, i)
    PROVE  Evolves
<1>1. TypeOK /\ sf[m] \in SwarmFile
  BY Constants DEF IInv, TypeOK
<1>2. /\ UNCHANGED <<offer, disk, ui, loop, job, ctl, req, up, cancelling>>
      /\ Arrives(m, p, i) /\ Happens("bad")
      /\ sf' = [sf EXCEPT ![m] = Unasked(sf[m], i)]
  BY DEF PieceIsBad
<1>3. used' \in [Event -> Nat]
  BY <1>1, <1>2, Counts DEF TypeOK, Event
<1>4. pcs' \in [Node -> [Node -> SUBSET Piece]]
  BY <1>1, <1>2, ArrivesEffect
<1>5. Mild(sf[m], Unasked(sf[m], i)) /\ Unasked(sf[m], i).cancelled = sf[m].cancelled
  BY <1>1, UnaskedMild
<1> QED BY <1>1, <1>2, <1>3, <1>4, <1>5, RequestsEvolve DEF TypeOK

LEMMA RequestExpiresEvolves ==
    ASSUME IInv, NEW m \in Member, NEW i \in Piece, RequestExpires(m, i)
    PROVE  Evolves
<1>1. TypeOK /\ sf[m] \in SwarmFile
  BY Constants DEF IInv, TypeOK
<1>2. /\ UNCHANGED <<offer, disk, ui, loop, job, ctl, req, pcs, up, cancelling>>
      /\ Happens("expire") /\ sf' = [sf EXCEPT ![m] = Unasked(sf[m], i)]
  BY DEF RequestExpires, net
<1>3. used' \in [Event -> Nat]
  BY <1>1, <1>2, Counts DEF TypeOK, Event
<1>4. Mild(sf[m], Unasked(sf[m], i)) /\ Unasked(sf[m], i).cancelled = sf[m].cancelled
  BY <1>1, UnaskedMild
<1> QED BY <1>1, <1>2, <1>3, <1>4, RequestsEvolve DEF TypeOK

LEMMA ScheduleRequestsEvolves ==
    ASSUME IInv, NEW m \in Member, ScheduleRequests(m)
    PROVE  Evolves
<1>1. TypeOK /\ sf[m] \in SwarmFile
  BY Constants DEF IInv, TypeOK
<1>2. UNCHANGED <<offer, disk, ui, loop, job, ctl, pcs, up, cancelling, used>>
  BY DEF ScheduleRequests
<1> DEFINE new(f, p) == {i \in Piece : f[i] = p /\ sf[m].inflight[i] = None}
<1>3. PICK f \in [Piece -> Node \cup {None}] :
         /\ sf' = [sf EXCEPT ![m] = [@ EXCEPT !.inflight = f]]
         /\ req' = [req EXCEPT ![m] = [p \in Node |->
                       IF Linked(m, p) THEN req[m][p] \cup new(f, p)
                       ELSE req[m][p]]]
  BY DEF ScheduleRequests, Schedules
<1> DEFINE q == [sf[m] EXCEPT !.inflight = f]
<1>4. sf' = [sf EXCEPT ![m] = q]
  BY <1>3
<1>5. Mild(sf[m], q) /\ q.cancelled = sf[m].cancelled
  BY <1>1 DEF Mild, SwarmFile
<1>6. req' \in [Node -> [Node -> SUBSET Piece]]
  <2> DEFINE row == [p \in Node |-> IF Linked(m, p) THEN req[m][p] \cup new(f, p)
                                    ELSE req[m][p]]
  <2>1. m \in Node /\ req \in [Node -> [Node -> SUBSET Piece]]
    BY <1>1, Constants DEF TypeOK
  <2>2. \A p \in Node : new(f, p) \in SUBSET Piece
    OBVIOUS
  <2> HIDE DEF new
  <2>3. row \in [Node -> SUBSET Piece]
    BY <2>1, <2>2
  <2>4. req' = [req EXCEPT ![m] = row]
    BY <1>3
  <2> HIDE DEF row
  <2> QED BY <2>1, <2>3, <2>4
<1> HIDE DEF q
<1> QED BY <1>1, <1>2, <1>4, <1>5, <1>6, RequestsEvolve DEF TypeOK

(* The piece is in place before anybody hears of it.                        *)
LEMMA PieceWrittenEvolves ==
    ASSUME IInv, NEW m \in Member, NEW p \in Node, PieceWritten(m, p)
    PROVE  Evolves
<1> DEFINE i == job[m][p].piece
           o == [Unasked(sf[m], i) EXCEPT !.have = @ \cup {i}]
           shown == ProgressState(m, o)
           j == [step |-> "check", piece |-> i]
<1>1. /\ TypeOK /\ m \in Node /\ m # Origin /\ Member \subseteq Node
      /\ sf[m] \in SwarmFile /\ m \notin sf[m].peers /\ i \in Piece
      /\ ~Fresh(m)
  BY Constants DEF IInv, TypeOK, Job, PieceWritten, Fresh
<1>2. UNCHANGED <<offer, disk, loop, req, pcs, up, cancelling, used>>
  BY DEF PieceWritten
<1>3. /\ sf' = [sf EXCEPT ![m] = o] /\ ui' = [ui EXCEPT ![m] = shown]
      /\ Sends(m, o.peers, "have", {i}) /\ job' = Put(job, m, p, j)
  BY DEF PieceWritten, Becomes, Works
<1>4. /\ o \in SwarmFile /\ o.have = sf[m].have \cup {i} /\ o.holds = sf[m].holds
      /\ o.peers = sf[m].peers /\ o.cancelled = sf[m].cancelled
  BY <1>1, GetsPiece
<1>5. shown \in {"cancelled", "paused", "offering", "active"}
  BY <1>4, Shows
<1>6. j \in Job /\ j.step # "rename"
  BY <1>1 DEF Job
<1> HIDE DEF o, shown, i, j
<1>7. shown \in Progress \ {"none"}
  BY <1>5 DEF Progress, Terminal
<1>8. /\ sf' \in [Node -> SwarmFile] /\ \A x \in Node : x \notin sf'[x].peers
      /\ \A x \in Node : sf'[x] = IF x = m THEN o ELSE sf[x]
  BY <1>1, <1>3, <1>4, SfEffect
<1>9. sf'[Origin] = sf[Origin]
  BY <1>1, <1>8, Constants
<1>10. UiStep /\ ui' \in [Node -> Progress]
  BY <1>1, <1>3, <1>7, <1>9, ShowsUi
<1>11. ctl' \in [Node -> [Node -> Seq(Frame)]] /\ FramesStep
  <2>1. {i} \in SUBSET Piece /\ {i} \subseteq Told(sf', m)
    BY <1>1, <1>4, <1>8 DEF Told
  <2> QED BY <1>1, <1>3, <2>1, SendsFrames
<1>12. \A x \in Member : sf'[x].cancelled = sf[x].cancelled
  BY <1>1, <1>4, <1>8
<1>13. job' \in [Member -> [Node -> Job]] /\ StaysOut /\ FileStep
  BY <1>1, <1>2, <1>3, <1>6, <1>12, JobMoves
<1>14. HaveGrows
  BY <1>1, <1>4, <1>8 DEF HaveGrows
<1>15. FreshStep
  BY <1>1, <1>8, <1>13 DEF FreshStep, StaysOut, Fresh
<1>16. BeliefStep
  BY <1>4, <1>8 DEF BeliefStep
<1>18. PieceStep
  <2>1. \A x \in Member : Copy(x)' = Copy(x)
    BY <1>2, <1>12, CopiesSame
  <2>2. Copy(m) # "none"
    BY <1>1 DEF IInv, Begun
  <2>3. /\ sf'[m].have = sf[m].have \cup {i}
        /\ \A x \in Member \ {m} : sf'[x].have = sf[x].have
    BY <1>1, <1>4, <1>8
  <2> QED BY <1>1, <2>1, <2>2, <2>3 DEF PieceStep
<1>17. TypeOK'
  BY <1>1, <1>2, <1>8, <1>10, <1>11, <1>13 DEF TypeOK
<1> QED BY <1>2, <1>10, <1>11, <1>13, <1>14, <1>15, <1>16, <1>17, <1>18, OffersQuiet DEF Evolves

LEMMA CheckWholeEvolves ==
    ASSUME IInv, NEW m \in Member, NEW p \in Node, CheckWhole(m, p)
    PROVE  Evolves
<1>1. /\ TypeOK /\ m \in Node /\ m # Origin /\ Member \subseteq Node
      /\ sf[m] \in SwarmFile /\ job[m][p].piece \in Piece /\ ~Fresh(m)
  BY Constants DEF IInv, TypeOK, Job, CheckWhole, Fresh
<1>2. UNCHANGED <<offer, disk, ui, loop, ctl, req, pcs, up, cancelling, used>>
  BY DEF CheckWhole, net
<1>3. CASE IsWhole(m) /\ ~sf[m].finalized
  <2> DEFINE q == [sf[m] EXCEPT !.finalized = TRUE, !.open = FALSE]
             j == [step |-> "rename", piece |-> job[m][p].piece]
  <2>1. sf' = [sf EXCEPT ![m] = q] /\ job' = Put(job, m, p, j)
    BY <1>3 DEF CheckWhole, Works
  <2>2. Mild(sf[m], q) /\ q.cancelled = sf[m].cancelled
    BY <1>1, MildChanges
  <2>3. j \in Job
    BY <1>1 DEF Job
  <2> HIDE DEF q, j
  <2>4. /\ sf' \in [Node -> SwarmFile] /\ \A x \in Node : x \notin sf'[x].peers
        /\ \A x \in Node : sf'[x] = IF x = m THEN q ELSE sf[x]
        /\ SamePieces /\ BeliefStep
        /\ sf'[Origin].peers \subseteq sf[Origin].peers
        /\ sf'[Origin].live => sf[Origin].live
    BY <1>1, <2>1, <2>2, Mildly
  <2>5. /\ job' \in [Member -> [Node -> Job]]
        /\ \A x \in Member, y \in Node :
              job'[x][y] = IF x = m /\ y = p THEN j ELSE job[x][y]
    BY <1>1, <2>1, <2>3, WorksEffect
  <2>6. StaysOut
    BY <1>1, <1>2, <2>4, <2>5 DEF StaysOut, Fresh
  <2>10. \A x \in Member : sf'[x].cancelled = sf[x].cancelled
    BY <1>1, <2>2, <2>4
  <2>7. FileStep
    BY <1>1, <1>2, <1>3, <2>5, <2>10, CopiesSame DEF FileStep, IsWhole
  <2>8. UiStep
    BY <1>2, <2>4, UiSame
  <2>9. TypeOK'
    BY <1>1, <1>2, <2>4, <2>5 DEF TypeOK
  <2> QED BY <1>2, <2>4, <2>6, <2>7, <2>8, <2>9, FramesQuiet, OffersQuiet, Quietly
<1>4. CASE ~(IsWhole(m) /\ ~sf[m].finalized)
  <2> DEFINE j == [step |-> "free", piece |-> job[m][p].piece]
  <2>1. sf' = sf /\ job' = Put(job, m, p, j)
    BY <1>4 DEF CheckWhole, Works
  <2>2. j \in Job /\ j.step # "rename"
    BY <1>1 DEF Job
  <2>3. \A x \in Member : sf'[x].cancelled = sf[x].cancelled
    BY <2>1
  <2> HIDE DEF j
  <2>4. job' \in [Member -> [Node -> Job]] /\ StaysOut /\ FileStep
    BY <1>1, <1>2, <2>1, <2>2, <2>3, JobMoves
  <2>5. TypeOK'
    BY <1>1, <1>2, <2>1, <2>4 DEF TypeOK
  <2> QED BY <1>2, <2>1, <2>4, <2>5, FilesSame, FramesQuiet, OffersQuiet, Quietly
<1> QED BY <1>3, <1>4

LEMMA RenamePartEvolves ==
    ASSUME IInv, NEW m \in Member, NEW p \in Node, RenamePart(m, p)
    PROVE  Evolves
<1>1. /\ TypeOK /\ m \in Node /\ m # Origin /\ Member \subseteq Node
      /\ sf[m] \in SwarmFile /\ job[m][p].piece \in Piece /\ ~Fresh(m)
      /\ sf[m].have = Piece
  BY Constants DEF IInv, TypeOK, Job, RenamePart, RenamesWhole, Fresh
<1>2. UNCHANGED <<offer, ui, loop, ctl, req, pcs, up, cancelling, used>>
  BY DEF RenamePart, net
<1>3. PICK q \in SwarmFile, s \in {"saved", "unsaved"} :
         /\ Mild(sf[m], q) /\ q.cancelled = sf[m].cancelled
         /\ sf' = [sf EXCEPT ![m] = q]
         /\ job' = Put(job, m, p, [step |-> s, piece |-> job[m][p].piece])
         /\ \/ disk' = disk
            \/ disk[m] = "part" /\ disk' = [disk EXCEPT ![m] = "saved"]
  <2>1. CASE disk[m] = "part" /\ Group
    <3> DEFINE q == [sf[m] EXCEPT !.open = TRUE]
    <3>1. /\ sf' = [sf EXCEPT ![m] = q]
          /\ disk' = [disk EXCEPT ![m] = "saved"]
          /\ job' = Put(job, m, p, [step |-> "saved", piece |-> job[m][p].piece])
      BY <2>1 DEF RenamePart, Works
    <3>2. q \in SwarmFile /\ Mild(sf[m], q) /\ q.cancelled = sf[m].cancelled
      BY <1>1, MildChanges DEF Mild
    <3> HIDE DEF q
    <3> QED BY <2>1, <3>1, <3>2
  <2>2. CASE ~(disk[m] = "part" /\ Group)
    <3> DEFINE q == [sf[m] EXCEPT !.live = FALSE]
    <3>1. /\ sf' = [sf EXCEPT ![m] = q]
          /\ \/ disk' = disk
             \/ disk[m] = "part" /\ disk' = [disk EXCEPT ![m] = "saved"]
          /\ \E s \in {"saved", "unsaved"} :
                job' = Put(job, m, p, [step |-> s, piece |-> job[m][p].piece])
      BY <2>2 DEF RenamePart, Works
    <3>2. q \in SwarmFile /\ Mild(sf[m], q) /\ q.cancelled = sf[m].cancelled
      BY <1>1, MildChanges DEF Mild
    <3> HIDE DEF q
    <3> QED BY <3>1, <3>2
  <2> QED BY <2>1, <2>2
<1> DEFINE j == [step |-> s, piece |-> job[m][p].piece]
<1>4. j \in Job /\ j.step # "rename" /\ job' = Put(job, m, p, j)
  BY <1>1, <1>3 DEF Job
<1> HIDE DEF j
<1>5. /\ sf' \in [Node -> SwarmFile] /\ \A x \in Node : x \notin sf'[x].peers
      /\ \A x \in Node : sf'[x] = IF x = m THEN q ELSE sf[x]
      /\ SamePieces /\ BeliefStep
      /\ sf'[Origin].peers \subseteq sf[Origin].peers
      /\ sf'[Origin].live => sf[Origin].live
  BY <1>1, <1>3, Mildly
<1>6. /\ job' \in [Member -> [Node -> Job]]
      /\ \A x \in Member, y \in Node :
            job'[x][y] = IF x = m /\ y = p THEN j ELSE job[x][y]
  BY <1>1, <1>4, WorksEffect
<1>7. /\ disk' \in [Member -> {"none", "part", "saved"}]
      /\ \A x \in Member : \/ disk'[x] = disk[x]
                           \/ x = m /\ disk[x] = "part" /\ disk'[x] = "saved"
  BY <1>1, <1>3 DEF TypeOK
<1>12. \A x \in Member : sf'[x].cancelled = sf[x].cancelled
  BY <1>1, <1>3, <1>5
<1>8. StaysOut
  BY <1>1, <1>2, <1>6, <1>7, <1>12 DEF StaysOut, Fresh
<1>13. CopyStep
  <2>1. \A x \in Member \ {m} : Copy(x)' = Copy(x)
    BY <1>7, <1>12 DEF Copy
  <2>2. Copy(m)' = Copy(m) \/ (Copy(m) = "part" /\ Copy(m)' = "saved")
    BY <1>7, <1>12 DEF Copy
  <2>3. \A x \in Member : sf'[x].have = sf[x].have
    BY <1>1, <1>5 DEF SamePieces
  <2> QED BY <1>1, <2>1, <2>2, <2>3 DEF CopyStep, Moves
<1>9. FileStep
  <2>1. ASSUME NEW x \in Member, NEW y \in Node, job'[x][y].step = "rename"
        PROVE  job[x][y].step = "rename"
    BY <1>4, <1>6, <2>1
  <2>2. ASSUME NEW x \in Member, disk'[x] = "saved"
        PROVE  disk[x] = "saved" \/ sf[x].have = Piece
    BY <1>1, <1>7, <2>2
  <2>3. ASSUME NEW x \in Member, disk'[x] = "part" PROVE disk[x] = "part"
    BY <1>7, <2>3
  <2> QED BY <1>2, <1>12, <1>13, <2>1, <2>2, <2>3 DEF FileStep
<1>10. UiStep
  BY <1>2, <1>5, UiSame
<1>11. TypeOK'
  BY <1>1, <1>2, <1>5, <1>6, <1>7 DEF TypeOK
<1> QED BY <1>2, <1>5, <1>8, <1>9, <1>10, <1>11, FramesQuiet, OffersQuiet, Quietly

LEMMA ShowResultEvolves ==
    ASSUME IInv, NEW m \in Member, NEW p \in Node, ShowResult(m, p)
    PROVE  Evolves
<1>1. TypeOK /\ m \in Node /\ m # Origin /\ ~Fresh(m) /\ Idle \in Job
      /\ Idle.step # "rename"
  BY Constants DEF IInv, ShowResult, Fresh
<1>2. /\ UNCHANGED <<sf, offer, disk, loop, ctl, req, pcs, up, cancelling, used>>
      /\ job' = Put(job, m, p, Idle)
  BY DEF ShowResult, net
<1>3. PICK s \in Progress \ {"none"} : ui' = [ui EXCEPT ![m] = s]
  <2>1. "done" \in Progress \ {"none"} /\ "failed" \in Progress \ {"none"}
    BY DEF Progress, Terminal
  <2> QED BY <2>1 DEF ShowResult
<1>4. UiStep /\ ui' \in [Node -> Progress]
  BY <1>1, <1>2, <1>3, ShowsUi
<1>5. \A x \in Member : sf'[x].cancelled = sf[x].cancelled
  BY <1>2
<1>6. job' \in [Member -> [Node -> Job]] /\ StaysOut /\ FileStep
  BY <1>1, <1>2, <1>5, JobMoves
<1>7. TypeOK'
  BY <1>1, <1>2, <1>4, <1>6 DEF TypeOK
<1> QED BY <1>2, <1>4, <1>6, <1>7, FilesSame, FramesQuiet, OffersQuiet, Quietly

LEMMA LoopEvolves ==
    ASSUME IInv, NEW m \in Member, LoopStep(m)
    PROVE  Evolves
<1>1. CASE ScheduleRequests(m)
  BY <1>1, ScheduleRequestsEvolves
<1>2. CASE LoopEnds(m) \/ SeePause(m) \/ FallAsleep(m)
  <2>1. /\ UNCHANGED <<sf, offer, disk, ui, job, ctl, req, pcs, up, cancelling, used>>
        /\ \E s \in {"off", "saw", "asleep"} : loop' = [loop EXCEPT ![m] = s]
    BY <1>2 DEF LoopEnds, SeePause, FallAsleep, net
  <2>2. TypeOK'
    BY <2>1 DEF IInv, TypeOK
  <2> QED BY <2>1, <2>2, FilesSame, FilesQuiet, FramesQuiet, OffersQuiet, Quietly
<1> QED BY <1>1, <1>2 DEF LoopStep

LEMMA PauseEvolves ==
    ASSUME IInv, NEW n \in Node, Pause(n)
    PROVE  Evolves
<1> DEFINE q == [sf[n] EXCEPT !.paused = TRUE]
<1>1. TypeOK /\ sf[n] \in SwarmFile /\ "paused" \in Progress \ {"none"}
  BY DEF IInv, TypeOK, Progress
<1>2. /\ UNCHANGED <<offer, disk, loop, job, ctl, req, pcs, up, cancelling>>
      /\ Happens("pause") /\ sf' = [sf EXCEPT ![n] = q]
      /\ ui' = [ui EXCEPT ![n] = "paused"]
  BY DEF Pause, Becomes, net
<1>3. Mild(sf[n], q) /\ q.cancelled = sf[n].cancelled
  BY <1>1, MildChanges
<1> HIDE DEF q
<1>4. /\ sf' \in [Node -> SwarmFile] /\ \A x \in Node : x \notin sf'[x].peers
      /\ \A x \in Node : sf'[x] = IF x = n THEN q ELSE sf[x]
      /\ SamePieces /\ BeliefStep
  BY <1>2, <1>3, Mildly
<1>5. n # Origin => sf'[Origin] = sf[Origin]
  BY <1>4, Constants
<1>6. UiStep /\ ui' \in [Node -> Progress]
  BY <1>1, <1>2, <1>5, ShowsUi
<1>7. \A x \in Member : sf'[x].cancelled = sf[x].cancelled
  BY <1>3, <1>4, Constants
<1>8. used' \in [Event -> Nat]
  BY <1>1, <1>2, Counts DEF TypeOK, Event
<1>9. TypeOK'
  BY <1>1, <1>2, <1>4, <1>6, <1>8 DEF TypeOK
<1> QED BY <1>2, <1>4, <1>6, <1>7, <1>9, FilesQuiet, FramesQuiet, OffersQuiet, Quietly

LEMMA WokenType ==
    ASSUME TypeOK, NEW n \in Node
    PROVE  Woken(n) \in [Member -> {"off", "run", "saw", "asleep"}]
BY DEF Woken, TypeOK

LEMMA ResumeEvolves ==
    ASSUME IInv, NEW n \in Node, Resume(n)
    PROVE  Evolves
<1> DEFINE q == [sf[n] EXCEPT !.paused = FALSE]
           shown == ProgressState(n, q)
<1>1. TypeOK /\ sf[n] \in SwarmFile
  BY DEF IInv, TypeOK
<1>2. /\ UNCHANGED <<offer, disk, job, ctl, req, pcs, up, cancelling, used>>
      /\ sf' = [sf EXCEPT ![n] = q] /\ ui' = [ui EXCEPT ![n] = shown]
      /\ loop' = Woken(n)
  BY DEF Resume, Becomes, net
<1>3. Mild(sf[n], q) /\ q.cancelled = sf[n].cancelled
  BY <1>1, MildChanges
<1>4. shown \in {"cancelled", "paused", "offering", "active"}
  BY <1>3, Shows DEF Mild
<1> HIDE DEF q, shown
<1>5. shown \in Progress \ {"none"} /\ shown # "done"
  BY <1>4 DEF Progress, Terminal
<1>6. /\ sf' \in [Node -> SwarmFile] /\ \A x \in Node : x \notin sf'[x].peers
      /\ \A x \in Node : sf'[x] = IF x = n THEN q ELSE sf[x]
      /\ SamePieces /\ BeliefStep
  BY <1>2, <1>3, Mildly
<1>7. n # Origin => sf'[Origin] = sf[Origin]
  BY <1>6, Constants
<1>8. UiStep /\ ui' \in [Node -> Progress]
  BY <1>2, <1>5, <1>7, ShowsUi
<1>9. \A x \in Member : sf'[x].cancelled = sf[x].cancelled
  BY <1>3, <1>6, Constants
<1>10. TypeOK'
  BY <1>1, <1>2, <1>6, <1>8, WokenType DEF TypeOK
<1> QED BY <1>2, <1>6, <1>8, <1>9, <1>10, FilesQuiet, FramesQuiet, OffersQuiet, Quietly

LEMMA CancelEvolves ==
    ASSUME IInv, NEW n \in Node, Cancel(n)
    PROVE  Evolves
<1> DEFINE q == [sf[n] EXCEPT !.cancelled = TRUE]
<1>1. TypeOK /\ sf[n] \in SwarmFile /\ sf[n].live /\ Member \subseteq Node
  BY Constants DEF IInv, TypeOK, Cancel, Controllable
<1>2. /\ UNCHANGED <<offer, disk, ui, job, req, pcs, up>>
      /\ Happens("cancel") /\ sf' = [sf EXCEPT ![n] = q] /\ loop' = Woken(n)
      /\ Sends(n, sf[n].peers, "cancel", {}) /\ cancelling' = cancelling \cup {n}
  BY DEF Cancel
<1>3. Mild(sf[n], q)
  BY <1>1, MildChanges
<1> HIDE DEF q
<1>4. /\ sf' \in [Node -> SwarmFile] /\ \A x \in Node : x \notin sf'[x].peers
      /\ \A x \in Node : sf'[x] = IF x = n THEN q ELSE sf[x]
      /\ SamePieces /\ BeliefStep
      /\ sf'[Origin].peers \subseteq sf[Origin].peers
      /\ sf'[Origin].live => sf[Origin].live
  BY <1>2, <1>3, Mildly
<1>5. ctl' \in [Node -> [Node -> Seq(Frame)]] /\ FramesStep
  <2>1. {} \in SUBSET Piece /\ {} \subseteq Told(sf', n)
    OBVIOUS
  <2> QED BY <1>1, <1>2, <2>1, SendsFrames
<1>11. q.cancelled /\ \A x \in Member \ {n} : sf'[x].cancelled = sf[x].cancelled
  BY <1>1, <1>4 DEF q, SwarmFile
<1>6. StaysOut
  BY <1>1, <1>2, <1>4 DEF StaysOut, Fresh
<1>12. CopyStep
  <2>1. CASE n \in Member
    <3>1. ~Fresh(n)
      BY <1>1 DEF Fresh
    <3> QED BY <1>1, <1>2, <1>4, <1>11, <2>1, <3>1, GivesUp
  <2>2. CASE n \notin Member
    BY <1>2, <1>11, <2>2, CopiesSame
  <2> QED BY <2>1, <2>2
<1>7. FileStep
  <2>1. /\ job' = job /\ disk' = disk /\ cancelling' = cancelling \cup {n}
        /\ \A x \in Member : sf'[x] = IF x = n THEN q ELSE sf[x]
    BY <1>1, <1>2, <1>4
  <2> QED BY <1>11, <1>12, <2>1 DEF FileStep
<1>8. UiStep
  BY <1>2, <1>4, UiSame
<1>9. used' \in [Event -> Nat]
  BY <1>1, <1>2, Counts DEF TypeOK, Event
<1>10. TypeOK'
  BY <1>1, <1>2, <1>4, <1>5, <1>9, WokenType DEF TypeOK
<1> QED BY <1>2, <1>4, <1>5, <1>6, <1>7, <1>8, <1>10, OffersQuiet, Quietly

LEMMA CancelEndsEvolves ==
    ASSUME IInv, NEW n \in Node, CancelEnds(n)
    PROVE  Evolves
<1> DEFINE b == sf[n].open /\ n = Origin
           q == [sf[n] EXCEPT !.live = FALSE, !.open = b]
<1>1. /\ TypeOK /\ sf[n] \in SwarmFile /\ Member \subseteq Node /\ n \in cancelling
      /\ "cancelled" \in Progress \ {"none"}
  BY Constants DEF IInv, TypeOK, CancelEnds, Progress, Terminal
<1>2. /\ UNCHANGED <<offer, loop, job, ctl, req, pcs, up, used>>
      /\ cancelling' = cancelling \ {n}
      /\ disk' = IF n \in Member /\ disk[n] = "part"
                 THEN [disk EXCEPT ![n] = "none"] ELSE disk
      /\ sf' = [sf EXCEPT ![n] = q] /\ ui' = [ui EXCEPT ![n] = "cancelled"]
  BY DEF CancelEnds, Becomes, net
<1>3. Mild(sf[n], q) /\ q.cancelled = sf[n].cancelled
  <2>1. b \in BOOLEAN
    BY <1>1 DEF SwarmFile
  <2> HIDE DEF b
  <2> QED BY <1>1, <2>1, MildChanges
<1> HIDE DEF q
<1>4. /\ sf' \in [Node -> SwarmFile] /\ \A x \in Node : x \notin sf'[x].peers
      /\ \A x \in Node : sf'[x] = IF x = n THEN q ELSE sf[x]
      /\ SamePieces /\ BeliefStep
  BY <1>2, <1>3, Mildly
<1>5. n # Origin => sf'[Origin] = sf[Origin]
  BY <1>4, Constants
<1>6. UiStep /\ ui' \in [Node -> Progress]
  BY <1>1, <1>2, <1>5, ShowsUi
<1>7. /\ disk' \in [Member -> {"none", "part", "saved"}]
      /\ \A x \in Member : IF x = n THEN disk'[x] \in {"none", disk[x]} \ {"part"}
                           ELSE disk'[x] = disk[x]
  BY <1>1, <1>2 DEF TypeOK
<1>11. \A x \in Member : sf'[x].cancelled = sf[x].cancelled
  BY <1>1, <1>3, <1>4
<1>8. StaysOut
  BY <1>1, <1>2, <1>7, <1>11 DEF StaysOut, Fresh
<1>12. CopyStep
  <2>1. CASE n \in Member
    <3>1. sf'[n].cancelled /\ ~Fresh(n)
      BY <1>1, <1>11, <2>1 DEF IInv, CancelIsFlagged, Fresh
    <3>2. \/ disk' = disk
          \/ disk' = [disk EXCEPT ![n] = IF @ = "part" THEN "none" ELSE @]
      BY <1>1, <1>2 DEF TypeOK
    <3> QED BY <1>4, <1>11, <2>1, <3>1, <3>2, GivesUp
  <2>2. CASE n \notin Member
    BY <1>2, <1>11, <2>2, CopiesSame
  <2> QED BY <2>1, <2>2
<1>9. FileStep
  BY <1>1, <1>2, <1>7, <1>11, <1>12 DEF FileStep
<1>10. TypeOK'
  BY <1>1, <1>2, <1>4, <1>6, <1>7 DEF TypeOK
<1> QED BY <1>2, <1>4, <1>6, <1>8, <1>9, <1>10, FramesQuiet, OffersQuiet, Quietly

LEMMA BreakEvolves ==
    ASSUME IInv, NEW n \in Node, NEW p \in Node, Break(n, p)
    PROVE  Evolves
<1>1. TypeOK
  BY DEF IInv
<1>2. /\ UNCHANGED <<sf, offer, disk, ui, loop, job, cancelling>>
      /\ up' = up \ {{n, p}} /\ Happens("break")
  BY DEF Break
<1>3. /\ ctl' \in [Node -> [Node -> Seq(Frame)]]
      /\ \A x, y \in Node : ctl'[x][y] = ctl[x][y] \/ ctl'[x][y] = <<>>
  <2>1. ctl \in [Node -> [Node -> Seq(Frame)]] /\ <<>> \in Seq(Frame)
    BY <1>1 DEF TypeOK
  <2> DEFINE c == Put(ctl, n, p, <<>>)
  <2>2. /\ c \in [Node -> [Node -> Seq(Frame)]]
        /\ \A x, y \in Node : c[x][y] = ctl[x][y] \/ c[x][y] = <<>>
    BY <2>1 DEF Put
  <2>3. ctl' = Put(c, p, n, <<>>)
    BY DEF Break
  <2> HIDE DEF c
  <2> QED BY <2>1, <2>2, <2>3 DEF Put
<1>4. req' \in [Node -> [Node -> SUBSET Piece]]
  BY <1>1 DEF Break, TypeOK, Put
<1>5. pcs' \in [Node -> [Node -> SUBSET Piece]]
  BY <1>1 DEF Break, TypeOK, Put
<1>6. FramesStep
  BY <1>3 DEF FramesStep
<1>7. used' \in [Event -> Nat]
  BY <1>1, <1>2, Counts DEF TypeOK, Event
<1>8. TypeOK'
  BY <1>1, <1>2, <1>3, <1>4, <1>5, <1>7 DEF TypeOK
<1> QED BY <1>2, <1>6, <1>8, FilesSame, FilesQuiet, OffersQuiet, Quietly

LEMMA ReconnectEvolves ==
    ASSUME IInv, NEW n \in Node, NEW p \in Node, Reconnect(n, p)
    PROVE  Evolves
<1>1. /\ UNCHANGED <<sf, offer, disk, ui, loop, job, ctl, req, pcs, cancelling, used>>
      /\ up' = up \cup {{n, p}} /\ {n, p} \in Pair
  BY Constants DEF Reconnect
<1>2. TypeOK'
  BY <1>1 DEF IInv, TypeOK
<1> QED BY <1>1, <1>2, FilesSame, FilesQuiet, FramesQuiet, OffersQuiet, Quietly

-----------------------------------------------------------------------------
LEMMA InitInv == Init => IInv
<1> SUFFICES ASSUME Init PROVE IInv
  OBVIOUS
<1>1. /\ sf \in [Node -> SwarmFile] /\ \A n \in Node : n \notin sf[n].peers
      /\ \A n \in Node : /\ sf[n].have = {} /\ ~sf[n].live /\ ~sf[n].cancelled
                         /\ sf[n].peers = {} /\ \A p \in Node : sf[n].holds[p] = {}
  BY UnbornType DEF Init
<1>2. /\ ui \in [Node -> Progress] /\ ui[Origin] = "none"
  BY Constants DEF Init, Progress
<1>3. ctl \in [Node -> [Node -> Seq(Frame)]] /\ \A n, p \in Node : ctl[n][p] = <<>>
  BY DEF Init
<1>4. /\ job \in [Member -> [Node -> Job]]
      /\ \A m \in Member, p \in Node : job[m][p].step = "free"
  BY Constants DEF Init
<1>5. TypeOK
  BY <1>1, <1>2, <1>3, <1>4 DEF Init, TypeOK
<1>6. Member \subseteq Node /\ \A m \in Member : Fresh(m)
  BY <1>1, <1>4, Constants DEF Init, Fresh
<1>12. Begun /\ CancelIsFlagged
  BY <1>6 DEF Begun, CancelIsFlagged, Init
<1>7. OfferedOnce
  BY <1>2, <1>3, <1>6 DEF OfferedOnce, Offers, Init
<1>8. Honest
  BY <1>3 DEF Honest
<1>9. BeliefsAreTrue
  BY <1>1 DEF BeliefsAreTrue
<1>10. RenamesWhole /\ SavedIsWhole /\ CancelCleansUp
  BY <1>4, <1>6 DEF RenamesWhole, SavedIsWhole, CancelCleansUp, Fresh
<1>11. DoneIsOver /\ DoneIsTrue
  BY <1>2 DEF DoneIsOver, DoneIsTrue
<1> QED BY <1>5, <1>7, <1>8, <1>9, <1>10, <1>11, <1>12 DEF IInv

LEMMA StutterEvolves ==
    ASSUME IInv, UNCHANGED vars
    PROVE  Evolves
<1>1. UNCHANGED <<sf, offer, disk, ui, loop, job, ctl, req, pcs, up, cancelling, used>>
  BY DEF vars
<1>2. TypeOK'
  BY <1>1 DEF IInv, TypeOK
<1> QED BY <1>1, <1>2, FilesSame, FilesQuiet, FramesQuiet, OffersQuiet, Quietly

LEMMA NextEvolves == IInv /\ [Next]_vars => Evolves
<1> SUFFICES ASSUME IInv, [Next]_vars PROVE Evolves
  OBVIOUS
<1>1. CASE UNCHANGED vars
  BY <1>1, StutterEvolves
<1>2. ASSUME NEW reached \in SUBSET Member, Send(reached) PROVE Evolves
  BY <1>2, SendEvolves
<1>3. ASSUME NEW n \in Node, NEW p \in Node, ControlFrame(n, p) PROVE Evolves
  BY <1>3, HandleAcceptEvolves, HandleRejectEvolves, HandleHaveEvolves, HandleBitfieldEvolves,
     HandleOfferEvolves, HandleCancelEvolves DEF ControlFrame
<1>4. ASSUME NEW n \in Node, NEW p \in Node, NEW i \in Piece, HandleRequest(n, p, i)
      PROVE  Evolves
  BY <1>4, HandleRequestEvolves
<1>5. ASSUME NEW n \in Node, NEW p \in Node, Break(n, p) \/ Reconnect(n, p) PROVE Evolves
  BY <1>5, BreakEvolves, ReconnectEvolves
<1>6. ASSUME NEW n \in Node, Pause(n) \/ Resume(n) \/ Cancel(n) \/ CancelEnds(n)
      PROVE  Evolves
  BY <1>6, PauseEvolves, ResumeEvolves, CancelEvolves, CancelEndsEvolves
<1>7. ASSUME NEW m \in Member, AcceptOffer(m) \/ RejectOffer(m) \/ LoopStep(m) PROVE Evolves
  BY <1>7, AcceptOfferEvolves, RejectOfferEvolves, LoopEvolves
<1>8. ASSUME NEW m \in Member, NEW i \in Piece, RequestExpires(m, i) PROVE Evolves
  BY <1>8, RequestExpiresEvolves
<1>9. ASSUME NEW m \in Member, NEW p \in Node, HandlerStep(m, p) PROVE Evolves
  BY <1>9, PieceWrittenEvolves, CheckWholeEvolves, RenamePartEvolves, ShowResultEvolves
     DEF HandlerStep
<1>10. ASSUME NEW m \in Member, NEW p \in Node, NEW i \in Piece,
              HandlePiece(m, p, i) \/ PieceIsBad(m, p, i)
       PROVE  Evolves
  BY <1>10, HandlePieceEvolves, PieceIsBadEvolves
<1> QED BY <1>1, <1>2, <1>3, <1>4, <1>5, <1>6, <1>7, <1>8, <1>9, <1>10 DEF Next

LEMMA NextInv == IInv /\ [Next]_vars => IInv'
BY NextEvolves, Keeps

(* The invariant holds throughout.                                          *)
LEMMA Invariant == Spec => []IInv
<1> QED BY InitInv, NextInv, PTL DEF Spec

(* Every reachable state is well typed, and no node counts itself among its *)
(* peers: swarm.rs works on peers that are others.                          *)
THEOREM TypeCorrect == Spec => []TypeOK
<1>1. IInv => TypeOK
  BY DEF IInv
<1> QED BY <1>1, Invariant, PTL

(* A file gets its final name when every piece is there, whatever arrives   *)
(* twice, damaged or late, and however many handlers end at once.           *)
THEOREM SavedCorrect == Spec => []SavedIsWhole
<1>1. IInv => SavedIsWhole
  BY DEF IInv
<1> QED BY <1>1, Invariant, PTL

(* What a node believes its peers to hold, they hold: handle_have and       *)
(* handle_bitfield, broken connections and members that join late.          *)
THEOREM BeliefsCorrect == Spec => []BeliefsAreTrue
<1>1. IInv => BeliefsAreTrue
  BY DEF IInv
<1> QED BY <1>1, Invariant, PTL

(* maybe_finalize_origin: "done" means that whoever had accepted has the    *)
(* whole file.                                                              *)
THEOREM DoneCorrect == Spec => []DoneIsTrue
<1>1. IInv => DoneIsTrue
  BY DEF IInv
<1> QED BY <1>1, Invariant, PTL

(* A cancelled transfer leaves no partial file, wherever the cancel falls   *)
(* between the steps of a handler.                                          *)
THEOREM CancelCorrect == Spec => []CancelCleansUp
<1>1. IInv => CancelCleansUp
  BY DEF IInv
<1> QED BY <1>1, Invariant, PTL

-----------------------------------------------------------------------------
(* The transfer is a sharing.                                               *)

(* What a step does to the pieces and the copies.                           *)
LEMMA ShareStep ==
    ASSUME IInv, IInv', Evolves
    PROVE  [Promise!Next]_(Promise!share)
<1> DEFINE have == [m \in Member |-> sf[m].have]
           copy == [m \in Member |-> Copy(m)]
<1>1. CASE \A x \in Member : sf'[x].have = sf[x].have /\ Copy(x)' = Copy(x)
  <2>1. have' = have /\ copy' = copy
    BY <1>1
  <2> QED BY <2>1 DEF Promise!share
<1>2. CASE /\ \A x \in Member : sf'[x].have = sf[x].have
           /\ \E m \in Member : /\ Moves(m)
                                /\ \A x \in Member \ {m} : Copy(x)' = Copy(x)
  <2>1. PICK m \in Member : Moves(m) /\ \A x \in Member \ {m} : Copy(x)' = Copy(x)
    BY <1>2
  <2>2. have' = have
    BY <1>2
  <2>3. copy' = [copy EXCEPT ![m] = Copy(m)'] /\ copy[m] = Copy(m) /\ have[m] = sf[m].have
    BY <2>1
  <2>4. Promise!Begin(m) \/ Promise!GiveUp(m) \/ Promise!Save(m)
    BY <2>1, <2>2, <2>3 DEF Moves, Promise!Begin, Promise!GiveUp, Promise!Save
  <2> QED BY <2>4 DEF Promise!Next
<1>3. CASE /\ \A x \in Member : Copy(x)' = Copy(x)
           /\ \E m \in Member, i \in Piece :
                 /\ sf'[m].have = sf[m].have \cup {i} /\ Copy(m) # "none"
                 /\ \A x \in Member \ {m} : sf'[x].have = sf[x].have
  <2>1. PICK m \in Member, i \in Piece :
               /\ sf'[m].have = sf[m].have \cup {i} /\ Copy(m) # "none"
               /\ \A x \in Member \ {m} : sf'[x].have = sf[x].have
    BY <1>3
  <2>2. CASE i \in sf[m].have
    BY <1>1, <1>3, <2>1, <2>2
  <2>3. CASE i \notin sf[m].have
    <3>1. Copy(m) \in {"part", "gone"}
      <4>1. disk[m] # "saved"
        BY <2>3 DEF IInv, SavedIsWhole
      <4>2. disk[m] \in {"none", "part", "saved"}
        BY DEF IInv, TypeOK
      <4> QED BY <2>1, <4>1, <4>2 DEF Copy
    <3>2. copy' = copy /\ copy[m] = Copy(m) /\ have[m] = sf[m].have
      BY <1>3
    <3>3. have' = [have EXCEPT ![m] = have[m] \cup {i}]
      BY <2>1
    <3>4. Promise!Get(m, i)
      BY <2>3, <3>1, <3>2, <3>3 DEF Promise!Get
    <3> QED BY <3>4 DEF Promise!Next
  <2> QED BY <2>2, <2>3
<1> QED BY <1>1, <1>2, <1>3 DEF Evolves, FileStep, CopyStep, PieceStep

(* What the sender, the members, their handlers and their cancels do in     *)
(* whatever order is what Sharing promises to each member.                  *)
THEOREM SharingCorrect == Spec => IsSharing
<1>1. Init => Promise!Init
  <2> SUFFICES ASSUME Init PROVE Promise!Init
    OBVIOUS
  <2>1. \A m \in Member : sf[m].have = {} /\ ~sf[m].cancelled /\ disk[m] = "none"
    BY UnbornType, Constants DEF Init
  <2>2. \A m \in Member : Copy(m) = "none"
    BY <2>1 DEF Copy
  <2> QED BY <2>1, <2>2 DEF Promise!Init
<1>2. IInv /\ IInv' /\ [Next]_vars => [Promise!Next]_(Promise!share)
  BY NextEvolves, ShareStep
<1> QED BY <1>1, <1>2, Invariant, PTL DEF Spec, IsSharing, Promise!Spec
=============================================================================
