------------------------- MODULE LanConnectionProofs -------------------------
(***************************************************************************)
(* Proofs about a LAN connection: how it comes to be (LanTransport) and    *)
(* what its queues hold (LanQueues).                                       *)
(*                                                                         *)
(* LanTransport, for any nodes, ids, sockets and dials: the types (which   *)
(* say that nobody dials himself) and EntryIsOpenEnd are inductive         *)
(* together: the one step that replaces an entry also tells the socket     *)
(* that was there, and a teardown removes only an entry of its own.        *)
(* While nothing is lost and nobody dials twice at a time, both ends keep  *)
(* the socket that the node with the smaller id dialed.                    *)
(*                                                                         *)
(* LanQueues, for any queue sizes and windows: the number of pieces an end *)
(* has asked for is the sum of what its own side and the other side of the *)
(* connection hold of them, and every step keeps the balance.              *)
(***************************************************************************)
EXTENDS LanTransport, LanQueues, FiniteSetTheorems, FunctionTheorems,
        SequenceTheorems, TLAPS

IInv == TypeOK /\ EntryIsOpenEnd

(* The two halves of EntryIsOpenEnd, of any sockets k and maps c, so that  *)
(* they can be stated of a step's two states alike.                        *)
OwnerIn(k, r, e)  == IF e = "out" THEN k[r].dialer ELSE k[r].acceptor
RemoteIn(k, r, e) == IF e = "out" THEN k[r].acceptor ELSE k[r].dialer
ReadsIn(k, r, e)  == k[r].end[e] = "reading"

EntryIsRead(k, c) ==
    \A n, p \in Node : c[n][p] # None =>
        \E e \in Side : /\ OwnerIn(k, c[n][p], e) = n
                        /\ RemoteIn(k, c[n][p], e) = p
                        /\ ReadsIn(k, c[n][p], e)

ReadIsEntry(k, c) ==
    \A r \in Sock, e \in Side :
        ReadsIn(k, r, e) => c[OwnerIn(k, r, e)][RemoteIn(k, r, e)] = r

(* The sockets connect the nodes they connected.                           *)
SameNodes == \A s \in Sock : /\ sock'[s].dialer = sock[s].dialer
                             /\ sock'[s].acceptor = sock[s].acceptor

-----------------------------------------------------------------------------
(* The two ends of a socket.                                               *)

(* Each end has its node, its remote node and its place in the protocol.   *)
LEMMA NodesOfSocket ==
    ASSUME TypeOK, NEW s \in Sock, NEW d \in Side
    PROVE  Owner(s, d) \in Node /\ Remote(s, d) \in Node /\ At(s, d) \in EndAt
<1>1. sock[s] \in Socket
  BY DEF TypeOK
<1>2. sock[s].end \in [Side -> EndAt]
  BY <1>1 DEF Socket
<1> QED
  BY <1>1, <1>2 DEF Socket, Owner, Remote, At

(* A socket in use has its two ends at two nodes.                          *)
LEMMA TwoEnds ==
    ASSUME TypeOK, NEW s \in Sock, NEW d \in Side, NEW e \in Side,
           At(s, d) \notin {"none", "closed"}, Owner(s, d) = Owner(s, e)
    PROVE  d = e
<1>1. sock[s].dialer # sock[s].acceptor
  BY DEF TypeOK, Free
<1> QED
  BY <1>1 DEF Owner, Side

(* One end moves.                                                          *)
LEMMA MoveEffect ==
    ASSUME TypeOK, NEW s \in Sock, NEW d \in Side, NEW at \in EndAt,
           sock' = Move(s, d, at)
    PROVE  /\ sock' \in [Sock -> Socket]
           /\ SameNodes
           /\ \A r \in Sock, e \in Side :
                 sock'[r].end[e] = IF r = s /\ e = d THEN at
                                   ELSE sock[r].end[e]
<1>1. sock \in [Sock -> Socket]
  BY DEF TypeOK
<1>2. sock[s].end \in [Side -> EndAt]
  BY <1>1 DEF Socket
<1> DEFINE moved == [sock[s].end EXCEPT ![d] = at]
<1>3. moved \in [Side -> EndAt]
  BY <1>2
<1>4. \A e \in Side : moved[e] = IF e = d THEN at ELSE sock[s].end[e]
  BY <1>2
<1>5. sock' = [sock EXCEPT ![s].end = moved]
  BY DEF Move
<1> HIDE DEF moved
<1>6. sock' \in [Sock -> Socket]
  BY <1>1, <1>3, <1>5 DEF Socket
<1>7. \A r \in Sock : /\ sock'[r].dialer = sock[r].dialer
                      /\ sock'[r].acceptor = sock[r].acceptor
                      /\ sock'[r].end = IF r = s THEN moved ELSE sock[r].end
  BY <1>1, <1>5 DEF Socket
<1> QED
  BY <1>4, <1>6, <1>7 DEF SameNodes

-----------------------------------------------------------------------------
(* Steps that neither start nor end a read loop.                           *)

(* EntryIsOpenEnd is its two halves, in both states.                       *)
LEMMA TwoHalves ==
    /\ EntryIsOpenEnd <=> EntryIsRead(sock, conn) /\ ReadIsEntry(sock, conn)
    /\ EntryIsOpenEnd' <=> EntryIsRead(sock', conn') /\ ReadIsEntry(sock', conn')
BY DEF EntryIsOpenEnd, EntryIsRead, ReadIsEntry, OwnerIn, RemoteIn, ReadsIn,
       Owner, Remote, At

(* A step that keeps the map, the ends that read and their nodes.          *)
LEMMA Undisturbed ==
    ASSUME TypeOK, EntryIsOpenEnd, conn' = conn,
           \A r \in Sock, e \in Side : ReadsIn(sock', r, e) <=> ReadsIn(sock, r, e),
           \A r \in Sock, e \in Side : ReadsIn(sock, r, e) =>
               /\ OwnerIn(sock', r, e) = OwnerIn(sock, r, e)
               /\ RemoteIn(sock', r, e) = RemoteIn(sock, r, e)
    PROVE  EntryIsOpenEnd'
<1>1. \A n, p \in Node : conn[n][p] \in Sock \cup {None}
  BY DEF TypeOK
<1>2. EntryIsRead(sock, conn) /\ ReadIsEntry(sock, conn)
  BY TwoHalves
<1>3. EntryIsRead(sock', conn')
  BY <1>1, <1>2 DEF EntryIsRead
<1>4. ReadIsEntry(sock', conn')
  BY <1>2 DEF ReadIsEntry
<1> QED
  BY <1>3, <1>4, TwoHalves

(* No socket in use connects a node to itself after a step that changes no *)
(* nodes and takes no free socket.                                         *)
LEMMA PairsKept ==
    ASSUME TypeOK, SameNodes,
           \A r \in Sock : Free(r) =>
               \A e \in Side : sock'[r].end[e] \in {"none", "closed"}
    PROVE  (\A r \in Sock : Free(r) \/ sock[r].dialer # sock[r].acceptor)'
BY DEF TypeOK, SameNodes, Free, At

(* An end that neither reads nor is to read moves, and the map stays.      *)
LEMMA QuietMove ==
    ASSUME IInv, NEW s \in Sock, NEW d \in Side, NEW at \in EndAt \ {"reading"},
           At(s, d) \notin {"none", "closed", "reading"},
           sock' \in [Sock -> Socket], SameNodes,
           \A r \in Sock, e \in Side :
              sock'[r].end[e] = IF r = s /\ e = d THEN at ELSE sock[r].end[e],
           conn' = conn, met' \in SUBSET (SUBSET Node), losses' \in 0..MaxLosses
    PROVE  IInv'
<1>1. ~Free(s)
  BY DEF Free
<1>2. \A r \in Sock : Free(r) =>
         \A e \in Side : sock'[r].end[e] \in {"none", "closed"}
  BY <1>1 DEF Free, At
<1>3. TypeOK'
  <2>1. (\A r \in Sock : Free(r) \/ sock[r].dialer # sock[r].acceptor)'
    BY <1>2, PairsKept DEF IInv
  <2> QED
    BY <2>1 DEF IInv, TypeOK
<1>4. \A r \in Sock, e \in Side : ReadsIn(sock', r, e) <=> ReadsIn(sock, r, e)
  BY DEF ReadsIn, At
<1>5. \A r \in Sock, e \in Side :
         /\ OwnerIn(sock', r, e) = OwnerIn(sock, r, e)
         /\ RemoteIn(sock', r, e) = RemoteIn(sock, r, e)
  BY DEF OwnerIn, RemoteIn, SameNodes
<1>6. EntryIsOpenEnd'
  BY <1>4, <1>5, Undisturbed DEF IInv
<1> QED
  BY <1>3, <1>6 DEF IInv

(* The steps of a handshake, the dropping of a duplicate, and the end of a *)
(* read loop that was told to close: its entry went when it was told.      *)
LEMMA QuietSteps ==
    ASSUME IInv, NEW s \in Sock, NEW d \in Side,
           \/ HandshakeFails(s, d) \/ HandshakeTimesOut(s, d)
           \/ DropDuplicate(s, d) \/ DialerGreets(s)
    PROVE  IInv'
<1>1. TypeOK
  BY DEF IInv
<1>2. losses' \in 0..MaxLosses /\ met' \in SUBSET (SUBSET Node) /\ conn' = conn
  BY <1>1, ConstantsAssumption
     DEF TypeOK, HandshakeFails, HandshakeTimesOut, DropDuplicate, DialerGreets
<1>3. CASE \/ HandshakeFails(s, d) \/ HandshakeTimesOut(s, d) \/ DropDuplicate(s, d)
  <2>1. /\ sock' = Move(s, d, "closed")
        /\ At(s, d) \notin {"none", "closed", "reading"}
    BY <1>3 DEF HandshakeFails, HandshakeTimesOut, DropDuplicate
  <2>2. "closed" \in EndAt \ {"reading"}
    BY DEF EndAt
  <2> QED
    BY <1>1, <1>2, <2>1, <2>2, MoveEffect, QuietMove
<1>4. CASE DialerGreets(s)
  <2>1. sock' = Move(s, "out", "ready") /\ At(s, "out") = "greet"
    BY <1>4 DEF DialerGreets
  <2>2. "ready" \in EndAt \ {"reading"} /\ "out" \in Side
    BY DEF EndAt, Side
  <2> QED
    BY <1>1, <1>2, <2>1, <2>2, MoveEffect, QuietMove
<1> QED
  BY <1>3, <1>4

(* The acceptor answers: two fields of its socket change.                  *)
LEMMA AcceptorEffect ==
    ASSUME TypeOK, NEW s \in Sock, AcceptorGreets(s)
    PROVE  /\ sock' \in [Sock -> Socket]
           /\ SameNodes
           /\ \A r \in Sock, e \in Side :
                 sock'[r].end[e] = IF r = s /\ e = "in" THEN "ready"
                                   ELSE sock[r].end[e]
<1> DEFINE k == Move(s, "in", "ready")
<1>2. sock \in [Sock -> Socket] /\ sock[s].end \in [Side -> EndAt]
  BY DEF TypeOK, Socket
<1>3. "ready" \in EndAt \ {"reading"} /\ "in" \in Side
  BY DEF EndAt, Side
<1> DEFINE moved == [sock[s].end EXCEPT !["in"] = "ready"]
<1>4. moved \in [Side -> EndAt]
  BY <1>2, <1>3
<1>5. \A e \in Side : moved[e] = IF e = "in" THEN "ready" ELSE sock[s].end[e]
  BY <1>2
<1>6. k = [sock EXCEPT ![s].end = moved]
  BY DEF Move
<1>7. sock' = [k EXCEPT ![s].acked = TRUE]
  BY DEF AcceptorGreets
<1> HIDE DEF moved, k
<1>8. k \in [Sock -> Socket]
  BY <1>2, <1>4, <1>6 DEF Socket
<1>9. sock' \in [Sock -> Socket]
  BY <1>7, <1>8 DEF Socket
<1>10. \A r \in Sock : /\ sock'[r].dialer = sock[r].dialer
                       /\ sock'[r].acceptor = sock[r].acceptor
                       /\ sock'[r].end = IF r = s THEN moved ELSE sock[r].end
  BY <1>2, <1>6, <1>7, <1>8 DEF Socket
<1>11. \A r \in Sock, e \in Side :
          sock'[r].end[e] = IF r = s /\ e = "in" THEN "ready" ELSE sock[r].end[e]
  BY <1>5, <1>10
<1>12. SameNodes
  BY <1>10 DEF SameNodes
<1> QED
  BY <1>9, <1>11, <1>12

LEMMA AcceptorStep ==
    ASSUME IInv, NEW s \in Sock, AcceptorGreets(s)
    PROVE  IInv'
<1>1. TypeOK
  BY DEF IInv
<1>2. "ready" \in EndAt \ {"reading"} /\ "in" \in Side
  BY DEF EndAt, Side
<1>3. met' \in SUBSET (SUBSET Node)
  <2>1. sock[s].dialer \in Node /\ sock[s].acceptor \in Node
    BY <1>1 DEF TypeOK, Socket
  <2> QED
    BY <1>1, <2>1 DEF TypeOK, AcceptorGreets
<1>4. At(s, "in") = "greet" /\ conn' = conn /\ losses' \in 0..MaxLosses
  BY <1>1 DEF AcceptorGreets, TypeOK
<1> QED
  BY <1>1, <1>2, <1>3, <1>4, AcceptorEffect, QuietMove

(* A dial takes a free socket, which is nobody's entry.                    *)
LEMMA DialStep ==
    ASSUME IInv, NEW s \in Sock, NEW n \in Node, NEW p \in Node, Dial(s, n, p)
    PROVE  IInv'
<1>1. TypeOK
  BY DEF IInv
<1>2. /\ sock' = [sock EXCEPT ![s] = InitSocket(n, p, "greet")]
      /\ n # p /\ Free(s) /\ UNCHANGED <<conn, met, losses>>
  BY DEF Dial
<1>3. InitSocket(n, p, "greet") \in Socket
  BY DEF InitSocket, Socket, Side, EndAt
<1>4. \A r \in Sock : sock'[r] = IF r = s THEN InitSocket(n, p, "greet") ELSE sock[r]
  BY <1>1, <1>2 DEF TypeOK
<1>5. sock' \in [Sock -> Socket]
  BY <1>1, <1>2, <1>3 DEF TypeOK
<1>6. (\A r \in Sock : Free(r) \/ sock[r].dialer # sock[r].acceptor)'
  <2>1. sock'[s].dialer = n /\ sock'[s].acceptor = p
    BY <1>4 DEF InitSocket
  <2> QED
    BY <1>1, <1>2, <1>4, <2>1 DEF TypeOK, Free, At
<1>7. TypeOK'
  BY <1>1, <1>2, <1>5, <1>6 DEF TypeOK
<1>8. \A e \in Side : ~ReadsIn(sock, s, e) /\ ~ReadsIn(sock', s, e)
  BY <1>2, <1>4 DEF Free, At, ReadsIn, InitSocket
<1>9. \A r \in Sock, e \in Side : ReadsIn(sock', r, e) <=> ReadsIn(sock, r, e)
  BY <1>4, <1>8 DEF ReadsIn
<1>10. \A r \in Sock, e \in Side : ReadsIn(sock, r, e) =>
          /\ OwnerIn(sock', r, e) = OwnerIn(sock, r, e)
          /\ RemoteIn(sock', r, e) = RemoteIn(sock, r, e)
  BY <1>4, <1>8 DEF OwnerIn, RemoteIn
<1>11. EntryIsOpenEnd'
  BY <1>1, <1>2, <1>9, <1>10, Undisturbed DEF IInv
<1> QED
  BY <1>7, <1>11 DEF IInv

(* A broken socket is still what it connected.                             *)
LEMMA BreakStep ==
    ASSUME IInv, NEW s \in Sock, Break(s)
    PROVE  IInv'
<1>1. TypeOK
  BY DEF IInv
<1>2. /\ sock' = [sock EXCEPT ![s].broken = TRUE]
      /\ losses < MaxLosses /\ losses' = losses + 1 /\ UNCHANGED <<conn, met>>
  BY DEF Break
<1>3. sock \in [Sock -> Socket]
  BY <1>1 DEF TypeOK
<1>4. sock' \in [Sock -> Socket]
  BY <1>2, <1>3 DEF Socket
<1>5. \A r \in Sock : /\ sock'[r].dialer = sock[r].dialer
                      /\ sock'[r].acceptor = sock[r].acceptor
                      /\ sock'[r].end = sock[r].end
  BY <1>2, <1>3 DEF Socket
<1>6. SameNodes
  BY <1>5 DEF SameNodes
<1>7. \A r \in Sock : Free(r) =>
         \A e \in Side : sock'[r].end[e] \in {"none", "closed"}
  BY <1>5 DEF Free, At
<1>8. (\A r \in Sock : Free(r) \/ sock[r].dialer # sock[r].acceptor)'
  BY <1>1, <1>6, <1>7, PairsKept
<1>9. TypeOK'
  BY <1>1, <1>2, <1>4, <1>8, ConstantsAssumption DEF TypeOK
<1>10. EntryIsOpenEnd'
  BY <1>1, <1>2, <1>5, Undisturbed DEF IInv, ReadsIn, OwnerIn, RemoteIn
<1> QED
  BY <1>9, <1>10 DEF IInv

-----------------------------------------------------------------------------
(* Steps that start or end a read loop.                                    *)

(* The read loop of an end that was told to close has no entry left.       *)
LEMMA ToldHasNoEntry ==
    ASSUME IInv, NEW s \in Sock, NEW d \in Side, At(s, d) = "told"
    PROVE  conn[Owner(s, d)][Remote(s, d)] # s
<1> SUFFICES ASSUME conn[Owner(s, d)][Remote(s, d)] = s PROVE FALSE
  OBVIOUS
<1>1. Owner(s, d) \in Node /\ Remote(s, d) \in Node /\ s # None
  BY NodesOfSocket, ConstantsAssumption DEF IInv
<1>2. PICK e \in Side : Owner(s, e) = Owner(s, d) /\ At(s, e) = "reading"
  BY <1>1 DEF IInv, EntryIsOpenEnd
<1>3. d = e
  BY <1>2, TwoEnds DEF IInv
<1> QED
  BY <1>2, <1>3

(* A read loop ends: its entry goes, and no other one.                     *)
LEMMA TeardownStep ==
    ASSUME IInv, NEW s \in Sock, NEW d \in Side, Teardown(s, d)
    PROVE  IInv'
<1>1. TypeOK /\ EntryIsOpenEnd
  BY DEF IInv
<1>2. sock' = Move(s, d, "closed") /\ "closed" \in EndAt \ {"reading"}
  BY DEF Teardown, EndAt
<1>3. /\ sock' \in [Sock -> Socket] /\ SameNodes
      /\ \A r \in Sock, e \in Side :
            sock'[r].end[e] = IF r = s /\ e = d THEN "closed" ELSE sock[r].end[e]
  BY <1>1, <1>2, MoveEffect
<1>4. met' \in SUBSET (SUBSET Node) /\ losses' \in 0..MaxLosses
  BY <1>1 DEF TypeOK, Teardown
<1>5. CASE At(s, d) = "told"
  <2>1. conn' = conn
    BY <1>5, ToldHasNoEntry DEF Teardown
  <2> QED
    BY <1>2, <1>3, <1>4, <1>5, <2>1, QuietMove
<1>6. CASE At(s, d) = "reading"
  <2> DEFINE n == Owner(s, d)  p == Remote(s, d)
  <2>1. n \in Node /\ p \in Node /\ conn[n][p] = s
    BY <1>1, <1>6, NodesOfSocket DEF EntryIsOpenEnd
  <2>2. conn' = [conn EXCEPT ![n] = [conn[n] EXCEPT ![p] = None]]
    BY <2>1 DEF Teardown
  <2>3. conn' \in [Node -> [Node -> Sock \cup {None}]]
    BY <1>1, <2>1, <2>2 DEF TypeOK
  <2>4. \A m, q \in Node :
           conn'[m][q] = IF m = n /\ q = p THEN None ELSE conn[m][q]
    BY <1>1, <2>1, <2>2 DEF TypeOK
  <2>5. /\ n = OwnerIn(sock, s, d) /\ p = RemoteIn(sock, s, d)
        /\ EntryIsRead(sock, conn) /\ ReadIsEntry(sock, conn)
    BY <1>1, TwoHalves DEF Owner, Remote, OwnerIn, RemoteIn
  <2> HIDE DEF n, p
  <2>6. \A r \in Sock, e \in Side :
           /\ OwnerIn(sock', r, e) = OwnerIn(sock, r, e)
           /\ RemoteIn(sock', r, e) = RemoteIn(sock, r, e)
           /\ ReadsIn(sock', r, e) <=> ReadsIn(sock, r, e) /\ ~(r = s /\ e = d)
    BY <1>3 DEF SameNodes, OwnerIn, RemoteIn, ReadsIn
  <2>7. TypeOK'
    <3>1. ~Free(s)
      BY <1>6 DEF Free
    <3>2. \A r \in Sock : Free(r) =>
             \A e \in Side : sock'[r].end[e] \in {"none", "closed"}
      BY <1>3, <3>1 DEF Free, At
    <3>3. (\A r \in Sock : Free(r) \/ sock[r].dialer # sock[r].acceptor)'
      BY <1>1, <1>3, <3>2, PairsKept
    <3> QED
      BY <1>3, <1>4, <2>3, <3>3 DEF TypeOK
  <2>8. EntryIsRead(sock', conn')
    <3> SUFFICES ASSUME NEW m \in Node, NEW q \in Node, conn'[m][q] # None
                 PROVE  \E e \in Side : /\ OwnerIn(sock', conn'[m][q], e) = m
                                        /\ RemoteIn(sock', conn'[m][q], e) = q
                                        /\ ReadsIn(sock', conn'[m][q], e)
      BY DEF EntryIsRead
    <3>1. conn'[m][q] = conn[m][q] /\ conn[m][q] \in Sock /\ ~(m = n /\ q = p)
      BY <1>1, <2>4 DEF TypeOK
    <3>2. PICK e \in Side : /\ OwnerIn(sock, conn[m][q], e) = m
                            /\ RemoteIn(sock, conn[m][q], e) = q
                            /\ ReadsIn(sock, conn[m][q], e)
      BY <2>5, <3>1 DEF EntryIsRead
    <3> QED
      BY <2>5, <2>6, <3>1, <3>2
  <2>9. ReadIsEntry(sock', conn')
    <3> SUFFICES ASSUME NEW r \in Sock, NEW e \in Side, ReadsIn(sock', r, e)
                 PROVE  conn'[OwnerIn(sock', r, e)][RemoteIn(sock', r, e)] = r
      BY DEF ReadIsEntry
    <3>1. ReadsIn(sock, r, e) /\ ~(r = s /\ e = d)
      BY <2>6
    <3>2. conn[OwnerIn(sock, r, e)][RemoteIn(sock, r, e)] = r
      BY <2>5, <3>1 DEF ReadIsEntry
    <3>3. OwnerIn(sock, r, e) \in Node /\ RemoteIn(sock, r, e) \in Node
      BY <1>1, NodesOfSocket DEF Owner, Remote, OwnerIn, RemoteIn
    <3>4. ~(OwnerIn(sock, r, e) = n /\ RemoteIn(sock, r, e) = p)
      <4> SUFFICES ASSUME OwnerIn(sock, r, e) = n, RemoteIn(sock, r, e) = p
                   PROVE  FALSE
        OBVIOUS
      <4>1. r = s
        BY <2>1, <3>2
      <4>2. Owner(s, d) = Owner(s, e)
        BY <2>5, <4>1 DEF Owner, OwnerIn
      <4>3. d = e
        BY <1>1, <1>6, <4>2, TwoEnds
      <4> QED
        BY <3>1, <4>1, <4>3
    <3> QED
      BY <2>4, <2>6, <3>2, <3>3, <3>4
  <2> QED
    BY <2>7, <2>8, <2>9, TwoHalves DEF IInv
<1> QED
  BY <1>5, <1>6 DEF Teardown

(* A process dies: its map and its ends go, its peers' ends stay.          *)
LEMMA CrashStep ==
    ASSUME IInv, NEW n \in Node, Crash(n)
    PROVE  IInv'
<1>1. TypeOK /\ EntryIsOpenEnd /\ sock \in [Sock -> Socket]
  BY DEF IInv, TypeOK
<1> DEFINE ends(r) == [e \in Side |-> IF Owner(r, e) = n THEN "closed"
                                     ELSE sock[r].end[e]]
<1>2. \A r \in Sock : ends(r) \in [Side -> EndAt]
  BY <1>1 DEF Socket, EndAt
<1>3. \A r \in Sock, e \in Side :
         ends(r)[e] = IF Owner(r, e) = n THEN "closed" ELSE sock[r].end[e]
  OBVIOUS
<1>4. sock' = [r \in Sock |-> IF Free(r) THEN sock[r]
                              ELSE [sock[r] EXCEPT !.end = ends(r)]]
  BY DEF Crash
<1> HIDE DEF ends
<1>5. sock' \in [Sock -> Socket]
  BY <1>1, <1>2, <1>4 DEF Socket
<1>6. \A r \in Sock : /\ sock'[r].dialer = sock[r].dialer
                      /\ sock'[r].acceptor = sock[r].acceptor
                      /\ sock'[r].end = IF Free(r) THEN sock[r].end ELSE ends(r)
  BY <1>1, <1>4 DEF Socket
<1>7. /\ conn' = [conn EXCEPT ![n] = [p \in Node |-> None]]
      /\ losses < MaxLosses /\ losses' = losses + 1 /\ met' = met
  BY DEF Crash
<1>8. SameNodes
  BY <1>6 DEF SameNodes
<1>9. TypeOK'
  <2>1. \A r \in Sock : Free(r) =>
           \A e \in Side : sock'[r].end[e] \in {"none", "closed"}
    BY <1>6 DEF Free, At
  <2>2. (\A r \in Sock : Free(r) \/ sock[r].dialer # sock[r].acceptor)'
    BY <1>1, <1>8, <2>1, PairsKept
  <2>3. conn' \in [Node -> [Node -> Sock \cup {None}]]
    BY <1>1, <1>7 DEF TypeOK
  <2> QED
    BY <1>1, <1>5, <1>7, <2>2, <2>3, ConstantsAssumption DEF TypeOK
<1>10. \A m, q \in Node : conn'[m][q] = IF m = n THEN None ELSE conn[m][q]
  BY <1>1, <1>7 DEF TypeOK
<1>11. \A r \in Sock, e \in Side :
          /\ OwnerIn(sock', r, e) = OwnerIn(sock, r, e)
          /\ RemoteIn(sock', r, e) = RemoteIn(sock, r, e)
  BY <1>8 DEF SameNodes, OwnerIn, RemoteIn
<1>12. \A r \in Sock, e \in Side :
          ReadsIn(sock', r, e) <=> ReadsIn(sock, r, e) /\ OwnerIn(sock, r, e) # n
  <2> SUFFICES ASSUME NEW r \in Sock, NEW e \in Side
               PROVE  ReadsIn(sock', r, e)
                         <=> ReadsIn(sock, r, e) /\ OwnerIn(sock, r, e) # n
    OBVIOUS
  <2>1. OwnerIn(sock, r, e) = Owner(r, e)
    BY DEF OwnerIn, Owner
  <2>2. Free(r) => ~ReadsIn(sock, r, e)
    BY DEF Free, At, ReadsIn
  <2> QED
    BY <1>3, <1>6, <2>1, <2>2 DEF ReadsIn
<1>13. EntryIsRead(sock, conn) /\ ReadIsEntry(sock, conn)
  BY <1>1, TwoHalves
<1>14. EntryIsRead(sock', conn')
  <2> SUFFICES ASSUME NEW m \in Node, NEW q \in Node, conn'[m][q] # None
               PROVE  \E e \in Side : /\ OwnerIn(sock', conn'[m][q], e) = m
                                      /\ RemoteIn(sock', conn'[m][q], e) = q
                                      /\ ReadsIn(sock', conn'[m][q], e)
    BY DEF EntryIsRead
  <2>1. conn'[m][q] = conn[m][q] /\ conn[m][q] \in Sock /\ m # n
    BY <1>1, <1>10 DEF TypeOK
  <2> QED
    BY <1>11, <1>12, <1>13, <2>1 DEF EntryIsRead
<1>15. ReadIsEntry(sock', conn')
  <2>1. \A r \in Sock, e \in Side :
           OwnerIn(sock, r, e) \in Node /\ RemoteIn(sock, r, e) \in Node
    BY <1>1, NodesOfSocket DEF Owner, Remote, OwnerIn, RemoteIn
  <2> QED
    BY <1>10, <1>11, <1>12, <1>13, <2>1 DEF ReadIsEntry
<1> QED
  BY <1>9, <1>14, <1>15, TwoHalves DEF IInv

(* The end that Register tells to close is the one that read the replaced  *)
(* entry.                                                                  *)
LEMMA ToldEndRead ==
    ASSUME IInv, NEW n \in Node, NEW p \in Node, NEW told \in Side,
           conn[n][p] # None,
           told = IF sock[conn[n][p]].dialer = n THEN "out" ELSE "in"
    PROVE  /\ conn[n][p] \in Sock
           /\ Owner(conn[n][p], told) = n /\ Remote(conn[n][p], told) = p
           /\ At(conn[n][p], told) = "reading"
<1>1. conn[n][p] \in Sock
  BY DEF IInv, TypeOK
<1>2. PICK e \in Side : /\ Owner(conn[n][p], e) = n
                        /\ Remote(conn[n][p], e) = p
                        /\ At(conn[n][p], e) = "reading"
  BY DEF IInv, EntryIsOpenEnd
<1>3. sock[conn[n][p]].dialer # sock[conn[n][p]].acceptor
  BY <1>1, <1>2 DEF IInv, TypeOK, Free
<1>4. e = told
  BY <1>2, <1>3 DEF Owner, Side
<1> QED
  BY <1>1, <1>2, <1>4

(* What Register does to the ends: `told` of the replaced entry stops.     *)
LEMMA RegisterEffect ==
    ASSUME TypeOK, NEW s \in Sock, NEW d \in Side, Register(s, d),
           NEW old, old = conn[Owner(s, d)][Remote(s, d)],
           old # None => old \in Sock /\ old # s,
           NEW told \in Side,
           told = IF sock[old].dialer = Owner(s, d) THEN "out" ELSE "in"
    PROVE  /\ sock' \in [Sock -> Socket]
           /\ SameNodes
           /\ \A r \in Sock, e \in Side :
                 sock'[r].end[e] = IF r = s /\ e = d THEN "reading"
                                   ELSE IF old # None /\ r = old /\ e = told
                                        THEN "told" ELSE sock[r].end[e]
<1>1. sock \in [Sock -> Socket]
  BY DEF TypeOK
<1> DEFINE k == Move(s, d, "reading")
           moved == [sock[s].end EXCEPT ![d] = "reading"]
<1>2. moved \in [Side -> EndAt]
      /\ \A e \in Side : moved[e] = IF e = d THEN "reading" ELSE sock[s].end[e]
  BY <1>1 DEF Socket, EndAt
<1>3. k = [sock EXCEPT ![s].end = moved]
  BY DEF Move
<1>4. sock' = IF old = None THEN k ELSE [k EXCEPT ![old].end[told] = "told"]
  BY DEF Register
<1> HIDE DEF moved, k
<1>5. k \in [Sock -> Socket]
  BY <1>1, <1>2, <1>3 DEF Socket
<1>6. \A r \in Sock : /\ k[r].dialer = sock[r].dialer
                      /\ k[r].acceptor = sock[r].acceptor
                      /\ k[r].end = IF r = s THEN moved ELSE sock[r].end
  BY <1>1, <1>3 DEF Socket
<1>7. \A r \in Sock, e \in Side :
         k[r].end[e] = IF r = s /\ e = d THEN "reading" ELSE sock[r].end[e]
  BY <1>2, <1>6
<1>8. CASE old = None
  <2>1. sock' = k
    BY <1>4, <1>8
  <2> QED
    BY <1>5, <1>6, <1>7, <1>8, <2>1 DEF SameNodes
<1>9. CASE old # None
  <2>1. old \in Sock /\ old # s
    BY <1>9
  <2> DEFINE closing == [k[old].end EXCEPT ![told] = "told"]
  <2>2. closing \in [Side -> EndAt]
        /\ \A e \in Side : closing[e] = IF e = told THEN "told" ELSE k[old].end[e]
    BY <1>5, <2>1 DEF Socket, EndAt
  <2>3. sock' = [k EXCEPT ![old].end = closing]
    BY <1>4, <1>9
  <2> HIDE DEF closing
  <2>4. sock' \in [Sock -> Socket]
    BY <1>5, <2>1, <2>2, <2>3 DEF Socket
  <2>5. \A r \in Sock : /\ sock'[r].dialer = k[r].dialer
                        /\ sock'[r].acceptor = k[r].acceptor
                        /\ sock'[r].end = IF r = old THEN closing ELSE k[r].end
    BY <1>5, <2>3 DEF Socket
  <2>6. \A r \in Sock, e \in Side :
           sock'[r].end[e] = IF r = old /\ e = told THEN "told" ELSE k[r].end[e]
    BY <2>2, <2>5
  <2> QED
    BY <1>6, <1>7, <1>9, <2>1, <2>4, <2>5, <2>6 DEF SameNodes
<1> QED
  BY <1>8, <1>9

(* A connection is registered: a replaced entry's read loop is told.       *)
LEMMA RegisterStep ==
    ASSUME IInv, NEW s \in Sock, NEW d \in Side, Register(s, d)
    PROVE  IInv'
<1>1. TypeOK /\ EntryIsOpenEnd
  BY DEF IInv
<1> DEFINE n == Owner(s, d)  p == Remote(s, d)  old == conn[n][p]
           told == IF sock[old].dialer = n THEN "out" ELSE "in"
           gone(r, e) == old # None /\ r = old /\ e = told
<1>2. n \in Node /\ p \in Node /\ told \in Side /\ At(s, d) = "ready"
  BY <1>1, NodesOfSocket DEF Register, Side
<1>3. old # None => /\ old \in Sock /\ Owner(old, told) = n
                    /\ Remote(old, told) = p /\ At(old, told) = "reading"
  BY <1>2, ToldEndRead
<1>4. old # None => old # s
  BY <1>1, <1>2, <1>3, TwoEnds
<1>5. /\ sock' \in [Sock -> Socket] /\ SameNodes
      /\ \A r \in Sock, e \in Side :
            sock'[r].end[e] = IF r = s /\ e = d THEN "reading"
                              ELSE IF gone(r, e) THEN "told" ELSE sock[r].end[e]
  BY <1>1, <1>2, <1>3, <1>4, RegisterEffect
<1>6. /\ conn' = [conn EXCEPT ![n] = [conn[n] EXCEPT ![p] = s]]
      /\ UNCHANGED <<met, losses>>
  BY DEF Register
<1>7. /\ n = OwnerIn(sock, s, d) /\ p = RemoteIn(sock, s, d)
      /\ EntryIsRead(sock, conn) /\ ReadIsEntry(sock, conn)
      /\ ~ReadsIn(sock, s, d)
      /\ old # None => /\ OwnerIn(sock, old, told) = n
                       /\ RemoteIn(sock, old, told) = p
  BY <1>1, <1>2, <1>3, TwoHalves
     DEF Owner, Remote, OwnerIn, RemoteIn, ReadsIn, At
<1>8. old = conn[n][p]
  OBVIOUS
<1>9. TypeOK'
  <2>1. ~Free(s) /\ (old # None => ~Free(old))
    BY <1>2, <1>3 DEF Free
  <2>2. \A r \in Sock : Free(r) =>
           \A e \in Side : sock'[r].end[e] \in {"none", "closed"}
    BY <1>5, <2>1 DEF Free, At
  <2>3. (\A r \in Sock : Free(r) \/ sock[r].dialer # sock[r].acceptor)'
    BY <1>1, <1>5, <2>2, PairsKept
  <2>4. conn' \in [Node -> [Node -> Sock \cup {None}]]
    BY <1>1, <1>2, <1>6 DEF TypeOK
  <2> QED
    BY <1>1, <1>5, <1>6, <2>3, <2>4 DEF TypeOK
<1> HIDE DEF n, p, old, told
<1>10. \A m, q \in Node :
          conn'[m][q] = IF m = n /\ q = p THEN s ELSE conn[m][q]
  BY <1>1, <1>2, <1>6 DEF TypeOK
<1>11. \A r \in Sock, e \in Side :
          /\ OwnerIn(sock', r, e) = OwnerIn(sock, r, e)
          /\ RemoteIn(sock', r, e) = RemoteIn(sock, r, e)
          /\ ReadsIn(sock', r, e)
                <=> (r = s /\ e = d) \/ (ReadsIn(sock, r, e) /\ ~gone(r, e))
  BY <1>4, <1>5 DEF SameNodes, OwnerIn, RemoteIn, ReadsIn
<1>12. EntryIsRead(sock', conn')
  <2> SUFFICES ASSUME NEW m \in Node, NEW q \in Node, conn'[m][q] # None
               PROVE  \E e \in Side : /\ OwnerIn(sock', conn'[m][q], e) = m
                                      /\ RemoteIn(sock', conn'[m][q], e) = q
                                      /\ ReadsIn(sock', conn'[m][q], e)
    BY DEF EntryIsRead
  <2>1. CASE m = n /\ q = p
    BY <1>2, <1>7, <1>10, <1>11, <2>1
  <2>2. CASE ~(m = n /\ q = p)
    <3>1. conn'[m][q] = conn[m][q] /\ conn[m][q] \in Sock
      BY <1>1, <1>10, <2>2 DEF TypeOK
    <3>2. PICK e \in Side : /\ OwnerIn(sock, conn[m][q], e) = m
                            /\ RemoteIn(sock, conn[m][q], e) = q
                            /\ ReadsIn(sock, conn[m][q], e)
      BY <1>7, <3>1 DEF EntryIsRead
    <3>3. ~gone(conn[m][q], e)
      BY <1>7, <2>2, <3>2
    <3> QED
      BY <1>11, <3>1, <3>2, <3>3
  <2> QED
    BY <2>1, <2>2
<1>13. ReadIsEntry(sock', conn')
  <2> SUFFICES ASSUME NEW r \in Sock, NEW e \in Side, ReadsIn(sock', r, e)
               PROVE  conn'[OwnerIn(sock', r, e)][RemoteIn(sock', r, e)] = r
    BY DEF ReadIsEntry
  <2>1. CASE r = s /\ e = d
    BY <1>2, <1>7, <1>10, <1>11, <2>1
  <2>2. CASE ~(r = s /\ e = d)
    <3>1. ReadsIn(sock, r, e) /\ ~gone(r, e)
      BY <1>11, <2>2
    <3>2. conn[OwnerIn(sock, r, e)][RemoteIn(sock, r, e)] = r
      BY <1>7, <3>1 DEF ReadIsEntry
    <3>3. OwnerIn(sock, r, e) \in Node /\ RemoteIn(sock, r, e) \in Node
      BY <1>1, NodesOfSocket DEF Owner, Remote, OwnerIn, RemoteIn
    <3>4. ~(OwnerIn(sock, r, e) = n /\ RemoteIn(sock, r, e) = p)
      <4> SUFFICES ASSUME OwnerIn(sock, r, e) = n, RemoteIn(sock, r, e) = p
                   PROVE  FALSE
        OBVIOUS
      <4>1. r = old /\ r # None
        BY <1>8, <3>2, ConstantsAssumption
      <4>2. Owner(r, e) = Owner(r, told)
        BY <1>7, <4>1 DEF Owner, OwnerIn
      <4>3. At(r, e) = "reading"
        BY <3>1 DEF At, ReadsIn
      <4>4. e = told
        BY <1>1, <1>2, <4>2, <4>3, TwoEnds
      <4> QED
        BY <3>1, <4>1, <4>4
    <3> QED
      BY <1>10, <1>11, <3>2, <3>3, <3>4
  <2> QED
    BY <2>1, <2>2
<1> QED
  BY <1>9, <1>12, <1>13, TwoHalves DEF IInv

-----------------------------------------------------------------------------
(* IInv is inductive.                                                      *)

(* No socket is in use and no map has an entry.                            *)
LEMMA Initially == Init => IInv
<1> SUFFICES ASSUME Init PROVE IInv
  OBVIOUS
<1>1. PICK m \in Node : sock = [s \in Sock |-> InitSocket(m, m, "none")]
  BY DEF Init
<1>2. InitSocket(m, m, "none") \in Socket
  BY DEF InitSocket, Socket, Side, EndAt
<1>3. \A s \in Sock, d \in Side : At(s, d) = "none"
  BY <1>1 DEF At, InitSocket
<1>4. TypeOK
  BY <1>1, <1>2, <1>3, ConstantsAssumption DEF Init, TypeOK, Free
<1>5. EntryIsOpenEnd
  BY <1>3 DEF Init, EntryIsOpenEnd
<1> QED
  BY <1>4, <1>5 DEF IInv

(* Every step keeps the types and the agreement.                           *)
LEMMA Inductive == IInv /\ [Next]_vars => IInv'
<1> SUFFICES ASSUME IInv, [Next]_vars PROVE IInv'
  OBVIOUS
<1>1. ASSUME NEW s \in Sock, SockStep(s) PROVE IInv'
  <2>1. CASE AcceptorGreets(s)
    BY <2>1, AcceptorStep
  <2>2. CASE DialerGreets(s)
    <3>1. "out" \in Side
      BY DEF Side
    <3> QED
      BY <2>2, <3>1, QuietSteps
  <2>3. ASSUME NEW d \in Side, SideStep(s, d) PROVE IInv'
    BY <2>3, QuietSteps, RegisterStep, TeardownStep DEF SideStep
  <2> QED
    BY <1>1, <2>1, <2>2, <2>3 DEF SockStep
<1>2. ASSUME NEW s \in Sock, Break(s) PROVE IInv'
  BY <1>2, BreakStep
<1>3. ASSUME NEW s \in Sock, NEW d \in Side, HandshakeTimesOut(s, d) PROVE IInv'
  BY <1>3, QuietSteps
<1>4. ASSUME NEW n \in Node, NEW p \in Node, Redial(n, p) PROVE IInv'
  BY <1>4, DialStep DEF Redial
<1>5. ASSUME NEW n \in Node, Crash(n) PROVE IInv'
  BY <1>5, CrashStep
<1>6. CASE UNCHANGED vars
  BY <1>6 DEF vars, IInv, TypeOK, Free, At, EntryIsOpenEnd, Owner, Remote
<1> QED
  BY <1>1, <1>2, <1>3, <1>4, <1>5, <1>6 DEF Next

(* The inductive invariant holds in every reachable state.                 *)
THEOREM Invariant == Spec => []IInv
<1>1. Init => IInv
  BY Initially
<1>2. IInv /\ [Next]_vars => IInv'
  BY Inductive
<1> QED
  BY <1>1, <1>2, PTL DEF Spec

(* Sockets, maps and handshakes keep their types, and no socket in use     *)
(* connects a node to itself, whatever the dials, breaks and crashes.      *)
THEOREM TypeCorrect == Spec => []TypeOK
<1>1. IInv => TypeOK
  BY DEF IInv
<1> QED
  BY <1>1, Invariant, PTL

(* For any number of nodes and sockets and any order of their ids, an      *)
(* entry of state.connections is a socket whose read loop runs and was not *)
(* told to close, and each such read loop's socket is its peer's entry.    *)
THEOREM MapMatchesLoops == Spec => []EntryIsOpenEnd
<1>1. IInv => EntryIsOpenEnd
  BY DEF IInv
<1> QED
  BY <1>1, Invariant, PTL

-----------------------------------------------------------------------------
(* Duplicates: of the sockets of a pair of nodes the one that the node     *)
(* with the smaller id dialed is kept, by either end.                      *)

Unspoilt == {"greet", "ready", "reading"}

SameWay(s, t) ==
    sock[t].dialer = sock[s].dialer /\ sock[t].acceptor = sock[s].acceptor

(* In use between the same nodes, and dialed by the smaller of the two.    *)
Outranks(t, s) ==
    /\ ~Free(t)
    /\ sock[t].dialer = sock[s].acceptor /\ sock[t].acceptor = sock[s].dialer
    /\ Rank[sock[t].dialer] < Rank[sock[s].dialer]

Leads(s) == ~Free(s) /\ \A t \in Sock : ~Outranks(t, s)

(* Neither end has given it up, and its dialer has no other one.           *)
Spared(s) ==
    /\ ~sock[s].broken /\ \A d \in Side : At(s, d) \in Unspoilt
    /\ \A t \in Sock : ~Free(t) /\ SameWay(s, t) => t = s

LeadersSpared == \A s \in Sock : Leads(s) => Spared(s)

(* Nodes that have met have a socket in use.                               *)
MetAreJoined ==
    \A n, p \in Node : {n, p} \in met =>
        \E s \in Sock : ~Free(s) /\ {sock[s].dialer, sock[s].acceptor} = {n, p}

Sparing == losses = 0 => LeadersSpared /\ MetAreJoined

(* A socket in use connects two nodes, whose ids are ordered.              *)
LEMMA RanksDiffer ==
    ASSUME TypeOK, NEW s \in Sock, ~Free(s)
    PROVE  /\ sock[s].dialer \in Node /\ sock[s].acceptor \in Node
           /\ sock[s].dialer # sock[s].acceptor
           /\ Rank[sock[s].dialer] \in Nat /\ Rank[sock[s].acceptor] \in Nat
           /\ Rank[sock[s].dialer] # Rank[sock[s].acceptor]
<1>1. sock[s].dialer \in Node /\ sock[s].acceptor \in Node
  BY DEF TypeOK, Socket
<1> QED
  BY <1>1, ConstantsAssumption DEF TypeOK

(* Nothing outranks the socket that outranks another.                      *)
LEMMA OutrankingLeads ==
    ASSUME TypeOK, NEW s \in Sock, NEW t \in Sock, ~Free(s), Outranks(t, s)
    PROVE  Leads(t)
BY RanksDiffer DEF Outranks, Leads

LEMMA LeaderExists ==
    ASSUME TypeOK, NEW s \in Sock, ~Free(s)
    PROVE  \E t \in Sock : /\ Leads(t)
                           /\ {sock[t].dialer, sock[t].acceptor}
                                = {sock[s].dialer, sock[s].acceptor}
<1>1. CASE Leads(s)
  BY <1>1
<1>2. CASE ~Leads(s)
  <2>1. PICK t \in Sock : Outranks(t, s)
    BY <1>2 DEF Leads
  <2> QED
    BY <2>1, OutrankingLeads DEF Outranks
<1> QED
  BY <1>1, <1>2

(* No end drops the leader as a duplicate.                                 *)
LEMMA LeaderAccepted ==
    ASSUME IInv, NEW s \in Sock, NEW d \in Side, Leads(s), Spared(s),
           At(s, d) = "ready"
    PROVE  Accepted(s, d, Owner(s, d), Remote(s, d))
<1> DEFINE n == Owner(s, d)  p == Remote(s, d)  old == conn[n][p]
           told == IF sock[old].dialer = n THEN "out" ELSE "in"
<1> SUFFICES ASSUME old # None
             PROVE  DuplicateReplacesExisting(d = "out", sock[old].dialer = n, n, p)
  BY DEF Accepted
<1>1. TypeOK /\ ~Free(s) /\ n \in Node /\ p \in Node /\ told \in Side
  BY NodesOfSocket DEF IInv, Leads, Side
<1>2. /\ old \in Sock /\ Owner(old, told) = n /\ Remote(old, told) = p
      /\ At(old, told) = "reading"
  BY <1>1, ToldEndRead
<1>3. ~Free(old)
  BY <1>1, <1>2 DEF Free
<1>4. told # d
  <2> SUFFICES ASSUME told = d PROVE FALSE
    OBVIOUS
  <2>1. SameWay(s, old)
    BY <1>2 DEF SameWay, Owner, Remote
  <2> QED
    BY <1>2, <1>3, <2>1 DEF Spared
<1>5. sock[old].dialer = sock[s].acceptor /\ sock[old].acceptor = sock[s].dialer
  BY <1>1, <1>2, <1>4 DEF Owner, Remote, Side
<1>6. ~(Rank[sock[s].acceptor] < Rank[sock[s].dialer])
  BY <1>2, <1>3, <1>5 DEF Leads, Outranks
<1>7. Rank[sock[s].dialer] <= Rank[sock[s].acceptor]
  BY <1>1, <1>6, RanksDiffer
<1>8. /\ sock[s].dialer = IF d = "out" THEN n ELSE p
      /\ {n, p} = {sock[s].dialer, sock[s].acceptor}
      /\ sock[s].dialer # sock[s].acceptor
  BY <1>1, RanksDiffer DEF Owner, Remote
<1>9. (d = "out") # (sock[old].dialer = n)
  BY <1>1, <1>5, <1>8 DEF Owner, Side
<1> QED
  BY <1>1, <1>7, <1>8, <1>9, RanksDiffer DEF DuplicateReplacesExisting, Owner, Remote

(* No registration replaces it.                                            *)
LEMMA LeaderNotReplaced ==
    ASSUME IInv, NEW s \in Sock, NEW d \in Side, Register(s, d), NEW t \in Sock,
           Leads(t), conn[Owner(s, d)][Remote(s, d)] = t
    PROVE  FALSE
<1> DEFINE n == Owner(s, d)  p == Remote(s, d)
           told == IF sock[t].dialer = n THEN "out" ELSE "in"
<1>1. /\ TypeOK /\ n \in Node /\ p \in Node /\ told \in Side
      /\ At(s, d) = "ready" /\ t # None
  BY NodesOfSocket, ConstantsAssumption DEF IInv, Side, Register
<1>2. ~Free(s)
  BY <1>1 DEF Free
<1>3. Owner(t, told) = n /\ Remote(t, told) = p
  BY <1>1, ToldEndRead
<1>4. DuplicateReplacesExisting(d = "out", sock[t].dialer = n, n, p)
  BY <1>1 DEF Register, Accepted
<1>5. told # d
  BY <1>4 DEF DuplicateReplacesExisting
<1>6. sock[t].dialer = sock[s].acceptor /\ sock[t].acceptor = sock[s].dialer
  BY <1>1, <1>3, <1>5 DEF Owner, Remote, Side
<1>7. Rank[sock[s].dialer] <= Rank[sock[s].acceptor]
  BY <1>1, <1>4 DEF DuplicateReplacesExisting, Owner, Remote, Side
<1>8. Rank[sock[s].dialer] < Rank[sock[t].dialer]
  BY <1>1, <1>2, <1>6, <1>7, RanksDiffer
<1>9. Outranks(s, t)
  BY <1>2, <1>6, <1>8 DEF Outranks
<1> QED
  BY <1>9 DEF Leads

(* A step of a socket in use: nodes and brokenness stay.                   *)
LEMMA WholeStays ==
    ASSUME TypeOK, NEW s \in Sock, SockStep(s)
    PROVE  \A r \in Sock : sock'[r].broken = sock[r].broken
<1>0. sock \in [Sock -> Socket]
  BY DEF TypeOK
<1>1. ASSUME NEW r \in Sock, NEW d \in Side, NEW at, NEW k, k = Move(r, d, at)
      PROVE  DOMAIN k = Sock /\ \A q \in Sock : DOMAIN k[q] = DOMAIN sock[q] /\ k[q].broken = sock[q].broken
  BY <1>0, <1>1 DEF Move, Socket
<1>2. CASE AcceptorGreets(s)
  <2> DEFINE k == Move(s, "in", "ready")
  <2>1. /\ sock' = [k EXCEPT ![s].acked = TRUE]
        /\ DOMAIN k = Sock /\ \A q \in Sock : DOMAIN k[q] = DOMAIN sock[q] /\ k[q].broken = sock[q].broken
    BY <1>1, <1>2 DEF AcceptorGreets, Side
  <2> HIDE DEF k
  <2> QED
    BY <1>0, <2>1 DEF Socket
<1>3. CASE DialerGreets(s)
  BY <1>1, <1>3 DEF DialerGreets, Side
<1>4. ASSUME NEW d \in Side, HandshakeFails(s, d) \/ DropDuplicate(s, d) \/ Teardown(s, d)
      PROVE  \A r \in Sock : sock'[r].broken = sock[r].broken
  BY <1>1, <1>4 DEF HandshakeFails, DropDuplicate, Teardown
<1>5. ASSUME NEW d \in Side, Register(s, d)
      PROVE  \A r \in Sock : sock'[r].broken = sock[r].broken
  <2> DEFINE k == Move(s, d, "reading")
             old == conn[Owner(s, d)][Remote(s, d)]
             told == IF sock[old].dialer = Owner(s, d) THEN "out" ELSE "in"
  <2>1. /\ DOMAIN k = Sock /\ \A q \in Sock : DOMAIN k[q] = DOMAIN sock[q] /\ k[q].broken = sock[q].broken
        /\ sock' = IF old = None THEN k ELSE [k EXCEPT ![old].end[told] = "told"]
    BY <1>1, <1>5 DEF Register
  <2> HIDE DEF k, old, told
  <2> QED
    BY <1>0, <2>1 DEF Socket
<1> QED
  BY <1>2, <1>3, <1>4, <1>5 DEF SockStep, SideStep

(* A step of a socket leaves free sockets free and spares the leaders.     *)
LEMMA LeadersStay ==
    ASSUME IInv, LeadersSpared, NEW s \in Sock, SockStep(s)
    PROVE  /\ SameNodes /\ losses' = losses /\ ~Free(s)
           /\ \A r \in Sock : Free(r) =>
                \A e \in Side : sock'[r].end[e] \in {"none", "closed"}
           /\ \A r \in Sock : Leads(r) =>
                /\ ~sock'[r].broken
                /\ \A e \in Side : sock'[r].end[e] \in Unspoilt
<1>1. TypeOK /\ \A r \in Sock : sock'[r].broken = sock[r].broken
  BY WholeStays DEF IInv
<1>2. ASSUME NEW d \in Side, NEW at \in EndAt, At(s, d) \notin {"none", "closed"},
             SameNodes, losses' = losses,
             \A r \in Sock, e \in Side :
                \/ r = s /\ e = d /\ sock'[r].end[e] = at
                \/ ~(r = s /\ e = d) /\ sock'[r].end[e] = sock[r].end[e]
                \/ ~(r = s /\ e = d) /\ ~Leads(r) /\ At(r, e) = "reading",
             Leads(s) => at \in Unspoilt
      PROVE  /\ SameNodes /\ losses' = losses /\ ~Free(s)
             /\ \A r \in Sock : Free(r) =>
                  \A e \in Side : sock'[r].end[e] \in {"none", "closed"}
             /\ \A r \in Sock : Leads(r) =>
                  /\ ~sock'[r].broken
                  /\ \A e \in Side : sock'[r].end[e] \in Unspoilt
  <2>1. ~Free(s)
    BY <1>2 DEF Free
  <2>2. ASSUME NEW r \in Sock, NEW e \in Side, Free(r)
        PROVE  sock'[r].end[e] \in {"none", "closed"}
    <3>1. r # s /\ At(r, e) \in {"none", "closed"}
      BY <2>1, <2>2 DEF Free
    <3> QED
      BY <1>2, <3>1 DEF At
  <2>3. ASSUME NEW r \in Sock, Leads(r)
        PROVE  ~sock'[r].broken /\ \A e \in Side : sock'[r].end[e] \in Unspoilt
    <3>1. Spared(r)
      BY <2>3 DEF LeadersSpared
    <3>2. \A e \in Side : sock[r].end[e] \in Unspoilt
      BY <3>1 DEF Spared, At
    <3> QED
      BY <1>1, <1>2, <2>3, <3>1, <3>2 DEF Spared
  <2> QED
    BY <1>2, <2>1, <2>2, <2>3
<1>3. Leads(s) => Spared(s) /\ \A d \in Side : ~Hangs(s, d) /\ At(s, d) \in Unspoilt
  BY DEF LeadersSpared, Spared, Hangs, Other, Side, Unspoilt
<1>4. CASE AcceptorGreets(s)
  <2>1. At(s, "in") = "greet" /\ losses' = losses /\ "in" \in Side
    BY <1>4 DEF AcceptorGreets, Side
  <2>2. /\ SameNodes
        /\ \A r \in Sock, e \in Side :
              sock'[r].end[e] = IF r = s /\ e = "in" THEN "ready" ELSE sock[r].end[e]
    BY <1>1, <1>4, AcceptorEffect
  <2> QED
    BY <1>2, <2>1, <2>2 DEF EndAt, Unspoilt
<1>5. ASSUME NEW d \in Side, NEW at \in EndAt, At(s, d) \notin {"none", "closed"},
             sock' = Move(s, d, at), losses' = losses, Leads(s) => at \in Unspoilt
      PROVE  /\ SameNodes /\ losses' = losses /\ ~Free(s)
             /\ \A r \in Sock : Free(r) =>
                  \A e \in Side : sock'[r].end[e] \in {"none", "closed"}
             /\ \A r \in Sock : Leads(r) =>
                  /\ ~sock'[r].broken
                  /\ \A e \in Side : sock'[r].end[e] \in Unspoilt
  <2>1. /\ SameNodes
        /\ \A r \in Sock, e \in Side :
              sock'[r].end[e] = IF r = s /\ e = d THEN at ELSE sock[r].end[e]
    BY <1>1, <1>5, MoveEffect
  <2> QED
    BY <1>2, <1>5, <2>1
<1>6. CASE DialerGreets(s)
  <2>1. /\ At(s, "out") = "greet" /\ losses' = losses /\ "out" \in Side
        /\ "ready" \in EndAt /\ "ready" \in Unspoilt /\ sock' = Move(s, "out", "ready")
    BY <1>6 DEF DialerGreets, Side, EndAt, Unspoilt
  <2> QED
    BY <1>5, <2>1
<1>7. ASSUME NEW d \in Side, HandshakeFails(s, d) \/ DropDuplicate(s, d) \/ Teardown(s, d)
      PROVE  /\ sock' = Move(s, d, "closed") /\ losses' = losses
             /\ At(s, d) \notin {"none", "closed"} /\ "closed" \in EndAt /\ ~Leads(s)
  <2>1. /\ sock' = Move(s, d, "closed") /\ losses' = losses
        /\ At(s, d) \notin {"none", "closed"} /\ "closed" \in EndAt
    BY <1>7 DEF HandshakeFails, DropDuplicate, Teardown, EndAt
  <2>2. CASE HandshakeFails(s, d) \/ Teardown(s, d)
    BY <1>3, <2>1, <2>2 DEF HandshakeFails, Teardown, Unspoilt
  <2>3. CASE DropDuplicate(s, d)
    BY <1>3, <2>1, <2>3, LeaderAccepted DEF DropDuplicate
  <2> QED
    BY <1>7, <2>2, <2>3
<1>8. ASSUME NEW d \in Side, Register(s, d)
      PROVE  /\ SameNodes /\ losses' = losses /\ ~Free(s)
             /\ \A r \in Sock : Free(r) =>
                  \A e \in Side : sock'[r].end[e] \in {"none", "closed"}
             /\ \A r \in Sock : Leads(r) =>
                  /\ ~sock'[r].broken
                  /\ \A e \in Side : sock'[r].end[e] \in Unspoilt
  <2> DEFINE n == Owner(s, d)  p == Remote(s, d)  old == conn[n][p]
             told == IF sock[old].dialer = n THEN "out" ELSE "in"
  <2>1. /\ n \in Node /\ p \in Node /\ told \in Side /\ At(s, d) = "ready"
        /\ losses' = losses /\ "reading" \in EndAt /\ "reading" \in Unspoilt
    BY <1>1, <1>8, NodesOfSocket DEF Register, Side, EndAt, Unspoilt
  <2>2. old # None => /\ old \in Sock /\ Owner(old, told) = n
                      /\ Remote(old, told) = p /\ At(old, told) = "reading"
    BY <2>1, ToldEndRead
  <2>3. old # None => old # s
    BY <1>1, <2>1, <2>2, TwoEnds
  <2>4. /\ SameNodes
        /\ \A r \in Sock, e \in Side :
              sock'[r].end[e] = IF r = s /\ e = d THEN "reading"
                                ELSE IF old # None /\ r = old /\ e = told
                                     THEN "told" ELSE sock[r].end[e]
    BY <1>1, <1>8, <2>1, <2>2, <2>3, RegisterEffect
  <2>5. old # None => ~Leads(old)
    BY <1>8, <2>2, LeaderNotReplaced
  <2> HIDE DEF n, p, old, told
  <2>6. \A r \in Sock, e \in Side :
           \/ r = s /\ e = d /\ sock'[r].end[e] = "reading"
           \/ ~(r = s /\ e = d) /\ sock'[r].end[e] = sock[r].end[e]
           \/ ~(r = s /\ e = d) /\ ~Leads(r) /\ At(r, e) = "reading"
    BY <2>2, <2>4, <2>5
  <2> QED
    BY <1>2, <2>1, <2>4, <2>6
<1> QED
  BY <1>4, <1>5, <1>6, <1>7, <1>8 DEF SockStep, SideStep

LEMMA SparingSock ==
    ASSUME IInv, LeadersSpared, MetAreJoined, NEW s \in Sock, SockStep(s)
    PROVE  LeadersSpared' /\ MetAreJoined'
<1>1. /\ TypeOK /\ SameNodes /\ ~Free(s)
      /\ \A r \in Sock : Free(r) =>
           \A e \in Side : sock'[r].end[e] \in {"none", "closed"}
      /\ \A r \in Sock : Leads(r) =>
           /\ ~sock'[r].broken
           /\ \A e \in Side : sock'[r].end[e] \in Unspoilt
  BY LeadersStay DEF IInv
<1>2. \A r \in Sock : Free(r) => Free(r)'
  BY <1>1 DEF Free, At
<1>3. \A r \in Sock : Leads(r) => ~Free(r)'
  BY <1>1 DEF Free, At, Unspoilt, Side
<1>4. LeadersSpared'
  <2> SUFFICES ASSUME NEW r \in Sock, Leads(r)' PROVE Spared(r)'
    BY DEF LeadersSpared
  <2>1. ~Free(r)' /\ ~Free(r)
    BY <1>2 DEF Leads
  <2>2. Leads(r)
    <3> SUFFICES ASSUME ~Leads(r) PROVE FALSE
      OBVIOUS
    <3>1. PICK t \in Sock : Outranks(t, r)
      BY <2>1 DEF Leads
    <3>2. ~Free(t)'
      BY <1>1, <1>3, <2>1, <3>1, OutrankingLeads
    <3>3. Outranks(t, r)'
      BY <1>1, <3>1, <3>2 DEF Outranks, SameNodes
    <3> QED
      BY <3>3 DEF Leads
  <2>3. /\ ~sock'[r].broken /\ \A e \in Side : sock'[r].end[e] \in Unspoilt
        /\ Spared(r)
    BY <1>1, <2>2 DEF LeadersSpared
  <2>4. \A t \in Sock : ~Free(t)' /\ SameWay(r, t)' => t = r
    BY <1>1, <1>2, <2>3 DEF Spared, SameWay, SameNodes
  <2> QED
    BY <2>3, <2>4 DEF Spared, At
<1>5. MetAreJoined'
  <2> SUFFICES ASSUME NEW n \in Node, NEW p \in Node, {n, p} \in met'
               PROVE  \E t \in Sock : /\ ~Free(t)'
                                      /\ {sock'[t].dialer, sock'[t].acceptor} = {n, p}
    BY DEF MetAreJoined
  <2>1. CASE {n, p} \in met
    <3>1. PICK x \in Sock : ~Free(x) /\ {sock[x].dialer, sock[x].acceptor} = {n, p}
      BY <2>1 DEF MetAreJoined
    <3>2. PICK t \in Sock : Leads(t) /\ {sock[t].dialer, sock[t].acceptor} = {n, p}
      BY <1>1, <3>1, LeaderExists
    <3> QED
      BY <1>1, <1>3, <3>2 DEF SameNodes
  <2>2. CASE {n, p} \notin met
    <3>1. AcceptorGreets(s) /\ {n, p} = {sock[s].dialer, sock[s].acceptor}
      BY <2>2 DEF SockStep, SideStep, AcceptorGreets, DialerGreets, HandshakeFails,
           Register, DropDuplicate, Teardown
    <3>2. sock'[s].end["in"] = "ready" /\ "in" \in Side
      BY <1>1, <3>1, AcceptorEffect DEF Side
    <3>3. ~Free(s)'
      BY <3>2 DEF Free, At
    <3> QED
      BY <1>1, <3>1, <3>3 DEF SameNodes
  <2> QED
    BY <2>1, <2>2
<1> QED
  BY <1>4, <1>5

(* Who dials has no leader of his own; a dial that is outranked may leave  *)
(* two of them.                                                            *)
LEMMA DialsAlone ==
    ASSUME IInv, MaxDials = 1, LeadersSpared, NEW s \in Sock, NEW n \in Node, NEW p \in Node,
           Dial(s, n, p), NEW t \in Sock, sock[t].dialer = n, sock[t].acceptor = p
    PROVE  ~Leads(t)
<1> SUFFICES ASSUME Leads(t) PROVE FALSE
  OBVIOUS
<1> DEFINE own == {r \in Sock : /\ sock[r].dialer = n /\ sock[r].acceptor = p
                                /\ At(r, "out") \in {"greet", "ready"}}
<1>1. IsFiniteSet(own) /\ Cardinality(own) < 1
  BY ConstantsAssumption, FS_Subset DEF Dial
<1>2. own = {}
  <2> HIDE DEF own
  <2>1. Cardinality(own) \in Nat
    BY <1>1, FS_CardinalityType
  <2> QED
    BY <1>1, <2>1, FS_EmptySet
<1>3. "out" \in Side /\ At(t, "out") \in Unspoilt
  BY DEF LeadersSpared, Spared, Side
<1>4. At(t, "out") = "reading"
  BY <1>2, <1>3 DEF Unspoilt
<1>5. Owner(t, "out") = n /\ Remote(t, "out") = p
  BY DEF Owner, Remote
<1>6. conn[n][p] = t
  BY <1>3, <1>4, <1>5 DEF IInv, EntryIsOpenEnd
<1> QED
  BY <1>6, ConstantsAssumption DEF Dial

LEMMA SparingDial ==
    ASSUME IInv, MaxDials = 1, LeadersSpared, MetAreJoined,
           NEW s \in Sock, NEW n \in Node, NEW p \in Node, Dial(s, n, p)
    PROVE  LeadersSpared' /\ MetAreJoined'
<1>1. /\ TypeOK /\ Free(s) /\ met' = met
      /\ sock' = [sock EXCEPT ![s] = InitSocket(n, p, "greet")]
  BY DEF IInv, Dial
<1>2. \A r \in Sock : sock'[r] = IF r = s THEN InitSocket(n, p, "greet") ELSE sock[r]
  BY <1>1 DEF TypeOK
<1>3. /\ sock'[s].dialer = n /\ sock'[s].acceptor = p /\ ~sock'[s].broken
      /\ \A e \in Side : sock'[s].end[e] = "greet"
  BY <1>2 DEF InitSocket
<1>4. \A r \in Sock \ {s} : Free(r)' <=> Free(r)
  BY <1>2 DEF Free, At
<1>5. \A r, t \in Sock \ {s} : Outranks(t, r) => Outranks(t, r)'
  BY <1>2, <1>4 DEF Outranks
<1>6. \A t \in Sock : ~Free(t) => t # s
  BY <1>1
<1>7. ASSUME NEW r \in Sock, Leads(r)' PROVE Spared(r)'
  <2>1. CASE r = s
    <3> SUFFICES ASSUME NEW t \in Sock, ~Free(t)', SameWay(s, t)', t # s
                 PROVE  FALSE
      BY <1>3, <2>1 DEF Spared, At, Unspoilt
    <3>1. ~Free(t) /\ sock[t].dialer = n /\ sock[t].acceptor = p
      BY <1>2, <1>3, <1>4 DEF SameWay
    <3>2. ~Leads(t)
      BY <3>1, DialsAlone
    <3>3. PICK u \in Sock : Outranks(u, t)
      BY <3>1, <3>2 DEF Leads
    <3>4. u # s /\ Outranks(u, t)'
      BY <1>5, <1>6, <3>3 DEF Outranks
    <3>5. Outranks(u, s)'
      BY <3>4 DEF Outranks, SameWay
    <3> QED
      BY <1>7, <2>1, <3>5 DEF Leads
  <2>2. CASE r # s
    <3>1. ~Free(r)
      BY <1>4, <1>7, <2>2 DEF Leads
    <3>2. Leads(r)
      <4> SUFFICES ASSUME NEW t \in Sock, Outranks(t, r) PROVE FALSE
        BY <3>1 DEF Leads
      <4>1. Outranks(t, r)'
        BY <1>5, <1>6, <2>2 DEF Outranks
      <4> QED
        BY <1>7, <4>1 DEF Leads
    <3>3. Spared(r)
      BY <3>2 DEF LeadersSpared
    <3>4. ~SameWay(r, s)'
      BY <1>2, <1>3, <2>2, <3>2, DialsAlone DEF SameWay
    <3>5. \A t \in Sock : ~Free(t)' /\ SameWay(r, t)' => t = r
      BY <1>2, <1>4, <2>2, <3>3, <3>4 DEF Spared, SameWay
    <3> QED
      BY <1>2, <2>2, <3>3, <3>5 DEF Spared, At
  <2> QED
    BY <2>1, <2>2
<1>8. MetAreJoined'
  <2> SUFFICES ASSUME NEW m \in Node, NEW q \in Node, {m, q} \in met'
               PROVE  \E t \in Sock : /\ ~Free(t)'
                                      /\ {sock'[t].dialer, sock'[t].acceptor} = {m, q}
    BY DEF MetAreJoined
  <2>1. PICK x \in Sock : ~Free(x) /\ {sock[x].dialer, sock[x].acceptor} = {m, q}
    BY <1>1 DEF MetAreJoined
  <2>2. x # s
    BY <1>6, <2>1
  <2> QED
    BY <1>2, <1>4, <2>1, <2>2
<1> QED
  BY <1>7, <1>8 DEF LeadersSpared

(* Once two nodes have met, the settling of duplicates spares one socket   *)
(* of theirs, as long as nothing else takes one away; nodes that dial each *)
(* other once at a time.                                                   *)
THEOREM GlareSparesOne ==
    ASSUME MaxDials = 1
    PROVE  Spec => []DuplicatesSpareOne
<1>1. Init => Sparing
  BY DEF Init, Sparing, LeadersSpared, MetAreJoined, Leads, Free, At, InitSocket
<1>2. ASSUME IInv, Sparing, [Next]_vars PROVE Sparing'
  <2> SUFFICES ASSUME losses' = 0 PROVE LeadersSpared' /\ MetAreJoined'
    BY DEF Sparing
  <2>0. losses \in Nat
    BY <1>2, ConstantsAssumption DEF IInv, TypeOK
  <2>1. ASSUME NEW s \in Sock, SockStep(s) PROVE LeadersSpared' /\ MetAreJoined'
    <3>1. losses' = losses
      BY <2>1 DEF SockStep, SideStep, AcceptorGreets, DialerGreets, HandshakeFails,
           Register, DropDuplicate, Teardown
    <3> QED
      BY <1>2, <2>1, <3>1, SparingSock DEF Sparing
  <2>2. ASSUME NEW n \in Node, NEW p \in Node, Redial(n, p)
        PROVE  LeadersSpared' /\ MetAreJoined'
    <3>1. PICK s \in Sock : Dial(s, n, p)
      BY <2>2 DEF Redial
    <3>2. losses' = losses
      BY <3>1 DEF Dial
    <3> QED
      BY <1>2, <3>1, <3>2, SparingDial DEF Sparing
  <2>3. ASSUME NEW s \in Sock, \/ Break(s)
                               \/ \E d \in Side : HandshakeTimesOut(s, d)
        PROVE  FALSE
    BY <2>0, <2>3 DEF Break, HandshakeTimesOut
  <2>4. ASSUME NEW n \in Node, Crash(n) PROVE FALSE
    BY <2>0, <2>4 DEF Crash
  <2>5. CASE UNCHANGED vars
    BY <1>2, <2>5 DEF vars, Sparing, LeadersSpared, MetAreJoined, Leads, Outranks,
         Spared, SameWay, Free, At
  <2> QED
    BY <1>2, <2>1, <2>2, <2>3, <2>4, <2>5 DEF Next
<1>3. ASSUME IInv, Sparing PROVE DuplicatesSpareOne
  <2> SUFFICES ASSUME NEW n \in Node, NEW p \in Node, losses = 0, {n, p} \in met
               PROVE  \E s \in Sock : Viable(s, n, p)
    BY DEF DuplicatesSpareOne
  <2>1. PICK x \in Sock : ~Free(x) /\ {sock[x].dialer, sock[x].acceptor} = {n, p}
    BY <1>3 DEF Sparing, MetAreJoined
  <2>2. PICK s \in Sock : Leads(s) /\ {sock[s].dialer, sock[s].acceptor} = {n, p}
    BY <1>3, <2>1, LeaderExists DEF IInv
  <2>3. Spared(s)
    BY <1>3, <2>2 DEF Sparing, LeadersSpared
  <2> QED
    BY <2>2, <2>3 DEF Viable, Spared, Unspoilt
<1> QED
  BY <1>1, <1>2, <1>3, Invariant, PTL DEF Spec

-----------------------------------------------------------------------------
(* How often a frame stands in a queue.                                    *)

(* The places of a frame in a sequence are finitely many.                  *)
LEMMA PlacesFinite ==
    ASSUME NEW T, NEW s \in Seq(T), NEW f
    PROVE  /\ IsFiniteSet({i \in 1..Len(s) : s[i] = f})
           /\ Count(s, f) \in Nat
<1>1. IsFiniteSet(1..Len(s))
  BY FS_Interval
<1>2. {i \in 1..Len(s) : s[i] = f} \in SUBSET (1..Len(s))
  OBVIOUS
<1>3. IsFiniteSet({i \in 1..Len(s) : s[i] = f})
  BY <1>1, <1>2, FS_Subset
<1> QED
  BY <1>3, FS_CardinalityType DEF Count

(* The empty queue holds none.                                             *)
LEMMA CountEmpty == \A f : Count(<<>>, f) = 0
<1>1. \A f : {i \in 1..Len(<<>>) : <<>>[i] = f} = {}
  OBVIOUS
<1> QED
  BY <1>1, FS_EmptySet DEF Count

(* Appending the frame makes it one more.                                  *)
LEMMA CountAppend ==
    ASSUME NEW T, NEW s \in Seq(T), NEW e \in T, NEW f
    PROVE  Count(Append(s, e), f) = Count(s, f) + (IF e = f THEN 1 ELSE 0)
<1> DEFINE S == {i \in 1..Len(s) : s[i] = f}
           A == {i \in 1..Len(Append(s, e)) : Append(s, e)[i] = f}
<1>1. /\ Len(Append(s, e)) = Len(s) + 1
      /\ \A i \in 1..Len(s) : Append(s, e)[i] = s[i]
      /\ Append(s, e)[Len(s) + 1] = e
  BY AppendProperties
<1>2. Len(s) \in Nat
  OBVIOUS
<1>3. IsFiniteSet(S) /\ Cardinality(S) \in Nat
  BY PlacesFinite DEF Count
<1>4. Len(s) + 1 \notin S
  BY <1>2
<1>5. CASE e = f
  <2>1. A = S \cup {Len(s) + 1}
    BY <1>1, <1>2, <1>5
  <2>2. Cardinality(A) = Cardinality(S) + 1
    BY <1>3, <1>4, <2>1, FS_AddElement
  <2> QED
    BY <1>5, <2>2 DEF Count
<1>6. CASE e # f
  <2>1. A = S
    BY <1>1, <1>2, <1>6
  <2>2. Count(Append(s, e), f) = Cardinality(A) /\ Count(s, f) = Cardinality(S)
    BY DEF Count
  <2> HIDE DEF A, S
  <2> QED
    BY <1>3, <1>6, <2>1, <2>2
<1> QED
  BY <1>5, <1>6

(* Taking the first element away makes it one less if that was one.        *)
LEMMA CountTail ==
    ASSUME NEW T, NEW s \in Seq(T), s # <<>>, NEW f
    PROVE  Count(s, f) = Count(Tail(s), f) + (IF Head(s) = f THEN 1 ELSE 0)
<1> DEFINE A == {i \in 1..Len(s) : s[i] = f}
           S == {i \in 1..Len(Tail(s)) : Tail(s)[i] = f}
           B == {i \in 2..Len(s) : s[i] = f}
           F == [i \in S |-> i + 1]
<1>1. /\ Len(Tail(s)) = Len(s) - 1
      /\ \A i \in 1..Len(Tail(s)) : Tail(s)[i] = s[i + 1]
      /\ Tail(s) \in Seq(T)
      /\ Head(s) = s[1]
  BY HeadTailProperties
<1>2. Len(s) \in Nat /\ Len(s) > 0
  OBVIOUS
<1>3. IsFiniteSet(S) /\ Cardinality(S) \in Nat
  BY <1>1, PlacesFinite DEF Count
<1>4. F \in Bijection(S, B)
  <2>1. F \in [S -> B]
    BY <1>1, <1>2
  <2>2. \A a, b \in S : F[a] = F[b] => a = b
    BY <1>1, <1>2
  <2>3. \A t \in B : \E a \in S : F[a] = t
    <3> SUFFICES ASSUME NEW t \in B PROVE \E a \in S : F[a] = t
      OBVIOUS
    <3>1. t - 1 \in S /\ (t - 1) + 1 = t
      BY <1>1, <1>2
    <3> QED
      BY <3>1
  <2> HIDE DEF F, S, B
  <2> QED
    BY <2>1, <2>2, <2>3, Fun_IsBij
<1>5. ExistsBijection(S, B)
  BY <1>4, Fun_ExistsBij
<1>6. IsFiniteSet(B) /\ Cardinality(B) = Cardinality(S)
  <2> HIDE DEF S, B
  <2> QED
    BY <1>3, <1>5, FS_Bijection
<1>7. 1 \notin B
  OBVIOUS
<1>8. CASE Head(s) = f
  <2>1. A = B \cup {1}
    BY <1>1, <1>2, <1>8
  <2>2. Cardinality(A) = Cardinality(B) + 1
    BY <1>6, <1>7, <2>1, FS_AddElement
  <2> QED
    BY <1>6, <1>8, <2>2 DEF Count
<1>9. CASE Head(s) # f
  <2>1. A = B
    BY <1>1, <1>2, <1>9
  <2>2. Count(s, f) = Cardinality(A) /\ Count(Tail(s), f) = Cardinality(S)
    BY DEF Count
  <2> HIDE DEF A, B, S
  <2> QED
    BY <1>3, <1>6, <1>9, <2>1, <2>2
<1> QED
  BY <1>8, <1>9

(* The other end's other end is this one.                                  *)
LEMMA PeerOfPeer ==
    ASSUME NEW n \in Ends
    PROVE  /\ Peer(n) \in Ends /\ Peer(n) # n
           /\ Peer(Peer(n)) = n
           /\ \A q \in Ends : q = n \/ q = Peer(n)
<1>1. IsFiniteSet(Ends) /\ Cardinality(Ends) = 2
  BY QueuesAssumption
<1>2. IsFiniteSet(Ends \ {n}) /\ Cardinality(Ends \ {n}) = 1
  BY <1>1, FS_RemoveElement
<1>3. PICK p : Ends \ {n} = {p}
  BY <1>2, FS_Singleton
<1>4. p \in Ends /\ p # n /\ Ends = {n, p}
  BY <1>3
<1>5. Peer(n) = p
  BY <1>4 DEF Peer
<1>6. Peer(p) = n
  BY <1>4 DEF Peer
<1> QED
  BY <1>4, <1>5, <1>6

-----------------------------------------------------------------------------
(* No end asks for more than its windows have room for.                    *)
AskedFits == \A n \in Ends : asked[n] <= Window * Transfers

QInv == QTypeOK /\ NothingLost /\ AskedFits

(* The bounds are numbers. *)
LEMMA CapsAreNat ==
    /\ DataCap \in Nat /\ MediaCap \in Nat /\ WireCap \in Nat
    /\ DataCap > 0 /\ MediaCap > 0 /\ WireCap > 0
    /\ \A n \in Ends : Pieces[n] \in Nat
  BY QueuesAssumption

LEMMA CountsAreNat ==
    ASSUME QTypeOK, NEW n \in Ends
    PROVE  /\ ctl[n] \in Seq({"req", "text"}) /\ wire[n] \in Seq(Frame)
           /\ Count(ctl[n], "req") \in Nat
           /\ Count(wire[n], "req") \in Nat /\ Count(wire[n], "piece") \in Nat
           /\ Held(n, "req") \in Nat /\ Held(n, "piece") \in Nat
           /\ data[n] \in Nat
           /\ Due(n) \in Nat /\ Coming(n) \in Nat
<1>1. ctl[n] \in Seq({"req", "text"}) /\ wire[n] \in Seq(Frame)
  BY DEF QTypeOK
<1>2. Count(ctl[n], "req") \in Nat
  BY <1>1, PlacesFinite
<1>3. Count(wire[n], "req") \in Nat /\ Count(wire[n], "piece") \in Nat
  BY <1>1, PlacesFinite
<1>4. Held(n, "req") \in Nat /\ Held(n, "piece") \in Nat
  BY DEF Held
<1>5. data[n] \in Nat
  BY CapsAreNat DEF QTypeOK
<1>6. Due(n) \in Nat
  BY <1>2, <1>3, <1>4 DEF Due
<1>7. Coming(n) \in Nat
  BY <1>3, <1>4, <1>5 DEF Coming
<1> QED
  BY <1>1, <1>2, <1>3, <1>4, <1>5, <1>6, <1>7

-----------------------------------------------------------------------------
(* The types.  A piece that arrives was asked for: that is NothingLost.    *)

LEMMA PieceWasAsked ==
    ASSUME QTypeOK, NothingLost, NEW n \in Ends, Reads(n, "piece")
    PROVE  asked[n] > 0
<1> DEFINE p == Peer(n)
<1>1. p \in Ends
  BY PeerOfPeer
<1>2. wire[p] \in Seq(Frame) /\ wire[p] # <<>> /\ Head(wire[p]) = "piece"
  BY <1>1, CountsAreNat DEF Reads
<1>3. Count(wire[p], "piece") = Count(Tail(wire[p]), "piece") + 1
  BY <1>2, CountTail
<1>4. Tail(wire[p]) \in Seq(Frame)
  BY <1>2, HeadTailProperties
<1>5. Count(Tail(wire[p]), "piece") \in Nat
  BY <1>4, PlacesFinite
<1>6. asked[n] = Due(n) + Coming(p)
  BY DEF NothingLost
<1>7. /\ Due(n) \in Nat /\ Coming(p) \in Nat
      /\ (IF reader[p] = "serving" THEN 1 ELSE 0) \in Nat
      /\ data[p] \in Nat /\ Held(p, "piece") \in Nat
  BY <1>1, CountsAreNat
<1> HIDE DEF p
<1>8. Coming(p) > 0
  <2> DEFINE served == IF reader[p] = "serving" THEN 1 ELSE 0
  <2>1. Coming(p) = served + data[p] + Held(p, "piece")
                    + Count(wire[p], "piece")
    BY DEF Coming
  <2>2. served \in Nat
    OBVIOUS
  <2> HIDE DEF served
  <2> QED
    BY <1>3, <1>5, <1>7, <2>1, <2>2
<1> QED
  BY <1>6, <1>7, <1>8

LEMMA QueuesTypeStep ==
    ASSUME QTypeOK, NothingLost, [QNext]_qvars
    PROVE  QTypeOK'
<1> USE CapsAreNat
<1>1. CASE UNCHANGED qvars
  BY <1>1 DEF qvars, QTypeOK
<1>2. ASSUME NEW n \in Ends, Ask(n) PROVE QTypeOK'
  <2>1. ctl' \in [Ends -> Seq({"req", "text"})]
    BY <1>2, AppendProperties DEF Ask, QTypeOK
  <2> asked[n] + 1 \in Nat /\ want[n] - 1 \in Nat
    BY <1>2 DEF Ask, QTypeOK
  <2>2. want' \in [Ends -> Nat] /\ asked' \in [Ends -> Nat]
    BY <1>2 DEF Ask, QTypeOK
  <2>3. ASSUME NEW q \in Ends PROVE asked'[q] + want'[q] <= Pieces[q]
    <3>1. /\ asked[q] \in Nat /\ want[q] \in Nat
          /\ asked[q] + want[q] <= Pieces[q]
      BY DEF QTypeOK
    <3>2. /\ asked'[q] = IF q = n THEN asked[q] + 1 ELSE asked[q]
          /\ want'[q] = IF q = n THEN want[q] - 1 ELSE want[q]
      BY <1>2 DEF Ask, QTypeOK
    <3> QED
      BY <3>1, <3>2
  <2> QED
    BY <1>2, <2>1, <2>2, <2>3 DEF Ask, QTypeOK
<1>3. ASSUME NEW n \in Ends, SendText(n) PROVE QTypeOK'
  <2>1. ctl' \in [Ends -> Seq({"req", "text"})]
    BY <1>3, AppendProperties DEF SendText, QTypeOK
  <2>2. text' \in [Ends -> {"unsent", "queued", "arrived"}]
    BY <1>3 DEF SendText, QTypeOK
  <2> QED
    BY <1>3, <2>1, <2>2 DEF SendText, QTypeOK
<1>4. ASSUME NEW n \in Ends, SendMedia(n) PROVE QTypeOK'
  <2>1. media[n] \in 0..MediaCap /\ film[n] \in Nat
    BY DEF QTypeOK
  <2>2. (IF media[n] < MediaCap THEN media[n] + 1 ELSE media[n])
            \in 0..MediaCap
    BY <2>1
  <2>3. media' \in [Ends -> 0..MediaCap]
    BY <1>4, <2>2 DEF SendMedia, QTypeOK
  <2>4. film' \in [Ends -> Nat] /\ permit' \in [Ends -> BOOLEAN]
    BY <1>4, <2>1 DEF SendMedia, QTypeOK
  <2> QED
    BY <1>4, <2>3, <2>4 DEF SendMedia, QTypeOK
<1>5. ASSUME NEW n \in Ends, WriteControl(n) PROVE QTypeOK'
  <2>1. ctl[n] \in Seq({"req", "text"}) /\ ctl[n] # <<>>
    BY <1>5 DEF WriteControl, QTypeOK
  <2>2. Tail(ctl[n]) \in Seq({"req", "text"}) /\ Head(ctl[n]) \in Frame
    BY <2>1, HeadTailProperties DEF Frame
  <2>3. ctl' \in [Ends -> Seq({"req", "text"})]
    BY <1>5, <2>2 DEF WriteControl, QTypeOK
  <2>4. sink' \in [Ends -> Frame \cup {"none"}]
    BY <1>5, <2>2 DEF WriteControl, QTypeOK
  <2> QED
    BY <1>5, <2>3, <2>4 DEF WriteControl, QTypeOK
<1>6. ASSUME NEW n \in Ends, WakeForMedia(n) PROVE QTypeOK'
  BY <1>6 DEF WakeForMedia, QTypeOK
<1>7. ASSUME NEW n \in Ends, WriteMedia(n) PROVE QTypeOK'
  <2>1. media[n] \in 0..MediaCap /\ media[n] > 0
    BY <1>7 DEF WriteMedia, QTypeOK
  <2>2. media[n] - 1 \in 0..MediaCap
    BY <2>1
  <2>3. media' \in [Ends -> 0..MediaCap]
    BY <1>7, <2>2 DEF WriteMedia, QTypeOK
  <2>4. sink' \in [Ends -> Frame \cup {"none"}]
    BY <1>7 DEF WriteMedia, QTypeOK, Frame
  <2> QED
    BY <1>7, <2>3, <2>4 DEF WriteMedia, QTypeOK
<1>8. ASSUME NEW n \in Ends, MediaDrained(n) PROVE QTypeOK'
  BY <1>8 DEF MediaDrained, QTypeOK
<1>9. ASSUME NEW n \in Ends, WriteData(n) PROVE QTypeOK'
  <2>1. data[n] \in 0..DataCap /\ data[n] > 0
    BY <1>9 DEF WriteData, QTypeOK
  <2>2. data[n] - 1 \in 0..DataCap
    BY <2>1
  <2>3. data' \in [Ends -> 0..DataCap]
    BY <1>9, <2>2 DEF WriteData, QTypeOK
  <2>4. sink' \in [Ends -> Frame \cup {"none"}]
    BY <1>9 DEF WriteData, QTypeOK, Frame
  <2> QED
    BY <1>9, <2>3, <2>4 DEF WriteData, QTypeOK
<1>10. ASSUME NEW n \in Ends, Flush(n) PROVE QTypeOK'
  <2>1. sink[n] \in Frame /\ wire[n] \in Seq(Frame) /\ Len(wire[n]) < WireCap
    BY <1>10 DEF Flush, QTypeOK
  <2>2. /\ Append(wire[n], sink[n]) \in Seq(Frame)
        /\ Len(Append(wire[n], sink[n])) <= WireCap
    BY <2>1, AppendProperties
  <2> QED
    BY <1>10, <2>2 DEF Flush, QTypeOK
<1>11. ASSUME NEW n \in Ends, NEW f, Reads(n, f)
       PROVE  wire' \in [Ends -> Seq(Frame)]
              /\ \A q \in Ends : Len(wire'[q]) <= WireCap
  <2> DEFINE p == Peer(n)
  <2>1. p \in Ends
    BY PeerOfPeer
  <2>2. wire[p] \in Seq(Frame) /\ wire[p] # <<>> /\ Len(wire[p]) <= WireCap
    BY <1>11, <2>1 DEF Reads, QTypeOK
  <2>3. Tail(wire[p]) \in Seq(Frame) /\ Len(Tail(wire[p])) <= WireCap
    BY <2>2, HeadTailProperties
  <2> QED
    BY <1>11, <2>1, <2>3 DEF Reads, QTypeOK
<1>12. ASSUME NEW n \in Ends, ReadRequest(n) PROVE QTypeOK'
  BY <1>11, <1>12 DEF ReadRequest, QTypeOK
<1>13. ASSUME NEW n \in Ends, ReadPiece(n) PROVE QTypeOK'
  <2>1. asked[n] > 0
    BY <1>13, PieceWasAsked DEF ReadPiece
  <2>2. asked[n] \in Nat /\ asked[n] - 1 \in Nat
    BY <2>1 DEF QTypeOK
  <2>3. asked' \in [Ends -> Nat] /\ want' = want
    BY <1>13, <2>2 DEF ReadPiece, QTypeOK
  <2>5. ASSUME NEW q \in Ends PROVE asked'[q] + want'[q] <= Pieces[q]
    <3>1. /\ asked[q] \in Nat /\ want[q] \in Nat
          /\ asked[q] + want[q] <= Pieces[q]
      BY DEF QTypeOK
    <3>2. asked'[q] = IF q = n THEN asked[q] - 1 ELSE asked[q]
      BY <1>13 DEF ReadPiece, QTypeOK
    <3> QED
      BY <2>3, <3>1, <3>2
  <2>4. /\ wire' \in [Ends -> Seq(Frame)]
        /\ \A q \in Ends : Len(wire'[q]) <= WireCap
    BY <1>11, <1>13 DEF ReadPiece
  <2> QED
    BY <1>13, <2>3, <2>4, <2>5 DEF ReadPiece, QTypeOK
<1>14. ASSUME NEW n \in Ends, ReadText(n) PROVE QTypeOK'
  BY <1>11, <1>14 DEF ReadText, QTypeOK
<1>15. ASSUME NEW n \in Ends, ReadMedia(n) PROVE QTypeOK'
  BY <1>11, <1>15 DEF ReadMedia, QTypeOK
<1>16. ASSUME NEW n \in Ends, Serve(n) PROVE QTypeOK'
  <2>1. data[n] \in 0..DataCap /\ data[n] < DataCap
    BY <1>16 DEF Serve, QTypeOK
  <2>2. data[n] + 1 \in 0..DataCap
    BY <2>1
  <2>3. data' \in [Ends -> 0..DataCap]
    BY <1>16, <2>2 DEF Serve, QTypeOK
  <2> QED
    BY <1>16, <2>3 DEF Serve, QTypeOK
<1> QED
  BY <1>1, <1>2, <1>3, <1>4, <1>5, <1>6, <1>7, <1>8, <1>9, <1>10, <1>12,
     <1>13, <1>14, <1>15, <1>16 DEF QNext, Writer, Reader

-----------------------------------------------------------------------------
(* What the steps do to the sums.                                          *)

(* A step that leaves every sum and counter alone keeps them equal.        *)
SumsKept == \A q \in Ends : /\ asked'[q] = asked[q]
                            /\ Due(q)' = Due(q) /\ Coming(q)' = Coming(q)

(* A frame that is no request moves from the control queue to the sink, or *)
(* a request does: the sum is the same.                                    *)
LEMMA WriteControlKeepsSums ==
    ASSUME QTypeOK, NEW n \in Ends, WriteControl(n)
    PROVE  SumsKept
<1>1. ctl[n] \in Seq({"req", "text"}) /\ ctl[n] # <<>>
  BY CountsAreNat DEF WriteControl
<1>2. Count(ctl[n], "req") = Count(Tail(ctl[n]), "req")
                             + (IF Head(ctl[n]) = "req" THEN 1 ELSE 0)
  BY <1>1, CountTail
<1>3. Count(Tail(ctl[n]), "req") \in Nat
  BY <1>1, HeadTailProperties, PlacesFinite
<1>4. Head(ctl[n]) \in {"req", "text"}
  BY <1>1, HeadTailProperties
<1>5. /\ ctl'[n] = Tail(ctl[n]) /\ sink'[n] = Head(ctl[n])
      /\ sink[n] = "none" /\ wire' = wire /\ data' = data
      /\ reader' = reader /\ asked' = asked
      /\ \A q \in Ends \ {n} : ctl'[q] = ctl[q] /\ sink'[q] = sink[q]
  BY DEF WriteControl, Selects, QTypeOK
<1>6. /\ Held(n, "req") = 0 /\ Held(n, "piece") = 0
      /\ Held(n, "req")' = (IF Head(ctl[n]) = "req" THEN 1 ELSE 0)
      /\ Held(n, "piece")' = 0
  BY <1>4, <1>5 DEF Held
<1>7. Due(n)' = Due(n)
  <2>1. Due(n) = Count(ctl[n], "req") + 0 + Count(wire[n], "req")
    BY <1>6 DEF Due
  <2>2. Due(n)' = Count(Tail(ctl[n]), "req")
                  + (IF Head(ctl[n]) = "req" THEN 1 ELSE 0)
                  + Count(wire[n], "req")
    BY <1>5, <1>6 DEF Due
  <2> QED
    BY <1>2, <1>3, <2>1, <2>2, CountsAreNat
<1>8. Coming(n)' = Coming(n)
  BY <1>5, <1>6 DEF Coming
<1>9. ASSUME NEW q \in Ends \ {n}
      PROVE  Due(q)' = Due(q) /\ Coming(q)' = Coming(q)
  BY <1>5 DEF Due, Coming, Held
<1> QED
  BY <1>5, <1>7, <1>8, <1>9 DEF SumsKept

(* The sender's frame goes on the wire.                                    *)
LEMMA FlushKeepsSums ==
    ASSUME QTypeOK, NEW n \in Ends, Flush(n)
    PROVE  SumsKept
<1>1. wire[n] \in Seq(Frame) /\ sink[n] \in Frame
  BY DEF Flush, QTypeOK
<1>2. /\ Count(Append(wire[n], sink[n]), "req") =
             Count(wire[n], "req") + (IF sink[n] = "req" THEN 1 ELSE 0)
      /\ Count(Append(wire[n], sink[n]), "piece") =
             Count(wire[n], "piece") + (IF sink[n] = "piece" THEN 1 ELSE 0)
  BY <1>1, CountAppend
<1>3. /\ wire'[n] = Append(wire[n], sink[n]) /\ sink'[n] = "none"
      /\ ctl' = ctl /\ data' = data /\ reader' = reader /\ asked' = asked
      /\ \A q \in Ends \ {n} : wire'[q] = wire[q] /\ sink'[q] = sink[q]
  BY DEF Flush, QTypeOK
<1>4. Held(n, "req")' = 0 /\ Held(n, "piece")' = 0
  BY <1>3 DEF Held
<1>5. Due(n)' = Due(n)
  <2>1. Due(n)' = Count(ctl[n], "req") + 0
                  + Count(Append(wire[n], sink[n]), "req")
    BY <1>3, <1>4 DEF Due
  <2>2. Due(n) = Count(ctl[n], "req") + (IF sink[n] = "req" THEN 1 ELSE 0)
                 + Count(wire[n], "req")
    BY DEF Due, Held
  <2> QED
    BY <1>2, <2>1, <2>2, CountsAreNat
<1>6. Coming(n)' = Coming(n)
  <2> DEFINE served == IF reader[n] = "serving" THEN 1 ELSE 0
  <2>1. Coming(n)' = served + data[n] + 0
                     + Count(Append(wire[n], sink[n]), "piece")
    BY <1>3, <1>4 DEF Coming
  <2>2. Coming(n) = served + data[n] + (IF sink[n] = "piece" THEN 1 ELSE 0)
                    + Count(wire[n], "piece")
    BY DEF Coming, Held
  <2>3. served \in Nat
    OBVIOUS
  <2> HIDE DEF served
  <2> QED
    BY <1>2, <2>1, <2>2, <2>3, CountsAreNat
<1>7. ASSUME NEW q \in Ends \ {n}
      PROVE  Due(q)' = Due(q) /\ Coming(q)' = Coming(q)
  BY <1>3 DEF Due, Coming, Held
<1> QED
  BY <1>3, <1>5, <1>6, <1>7 DEF SumsKept

(* A piece leaves its queue for the sink.                                  *)
LEMMA WriteDataKeepsSums ==
    ASSUME QTypeOK, NEW n \in Ends, WriteData(n)
    PROVE  SumsKept
<1>1. /\ data'[n] = data[n] - 1 /\ sink'[n] = "piece" /\ sink[n] = "none"
      /\ ctl' = ctl /\ wire' = wire /\ reader' = reader /\ asked' = asked
      /\ \A q \in Ends \ {n} : data'[q] = data[q] /\ sink'[q] = sink[q]
  BY DEF WriteData, Selects, QTypeOK
<1>2. /\ Held(n, "req") = 0 /\ Held(n, "req")' = 0
      /\ Held(n, "piece") = 0 /\ Held(n, "piece")' = 1
  BY <1>1 DEF Held
<1>3. Due(n)' = Due(n)
  BY <1>1, <1>2 DEF Due
<1>4. Coming(n)' = Coming(n)
  <2> DEFINE served == IF reader[n] = "serving" THEN 1 ELSE 0
  <2>1. Coming(n)' = served + (data[n] - 1) + 1 + Count(wire[n], "piece")
    BY <1>1, <1>2 DEF Coming
  <2>2. Coming(n) = served + data[n] + 0 + Count(wire[n], "piece")
    BY <1>2 DEF Coming
  <2>3. served \in Nat
    OBVIOUS
  <2> HIDE DEF served
  <2> QED
    BY <2>1, <2>2, <2>3, CountsAreNat
<1>5. ASSUME NEW q \in Ends \ {n}
      PROVE  Due(q)' = Due(q) /\ Coming(q)' = Coming(q)
  BY <1>1 DEF Due, Coming, Held
<1> QED
  BY <1>1, <1>3, <1>4, <1>5 DEF SumsKept

(* The request that was being answered becomes a piece.                    *)
LEMMA ServeKeepsSums ==
    ASSUME QTypeOK, NEW n \in Ends, Serve(n)
    PROVE  SumsKept
<1>1. /\ data'[n] = data[n] + 1
      /\ reader[n] = "serving" /\ reader'[n] = "next"
      /\ ctl' = ctl /\ wire' = wire /\ sink' = sink /\ asked' = asked
      /\ \A q \in Ends \ {n} : data'[q] = data[q] /\ reader'[q] = reader[q]
  BY DEF Serve, QTypeOK
<1>2. ASSUME NEW q \in Ends PROVE Due(q)' = Due(q)
  BY <1>1 DEF Due, Held
<1>3. Coming(n)' = Coming(n)
  <2>1. Held(n, "piece")' = Held(n, "piece")
    BY <1>1 DEF Held
  <2>2. Coming(n)' = 0 + (data[n] + 1) + Held(n, "piece")
                     + Count(wire[n], "piece")
    BY <1>1, <2>1 DEF Coming
  <2>3. Coming(n) = 1 + data[n] + Held(n, "piece") + Count(wire[n], "piece")
    BY <1>1 DEF Coming
  <2> QED
    BY <2>2, <2>3, CountsAreNat
<1>4. ASSUME NEW q \in Ends \ {n} PROVE Coming(q)' = Coming(q)
  BY <1>1 DEF Coming, Held
<1> QED
  BY <1>1, <1>2, <1>3, <1>4 DEF SumsKept

(* A text joins the queue.                                                 *)
LEMMA SendTextKeepsSums ==
    ASSUME QTypeOK, NEW n \in Ends, SendText(n)
    PROVE  SumsKept
<1>1. ctl[n] \in Seq({"req", "text"})
  BY DEF QTypeOK
<1>2. Count(Append(ctl[n], "text"), "req") = Count(ctl[n], "req") + 0
  BY <1>1, CountAppend
<1>3. /\ ctl'[n] = Append(ctl[n], "text")
      /\ wire' = wire /\ sink' = sink /\ asked' = asked
      /\ data' = data /\ reader' = reader
      /\ \A q \in Ends \ {n} : ctl'[q] = ctl[q]
  BY DEF SendText, QTypeOK
<1>4. Count(ctl'[n], "req") = Count(ctl[n], "req")
  BY <1>2, <1>3, CountsAreNat
<1>5. ASSUME NEW q \in Ends PROVE Due(q)' = Due(q) /\ Coming(q)' = Coming(q)
  BY <1>3, <1>4 DEF Due, Coming, Held
<1> QED
  BY <1>3, <1>5 DEF SumsKept

(* Media frames are no part of the sums.                                   *)
LEMMA MediaKeepsSums ==
    ASSUME QTypeOK, NEW n \in Ends,
           \/ SendMedia(n) \/ WakeForMedia(n) \/ MediaDrained(n)
           \/ WriteMedia(n)
    PROVE  SumsKept
<1>1. CASE WriteMedia(n)
  <2>1. /\ sink[n] = "none" /\ sink'[n] = "media"
        /\ ctl' = ctl /\ wire' = wire /\ asked' = asked
        /\ data' = data /\ reader' = reader
        /\ \A q \in Ends \ {n} : sink'[q] = sink[q]
    BY <1>1 DEF WriteMedia, QTypeOK
  <2>2. ASSUME NEW q \in Ends, NEW f \in {"req", "piece"}
        PROVE  Held(q, f)' = Held(q, f)
    BY <2>1 DEF Held
  <2> QED
    BY <2>1, <2>2 DEF SumsKept, Due, Coming
<1>2. CASE SendMedia(n) \/ WakeForMedia(n) \/ MediaDrained(n)
  <2>1. /\ ctl' = ctl /\ wire' = wire /\ asked' = asked /\ sink' = sink
        /\ data' = data /\ reader' = reader
    BY <1>2 DEF SendMedia, WakeForMedia, MediaDrained
  <2> QED
    BY <2>1 DEF SumsKept, Due, Coming, Held
<1> QED
  BY <1>1, <1>2

(* What a read takes off the wire of the other end.                        *)
LEMMA ReadsEffect ==
    ASSUME QTypeOK, NEW n \in Ends, NEW f, Reads(n, f)
    PROVE  /\ \A q \in Ends \ {Peer(n)} : wire'[q] = wire[q]
           /\ Count(wire[Peer(n)], "req") = Count(wire'[Peer(n)], "req")
                                            + (IF f = "req" THEN 1 ELSE 0)
           /\ Count(wire[Peer(n)], "piece") = Count(wire'[Peer(n)], "piece")
                                              + (IF f = "piece" THEN 1 ELSE 0)
           /\ Count(wire[Peer(n)], "text") = Count(wire'[Peer(n)], "text")
                                             + (IF f = "text" THEN 1 ELSE 0)
           /\ Count(wire'[Peer(n)], "text") \in Nat
           /\ Count(wire'[Peer(n)], "req") \in Nat
           /\ Count(wire'[Peer(n)], "piece") \in Nat
<1> DEFINE p == Peer(n)
<1>1. p \in Ends
  BY PeerOfPeer
<1>2. /\ wire[p] \in Seq(Frame) /\ wire[p] # <<>> /\ Head(wire[p]) = f
      /\ wire'[p] = Tail(wire[p])
      /\ \A q \in Ends \ {p} : wire'[q] = wire[q]
  BY <1>1 DEF Reads, QTypeOK
<1>3. Tail(wire[p]) \in Seq(Frame)
  BY <1>2, HeadTailProperties
<1>4. /\ Count(Tail(wire[p]), "req") \in Nat
      /\ Count(Tail(wire[p]), "piece") \in Nat
      /\ Count(Tail(wire[p]), "text") \in Nat
  BY <1>3, PlacesFinite
<1>5. /\ Count(wire[p], "req") = Count(Tail(wire[p]), "req")
                                 + (IF Head(wire[p]) = "req" THEN 1 ELSE 0)
      /\ Count(wire[p], "piece") = Count(Tail(wire[p]), "piece")
                                   + (IF Head(wire[p]) = "piece" THEN 1 ELSE 0)
      /\ Count(wire[p], "text") = Count(Tail(wire[p]), "text")
                                  + (IF Head(wire[p]) = "text" THEN 1 ELSE 0)
  BY <1>2, CountTail
<1> HIDE DEF p
<1>6. /\ \A q \in Ends \ {p} : wire'[q] = wire[q]
      /\ Count(wire[p], "req") = Count(wire'[p], "req")
                                 + (IF f = "req" THEN 1 ELSE 0)
      /\ Count(wire[p], "piece") = Count(wire'[p], "piece")
                                   + (IF f = "piece" THEN 1 ELSE 0)
      /\ Count(wire[p], "text") = Count(wire'[p], "text")
                                  + (IF f = "text" THEN 1 ELSE 0)
      /\ Count(wire'[p], "req") \in Nat /\ Count(wire'[p], "piece") \in Nat
      /\ Count(wire'[p], "text") \in Nat
  BY <1>2, <1>4, <1>5
<1> QED
  BY <1>6 DEF p

(* A text or a media frame is read.                                        *)
LEMMA ReadOtherKeepsSums ==
    ASSUME QTypeOK, NEW n \in Ends, ReadText(n) \/ ReadMedia(n)
    PROVE  SumsKept
<1>1. /\ Reads(n, "text") \/ Reads(n, "media")
      /\ ctl' = ctl /\ sink' = sink /\ data' = data /\ reader' = reader
      /\ asked' = asked
  BY DEF ReadText, ReadMedia
<1>2. Peer(n) \in Ends
  BY PeerOfPeer
<1>3. ASSUME NEW q \in Ends
      PROVE  /\ Count(wire'[q], "req") = Count(wire[q], "req")
             /\ Count(wire'[q], "piece") = Count(wire[q], "piece")
  <2>1. CASE Reads(n, "text")
    BY <2>1, ReadsEffect
  <2>2. CASE Reads(n, "media")
    BY <2>2, ReadsEffect
  <2> QED
    BY <1>1, <2>1, <2>2
<1> QED
  BY <1>1, <1>3 DEF SumsKept, Due, Coming, Held

-----------------------------------------------------------------------------
(* The steps that move the sums: asking, and the two reads of pieces.      *)

LEMMA AskKeepsBalance ==
    ASSUME QTypeOK, NothingLost, NEW n \in Ends, Ask(n)
    PROVE  /\ NothingLost'
           /\ \A q \in Ends : Due(q)' = IF q = n THEN Due(n) + 1 ELSE Due(q)
           /\ \A q \in Ends : Coming(q)' = Coming(q)
<1>1. ctl[n] \in Seq({"req", "text"})
  BY DEF QTypeOK
<1>2. Count(Append(ctl[n], "req"), "req") = Count(ctl[n], "req") + 1
  BY <1>1, CountAppend
<1>3. /\ ctl'[n] = Append(ctl[n], "req") /\ asked'[n] = asked[n] + 1
      /\ wire' = wire /\ sink' = sink /\ data' = data /\ reader' = reader
      /\ \A q \in Ends \ {n} : ctl'[q] = ctl[q] /\ asked'[q] = asked[q]
  BY DEF Ask, QTypeOK
<1>4. Due(n)' = Due(n) + 1
  <2>1. Due(n)' = Count(ctl'[n], "req") + Held(n, "req") + Count(wire[n], "req")
    BY <1>3 DEF Due, Held
  <2>2. Count(ctl'[n], "req") = Count(ctl[n], "req") + 1
    BY <1>2, <1>3
  <2>3. Due(n) = Count(ctl[n], "req") + Held(n, "req") + Count(wire[n], "req")
    BY DEF Due
  <2> QED
    BY <2>1, <2>2, <2>3, CountsAreNat
<1>5. \A q \in Ends : Coming(q)' = Coming(q)
  BY <1>3 DEF Coming, Held
<1>6. \A q \in Ends \ {n} : Due(q)' = Due(q)
  BY <1>3 DEF Due, Held
<1> SUFFICES ASSUME NEW q \in Ends
             PROVE  asked'[q] = Due(q)' + Coming(Peer(q))'
  BY <1>4, <1>5, <1>6 DEF NothingLost
<1>7. asked[q] = Due(q) + Coming(Peer(q)) /\ Peer(q) \in Ends
  BY PeerOfPeer DEF NothingLost
<1>8. Due(q) \in Nat /\ Coming(Peer(q)) \in Nat
  BY <1>7, CountsAreNat
<1>9. Coming(Peer(q))' = Coming(Peer(q))
  BY <1>5, <1>7
<1> QED
  BY <1>3, <1>4, <1>6, <1>7, <1>8, <1>9

LEMMA ReadRequestKeepsBalance ==
    ASSUME QTypeOK, NothingLost, NEW n \in Ends, ReadRequest(n)
    PROVE  /\ NothingLost'
           /\ Due(Peer(n)) = Due(Peer(n))' + 1 /\ Due(Peer(n))' \in Nat
           /\ Coming(n)' = Coming(n) + 1
           /\ Due(n)' = Due(n) /\ Coming(Peer(n))' = Coming(Peer(n))
<1> DEFINE p == Peer(n)
<1>1. p \in Ends /\ p # n /\ Peer(p) = n /\ \A q \in Ends : q = n \/ q = p
  BY PeerOfPeer
<1>2. /\ Reads(n, "req")
      /\ reader[n] = "next" /\ reader'[n] = "serving"
      /\ \A q \in Ends \ {n} : reader'[q] = reader[q]
      /\ ctl' = ctl /\ sink' = sink /\ data' = data /\ asked' = asked
  BY DEF ReadRequest, Reads, QTypeOK
<1>3. /\ \A q \in Ends \ {p} : wire'[q] = wire[q]
      /\ Count(wire[p], "req") = Count(wire'[p], "req") + 1
      /\ Count(wire[p], "piece") = Count(wire'[p], "piece") + 0
      /\ Count(wire'[p], "req") \in Nat
      /\ Count(wire'[p], "piece") \in Nat
  BY <1>2, ReadsEffect
<1> HIDE DEF p
<1>4. Due(p) = Due(p)' + 1 /\ Due(p)' \in Nat
  <2>1. Due(p)' = Count(ctl[p], "req") + Held(p, "req") + Count(wire'[p], "req")
    BY <1>2 DEF Due, Held
  <2>2. Due(p) = Count(ctl[p], "req") + Held(p, "req") + Count(wire[p], "req")
    BY DEF Due
  <2>3. Count(ctl[p], "req") \in Nat /\ Held(p, "req") \in Nat
    BY <1>1, CountsAreNat
  <2> QED
    BY <1>3, <2>1, <2>2, <2>3
<1>5. Coming(n)' = Coming(n) + 1
  <2>1. Coming(n)' = 1 + data[n] + Held(n, "piece") + Count(wire[n], "piece")
    BY <1>1, <1>2, <1>3 DEF Coming, Held
  <2>2. Coming(n) = 0 + data[n] + Held(n, "piece") + Count(wire[n], "piece")
    BY <1>2 DEF Coming
  <2> QED
    BY <2>1, <2>2, CountsAreNat
<1>6. Due(n)' = Due(n)
  BY <1>1, <1>2, <1>3 DEF Due, Held
<1>7. Coming(p)' = Coming(p)
  <2>1. Count(wire'[p], "piece") = Count(wire[p], "piece")
    BY <1>3
  <2> QED
    BY <1>1, <1>2, <2>1 DEF Coming, Held
<1>8. /\ asked[n] = Due(n) + Coming(p) /\ asked[p] = Due(p) + Coming(n)
      /\ Coming(n) \in Nat
  BY <1>1, CountsAreNat DEF NothingLost, p
<1>9. asked'[n] = Due(n)' + Coming(p)' /\ asked'[p] = Due(p)' + Coming(n)'
  BY <1>2, <1>4, <1>5, <1>6, <1>7, <1>8
<1>10. ASSUME NEW q \in Ends PROVE asked'[q] = Due(q)' + Coming(Peer(q))'
  <2>1. CASE q = n
    BY <1>9, <2>1 DEF p
  <2>2. CASE q = p
    BY <1>1, <1>9, <2>2
  <2> QED
    BY <1>1, <2>1, <2>2
<1> QED
  BY <1>4, <1>5, <1>6, <1>7, <1>10 DEF NothingLost, p

LEMMA ReadPieceKeepsBalance ==
    ASSUME QTypeOK, NothingLost, NEW n \in Ends, ReadPiece(n)
    PROVE  /\ NothingLost'
           /\ Coming(Peer(n)) = Coming(Peer(n))' + 1 /\ Coming(Peer(n))' \in Nat
           /\ Coming(n)' = Coming(n)
           /\ Due(n)' = Due(n) /\ Due(Peer(n))' = Due(Peer(n))
<1> DEFINE p == Peer(n)
<1>1. p \in Ends /\ p # n /\ Peer(p) = n /\ \A q \in Ends : q = n \/ q = p
  BY PeerOfPeer
<1>2. /\ Reads(n, "piece")
      /\ asked'[n] = asked[n] - 1
      /\ \A q \in Ends \ {n} : asked'[q] = asked[q]
      /\ ctl' = ctl /\ sink' = sink /\ data' = data /\ reader' = reader
  BY DEF ReadPiece, QTypeOK
<1>3. /\ \A q \in Ends \ {p} : wire'[q] = wire[q]
      /\ Count(wire[p], "req") = Count(wire'[p], "req") + 0
      /\ Count(wire[p], "piece") = Count(wire'[p], "piece") + 1
      /\ Count(wire'[p], "req") \in Nat
      /\ Count(wire'[p], "piece") \in Nat
  BY <1>2, ReadsEffect
<1> HIDE DEF p
<1>4. Coming(p) = Coming(p)' + 1 /\ Coming(p)' \in Nat
  <2> DEFINE served == IF reader[p] = "serving" THEN 1 ELSE 0
  <2>1. Coming(p)' = served + data[p] + Held(p, "piece")
                     + Count(wire'[p], "piece")
    BY <1>2 DEF Coming, Held
  <2>2. Coming(p) = served + data[p] + Held(p, "piece")
                    + Count(wire[p], "piece")
    BY DEF Coming
  <2>3. served \in Nat
    OBVIOUS
  <2>4. data[p] \in Nat /\ Held(p, "piece") \in Nat
    BY <1>1, CountsAreNat
  <2> HIDE DEF served
  <2> QED
    BY <1>3, <2>1, <2>2, <2>3, <2>4
<1>5. Due(p)' = Due(p)
  <2>1. Count(wire'[p], "req") = Count(wire[p], "req")
    BY <1>3
  <2> QED
    BY <1>2, <2>1 DEF Due, Held
<1>6. Due(n)' = Due(n) /\ Coming(n)' = Coming(n)
  BY <1>1, <1>2, <1>3 DEF Due, Coming, Held
<1>7. /\ asked[n] = Due(n) + Coming(p) /\ asked[p] = Due(p) + Coming(n)
      /\ Due(n) \in Nat
  BY <1>1, CountsAreNat DEF NothingLost, p
<1>8. asked'[n] = Due(n)' + Coming(p)' /\ asked'[p] = Due(p)' + Coming(n)'
  BY <1>1, <1>2, <1>4, <1>5, <1>6, <1>7
<1>9. ASSUME NEW q \in Ends PROVE asked'[q] = Due(q)' + Coming(Peer(q))'
  <2>1. CASE q = n
    BY <1>8, <2>1 DEF p
  <2>2. CASE q = p
    BY <1>1, <1>8, <2>2
  <2> QED
    BY <1>1, <2>1, <2>2
<1> QED
  BY <1>4, <1>5, <1>6, <1>9 DEF NothingLost, p

LEMMA SumsKeepBalance ==
    ASSUME NothingLost, SumsKept
    PROVE  NothingLost'
<1>1. ASSUME NEW q \in Ends PROVE asked'[q] = Due(q)' + Coming(Peer(q))'
  <2>1. Peer(q) \in Ends
    BY PeerOfPeer
  <2> QED
    BY <2>1 DEF NothingLost, SumsKept
<1> QED
  BY <1>1 DEF NothingLost

LEMMA BalanceStep ==
    ASSUME QTypeOK, NothingLost, [QNext]_qvars
    PROVE  NothingLost'
<1>1. CASE UNCHANGED qvars
  <2>1. SumsKept
    BY <1>1 DEF qvars, SumsKept, Due, Coming, Held
  <2> QED
    BY <2>1, SumsKeepBalance
<1>2. ASSUME NEW n \in Ends,
             \/ SendText(n) \/ SendMedia(n) \/ WriteControl(n)
             \/ WakeForMedia(n) \/ WriteMedia(n) \/ MediaDrained(n)
             \/ WriteData(n) \/ Flush(n) \/ ReadText(n) \/ ReadMedia(n)
             \/ Serve(n)
      PROVE  NothingLost'
  <2>1. SumsKept
    BY <1>2, SendTextKeepsSums, MediaKeepsSums, WriteControlKeepsSums,
       WriteDataKeepsSums, FlushKeepsSums, ReadOtherKeepsSums, ServeKeepsSums
  <2> QED
    BY <2>1, SumsKeepBalance
<1> QED
  BY <1>1, <1>2, AskKeepsBalance, ReadRequestKeepsBalance,
     ReadPieceKeepsBalance DEF QNext, Writer, Reader

-----------------------------------------------------------------------------
LEMMA QueuesStart ==
    ASSUME QInit
    PROVE  QInv
<1>1. QTypeOK
  <2>1. <<>> \in Seq({"req", "text"}) /\ <<>> \in Seq(Frame) /\ Len(<<>>) = 0
    OBVIOUS
  <2>2. Pieces \in [Ends -> Nat] /\ MediaFrames \in [Ends -> Nat]
    BY QueuesAssumption
  <2>3. \A n \in Ends : asked[n] + want[n] <= Pieces[n]
    BY <2>2 DEF QInit
  <2> QED
    BY <2>1, <2>2, <2>3, CapsAreNat DEF QInit, QTypeOK
<1>2. NothingLost
  <2>1. ASSUME NEW q \in Ends PROVE Due(q) = 0 /\ Coming(q) = 0
    BY CountEmpty DEF QInit, Due, Coming, Held
  <2>2. \A q \in Ends : Peer(q) \in Ends
    BY PeerOfPeer
  <2> QED
    BY <2>1, <2>2 DEF NothingLost, QInit
<1>3. AskedFits
  BY QueuesAssumption DEF QInit, AskedFits
<1> QED
  BY <1>1, <1>2, <1>3 DEF QInv

LEMMA AskedFitsStep ==
    ASSUME QTypeOK, AskedFits, [QNext]_qvars
    PROVE  AskedFits'
<1>1. Window * Transfers \in Nat /\ \A q \in Ends : asked[q] \in Nat
  BY QueuesAssumption DEF QTypeOK
<1>2. ASSUME NEW n \in Ends, Ask(n) PROVE AskedFits'
  <2>1. /\ asked[n] < Window * Transfers
        /\ \A q \in Ends : asked'[q] = IF q = n THEN asked[n] + 1 ELSE asked[q]
    BY <1>2 DEF Ask, QTypeOK
  <2> QED
    BY <1>1, <2>1 DEF AskedFits
<1>3. ASSUME NEW n \in Ends, ReadPiece(n) PROVE AskedFits'
  <2>1. \A q \in Ends : asked'[q] = IF q = n THEN asked[n] - 1 ELSE asked[q]
    BY <1>3 DEF ReadPiece, QTypeOK
  <2> QED
    BY <1>1, <2>1 DEF AskedFits
<1>4. CASE asked' = asked
  BY <1>4 DEF AskedFits
<1>5. CASE UNCHANGED qvars
  BY <1>4, <1>5 DEF qvars
<1>6. ASSUME NEW n \in Ends, SendText(n) \/ SendMedia(n) PROVE asked' = asked
  BY <1>6 DEF SendText, SendMedia
<1>7. ASSUME NEW n \in Ends, Writer(n) PROVE asked' = asked
  BY <1>7 DEF Writer, WriteControl, WakeForMedia, WriteMedia, MediaDrained,
              WriteData, Flush
<1>8. ASSUME NEW n \in Ends,
             ReadRequest(n) \/ ReadText(n) \/ ReadMedia(n) \/ Serve(n)
      PROVE  asked' = asked
  BY <1>8 DEF ReadRequest, ReadText, ReadMedia, Serve
<1> QED
  BY <1>2, <1>3, <1>4, <1>5, <1>6, <1>7, <1>8 DEF QNext, Reader

LEMMA QueuesStep ==
    ASSUME QInv, [QNext]_qvars
    PROVE  QInv'
<1>1. QTypeOK'
  BY QueuesTypeStep DEF QInv
<1>2. NothingLost'
  BY BalanceStep DEF QInv
<1>3. AskedFits'
  BY AskedFitsStep DEF QInv
<1> QED
  BY <1>1, <1>2, <1>3 DEF QInv

(* The queues keep their types, at whatever size, and no end receives a    *)
(* piece that it did not ask for.                                          *)
THEOREM QueuesTypeCorrect == QSpec => []QTypeOK
<1>1. QInv => QTypeOK
  BY DEF QInv
<1> QED
  BY <1>1, QueuesStart, QueuesStep, PTL DEF QSpec

(* For any queue sizes, windows and numbers of pieces and media frames:    *)
(* each piece asked for is on its way, once.                               *)
THEOREM PiecesAreConserved == QSpec => []NothingLost
<1>1. QInv => NothingLost
  BY DEF QInv
<1> QED
  BY <1>1, QueuesStart, QueuesStep, PTL DEF QSpec

(* When the windows of the peer fit into the piece queue, an answer always *)
(* finds a place there: the read loop, which waits for it, is not stopped. *)
THEOREM AnswersFindRoom == QSpec => []ReaderNeverWaits
<1>1. ASSUME QInv PROVE ReaderNeverWaits
  <2> SUFFICES ASSUME Window * Transfers <= DataCap, NEW n \in Ends,
                      reader[n] = "serving"
               PROVE  data[n] < DataCap
    BY DEF ReaderNeverWaits
  <2> DEFINE p == Peer(n)
  <2>1. p \in Ends /\ Peer(p) = n
    BY PeerOfPeer
  <2>2. asked[p] = Due(p) + Coming(n) /\ asked[p] <= Window * Transfers
    BY <1>1, <2>1 DEF QInv, NothingLost, AskedFits
  <2>3. Coming(n) = 1 + data[n] + Held(n, "piece") + Count(wire[n], "piece")
    BY DEF Coming
  <2>4. /\ Due(p) \in Nat /\ data[n] \in Nat /\ Held(n, "piece") \in Nat
        /\ Count(wire[n], "piece") \in Nat
    BY <1>1, <2>1, CountsAreNat DEF QInv
  <2>5. Window * Transfers \in Nat /\ DataCap \in Nat
    BY QueuesAssumption
  <2> HIDE DEF p
  <2> QED
    BY <2>2, <2>3, <2>4, <2>5
<1> QED
  BY <1>1, QueuesStart, QueuesStep, PTL DEF QSpec

-----------------------------------------------------------------------------
(* A text is in one place.                                                 *)

Texts(n) == Count(ctl[n], "text") + Held(n, "text") + Count(wire[n], "text")

TextOnce == \A n \in Ends : Texts(n) = IF text[n] = "queued" THEN 1 ELSE 0

(* No text joins the queues or leaves them.                                *)
TextsKept == text' = text /\ \A q \in Ends : Texts(q)' = Texts(q)

LEMMA TextsAreNat ==
    ASSUME QTypeOK, NEW n \in Ends
    PROVE  /\ Count(ctl[n], "text") \in Nat /\ Count(wire[n], "text") \in Nat
           /\ Held(n, "text") \in Nat /\ Texts(n) \in Nat
<1>1. ctl[n] \in Seq({"req", "text"}) /\ wire[n] \in Seq(Frame)
  BY CountsAreNat
<1>2. Count(ctl[n], "text") \in Nat /\ Count(wire[n], "text") \in Nat
  BY <1>1, PlacesFinite
<1>3. Held(n, "text") \in Nat
  BY DEF Held
<1> QED
  BY <1>2, <1>3 DEF Texts

LEMMA AskKeepsTexts ==
    ASSUME QTypeOK, NEW n \in Ends, Ask(n)
    PROVE  TextsKept
<1>1. ctl[n] \in Seq({"req", "text"})
  BY DEF QTypeOK
<1>2. Count(Append(ctl[n], "req"), "text") = Count(ctl[n], "text") + 0
  BY <1>1, CountAppend
<1>3. /\ ctl'[n] = Append(ctl[n], "req") /\ wire' = wire /\ sink' = sink
      /\ text' = text /\ \A q \in Ends \ {n} : ctl'[q] = ctl[q]
  BY DEF Ask, QTypeOK
<1>4. Count(ctl'[n], "text") = Count(ctl[n], "text")
  <2>1. Count(ctl[n], "text") \in Nat
    BY TextsAreNat
  <2> QED
    BY <1>2, <1>3, <2>1
<1>5. ASSUME NEW q \in Ends PROVE Texts(q)' = Texts(q)
  BY <1>3, <1>4 DEF Texts, Held
<1> QED
  BY <1>3, <1>5 DEF TextsKept

LEMMA WriterKeepsTexts ==
    ASSUME QTypeOK, NEW n \in Ends, Writer(n)
    PROVE  TextsKept
<1>1. CASE WriteControl(n)
  <2>1. ctl[n] \in Seq({"req", "text"}) /\ ctl[n] # <<>>
    BY <1>1, CountsAreNat DEF WriteControl
  <2>2. Count(ctl[n], "text") = Count(Tail(ctl[n]), "text")
                                + (IF Head(ctl[n]) = "text" THEN 1 ELSE 0)
    BY <2>1, CountTail
  <2>3. Count(Tail(ctl[n]), "text") \in Nat
    BY <2>1, HeadTailProperties, PlacesFinite
  <2>4. /\ ctl'[n] = Tail(ctl[n]) /\ sink'[n] = Head(ctl[n])
        /\ sink[n] = "none" /\ wire' = wire /\ text' = text
        /\ \A q \in Ends \ {n} : ctl'[q] = ctl[q] /\ sink'[q] = sink[q]
    BY <1>1 DEF WriteControl, Selects, QTypeOK
  <2>5. Texts(n) = Count(ctl[n], "text") + 0 + Count(wire[n], "text")
    BY <2>4 DEF Texts, Held
  <2>6. Texts(n)' = Count(Tail(ctl[n]), "text")
                    + (IF Head(ctl[n]) = "text" THEN 1 ELSE 0)
                    + Count(wire[n], "text")
    BY <2>4 DEF Texts, Held
  <2>7. Texts(n)' = Texts(n)
    BY <2>2, <2>3, <2>5, <2>6, TextsAreNat
  <2>8. ASSUME NEW q \in Ends \ {n} PROVE Texts(q)' = Texts(q)
    BY <2>4 DEF Texts, Held
  <2> QED
    BY <2>4, <2>7, <2>8 DEF TextsKept
<1>2. CASE WakeForMedia(n) \/ MediaDrained(n)
  BY <1>2 DEF WakeForMedia, MediaDrained, TextsKept, Texts, Held
<1>3. CASE WriteMedia(n) \/ WriteData(n)
  <2>1. /\ sink[n] = "none" /\ sink'[n] \in {"media", "piece"}
        /\ ctl' = ctl /\ wire' = wire /\ text' = text
        /\ \A q \in Ends \ {n} : sink'[q] = sink[q]
    BY <1>3 DEF WriteMedia, WriteData, Selects, QTypeOK
  <2>2. ASSUME NEW q \in Ends PROVE Held(q, "text")' = Held(q, "text")
    BY <2>1 DEF Held
  <2> QED
    BY <2>1, <2>2 DEF TextsKept, Texts
<1>4. CASE Flush(n)
  <2>1. wire[n] \in Seq(Frame) /\ sink[n] \in Frame
    BY <1>4 DEF Flush, QTypeOK
  <2>2. Count(Append(wire[n], sink[n]), "text") =
            Count(wire[n], "text") + (IF sink[n] = "text" THEN 1 ELSE 0)
    BY <2>1, CountAppend
  <2>3. /\ wire'[n] = Append(wire[n], sink[n]) /\ sink'[n] = "none"
        /\ ctl' = ctl /\ text' = text
        /\ \A q \in Ends \ {n} : wire'[q] = wire[q] /\ sink'[q] = sink[q]
    BY <1>4 DEF Flush, QTypeOK
  <2>4. Texts(n)' = Count(ctl[n], "text") + 0
                    + Count(Append(wire[n], sink[n]), "text")
    BY <2>3 DEF Texts, Held
  <2>5. Texts(n) = Count(ctl[n], "text") + (IF sink[n] = "text" THEN 1 ELSE 0)
                   + Count(wire[n], "text")
    BY DEF Texts, Held
  <2>6. Texts(n)' = Texts(n)
    BY <2>2, <2>4, <2>5, TextsAreNat
  <2>7. ASSUME NEW q \in Ends \ {n} PROVE Texts(q)' = Texts(q)
    BY <2>3 DEF Texts, Held
  <2> QED
    BY <2>3, <2>6, <2>7 DEF TextsKept
<1> QED
  BY <1>1, <1>2, <1>3, <1>4 DEF Writer

(* A frame that is no text is read.                                        *)
LEMMA ReadKeepsTexts ==
    ASSUME QTypeOK, NEW n \in Ends, NEW f, f # "text", Reads(n, f),
           UNCHANGED <<ctl, sink, text>>
    PROVE  TextsKept
<1>1. Peer(n) \in Ends
  BY PeerOfPeer
<1>2. ASSUME NEW q \in Ends PROVE Count(wire'[q], "text") = Count(wire[q], "text")
  BY <1>1, ReadsEffect
<1> QED
  BY <1>2 DEF TextsKept, Texts, Held

(* The text is posted.                                                     *)
LEMMA SendTextEffect ==
    ASSUME QTypeOK, NEW n \in Ends, SendText(n)
    PROVE  \A q \in Ends : Texts(q)' = IF q = n THEN Texts(n) + 1 ELSE Texts(q)
<1>1. ctl[n] \in Seq({"req", "text"})
  BY DEF QTypeOK
<1>2. Count(Append(ctl[n], "text"), "text") = Count(ctl[n], "text") + 1
  BY <1>1, CountAppend
<1>3. /\ ctl'[n] = Append(ctl[n], "text") /\ wire' = wire /\ sink' = sink
      /\ \A q \in Ends \ {n} : ctl'[q] = ctl[q]
  BY DEF SendText, QTypeOK
<1>4. Texts(n)' = Texts(n) + 1
  <2>1. Texts(n)' = (Count(ctl[n], "text") + 1) + Held(n, "text") + Count(wire[n], "text")
    BY <1>2, <1>3 DEF Texts, Held
  <2>2. Texts(n) = Count(ctl[n], "text") + Held(n, "text") + Count(wire[n], "text")
    BY DEF Texts
  <2> QED
    BY <2>1, <2>2, TextsAreNat
<1>5. ASSUME NEW q \in Ends \ {n} PROVE Texts(q)' = Texts(q)
  BY <1>3 DEF Texts, Held
<1> QED
  BY <1>4, <1>5

(* The text arrives, and it was posted.                                    *)
LEMMA ReadTextEffect ==
    ASSUME QTypeOK, TextOnce, NEW n \in Ends, ReadText(n)
    PROVE  /\ \A q \in Ends : Texts(q)' = IF q = Peer(n) THEN 0 ELSE Texts(q)
           /\ text[Peer(n)] = "queued"
<1> DEFINE p == Peer(n)
<1>1. p \in Ends
  BY PeerOfPeer
<1>2. Reads(n, "text") /\ ctl' = ctl /\ sink' = sink
  BY DEF ReadText
<1>3. /\ \A q \in Ends \ {p} : wire'[q] = wire[q]
      /\ Count(wire[p], "text") = Count(wire'[p], "text") + 1
      /\ Count(wire'[p], "text") \in Nat
  BY <1>2, ReadsEffect
<1> HIDE DEF p
<1>4. Texts(p)' = Count(ctl[p], "text") + Held(p, "text") + Count(wire'[p], "text")
  BY <1>2 DEF Texts, Held
<1>5. Texts(p) = Count(ctl[p], "text") + Held(p, "text") + Count(wire[p], "text")
  BY DEF Texts
<1>6. Texts(p) = Texts(p)' + 1 /\ Texts(p)' \in Nat
  BY <1>1, <1>3, <1>4, <1>5, TextsAreNat
<1>7. Texts(p)' = 0 /\ text[p] = "queued"
  BY <1>1, <1>6 DEF TextOnce
<1>8. ASSUME NEW q \in Ends \ {p} PROVE Texts(q)' = Texts(q)
  BY <1>2, <1>3, <1>8 DEF Texts, Held
<1> QED
  BY <1>7, <1>8 DEF p

LEMMA TextOnceStep ==
    ASSUME QTypeOK, TextOnce, [QNext]_qvars
    PROVE  TextOnce'
<1>1. ASSUME TextsKept PROVE TextOnce'
  BY <1>1 DEF TextsKept, TextOnce
<1>2. CASE UNCHANGED qvars
  BY <1>1, <1>2 DEF qvars, TextsKept, Texts, Held
<1>3. ASSUME NEW n \in Ends, SendText(n) PROVE TextOnce'
  <2>1. Texts(n) = 0
    BY <1>3 DEF SendText, TextOnce
  <2>2. \A q \in Ends : text'[q] = IF q = n THEN "queued" ELSE text[q]
    BY <1>3 DEF SendText, QTypeOK
  <2>3. \A q \in Ends : Texts(q)' = IF q = n THEN 1 ELSE Texts(q)
    BY <1>3, <2>1, SendTextEffect
  <2> QED
    BY <2>2, <2>3 DEF TextOnce
<1>4. ASSUME NEW n \in Ends, ReadText(n) PROVE TextOnce'
  <2>1. Peer(n) \in Ends /\ text' = [text EXCEPT ![Peer(n)] = "arrived"]
    BY <1>4, PeerOfPeer DEF ReadText
  <2> QED
    BY <1>4, <2>1, ReadTextEffect DEF TextOnce, QTypeOK
<1>5. ASSUME NEW n \in Ends,
             ReadRequest(n) \/ ReadPiece(n) \/ ReadMedia(n)
      PROVE  TextsKept
  BY <1>5, ReadKeepsTexts DEF ReadRequest, ReadPiece, ReadMedia
<1>6. ASSUME NEW n \in Ends, SendMedia(n) \/ Serve(n) PROVE TextsKept
  BY <1>6 DEF SendMedia, Serve, TextsKept, Texts, Held
<1> QED
  BY <1>1, <1>2, <1>3, <1>4, <1>5, <1>6, AskKeepsTexts, WriterKeepsTexts
     DEF QNext, Reader

-----------------------------------------------------------------------------
(* The connection is an exchange.                                          *)

Unseen == SumsKept /\ want' = want /\ text' = text

(* What the users of the connection see is what SumsKept speaks of.        *)
LEMMA UnseenStutters ==
    ASSUME Unseen
    PROVE  UNCHANGED Promise!exchange
<1>1. \A q \in Ends : Peer(q) \in Ends
  BY PeerOfPeer
<1>2. /\ [n \in Ends |-> Due(n)]' = [n \in Ends |-> Due(n)]
      /\ [n \in Ends |-> Coming(Peer(n))]' = [n \in Ends |-> Coming(Peer(n))]
  BY <1>1 DEF Unseen, SumsKept
<1> QED
  BY <1>2 DEF Unseen, Promise!exchange

LEMMA UnseenSteps ==
    ASSUME QTypeOK, NEW n \in Ends,
           \/ SendMedia(n) \/ Writer(n) \/ ReadMedia(n) \/ Serve(n)
    PROVE  Unseen
<1>1. SumsKept
  BY MediaKeepsSums, WriteControlKeepsSums, WriteDataKeepsSums, FlushKeepsSums,
     ReadOtherKeepsSums, ServeKeepsSums DEF Writer
<1>2. want' = want /\ text' = text
  BY DEF SendMedia, Writer, WriteControl, WakeForMedia, WriteMedia,
         MediaDrained, WriteData, Flush, ReadMedia, Serve
<1> QED
  BY <1>1, <1>2 DEF Unseen

(* Where the texts go, the pieces do not.                                  *)
LEMMA SumsAreSeen ==
    ASSUME SumsKept
    PROVE  /\ [n \in Ends |-> Due(n)]' = [n \in Ends |-> Due(n)]
           /\ [n \in Ends |-> Coming(Peer(n))]' = [n \in Ends |-> Coming(Peer(n))]
<1>1. \A q \in Ends : Peer(q) \in Ends
  BY PeerOfPeer
<1> QED
  BY <1>1 DEF SumsKept

LEMMA AskIsSeen ==
    ASSUME QInv, NEW n \in Ends, Ask(n)
    PROVE  Promise!Ask(n)
<1> DEFINE due    == [q \in Ends |-> Due(q)]
           coming == [q \in Ends |-> Coming(Peer(q))]
<1>0. QTypeOK /\ NothingLost
  BY DEF QInv
<1>1. /\ \A q \in Ends : Due(q)' = IF q = n THEN Due(n) + 1 ELSE Due(q)
      /\ \A q \in Ends : Coming(q)' = Coming(q)
      /\ \A q \in Ends : Peer(q) \in Ends
  BY <1>0, AskKeepsBalance, PeerOfPeer
<1>2. due' = [due EXCEPT ![n] = due[n] + 1] /\ coming' = coming
  BY <1>1
<1>3. due[n] + coming[n] < Window * Transfers
  BY <1>0 DEF NothingLost, Ask
<1>4. /\ want[n] > 0 /\ want' = [want EXCEPT ![n] = want[n] - 1]
      /\ text' = text
  BY DEF Ask
<1> QED
  BY <1>2, <1>3, <1>4 DEF Promise!Ask

LEMMA RequestIsAnswered ==
    ASSUME QInv, NEW n \in Ends, ReadRequest(n)
    PROVE  Promise!Answer(Peer(n))
<1> DEFINE due    == [q \in Ends |-> Due(q)]
           coming == [q \in Ends |-> Coming(Peer(q))]
           p == Peer(n)
<1>0. QTypeOK /\ NothingLost /\ want' = want /\ text' = text
  BY DEF QInv, ReadRequest
<1>1. p \in Ends /\ p # n /\ Peer(p) = n /\ \A q \in Ends : q = n \/ q = p
  BY PeerOfPeer
<1>2. /\ Due(p) = Due(p)' + 1 /\ Due(p)' \in Nat
      /\ Coming(n)' = Coming(n) + 1
      /\ Due(n)' = Due(n) /\ Coming(p)' = Coming(p)
  BY <1>0, ReadRequestKeepsBalance
<1>p. Peer(n) = p
  OBVIOUS
<1>3. Due(p) \in Nat
  BY <1>0, <1>1, CountsAreNat
<1> HIDE DEF p
<1>4. due' = [due EXCEPT ![p] = due[p] - 1] /\ due[p] > 0
  <2>1. \A q \in Ends : Due(q)' = IF q = p THEN Due(p) - 1 ELSE Due(q)
    BY <1>1, <1>2, <1>3
  <2>2. Due(p) > 0
    BY <1>2, <1>3
  <2> QED
    BY <1>1, <2>1, <2>2
<1>5. coming' = [coming EXCEPT ![p] = coming[p] + 1]
  <2>1. \A q \in Ends : Coming(Peer(q))' =
            IF q = p THEN Coming(Peer(p)) + 1 ELSE Coming(Peer(q))
    BY <1>1, <1>2, <1>p
  <2> QED
    BY <1>1, <2>1
<1>6. Promise!Answer(p)
  BY <1>0, <1>4, <1>5 DEF Promise!Answer
<1> QED
  BY <1>6 DEF p

LEMMA PieceIsReceived ==
    ASSUME QInv, NEW n \in Ends, ReadPiece(n)
    PROVE  Promise!Receive(n)
<1> DEFINE due    == [q \in Ends |-> Due(q)]
           coming == [q \in Ends |-> Coming(Peer(q))]
           p == Peer(n)
<1>0. QTypeOK /\ NothingLost /\ want' = want /\ text' = text
  BY DEF QInv, ReadPiece
<1>1. p \in Ends /\ p # n /\ Peer(p) = n /\ \A q \in Ends : q = n \/ q = p
  BY PeerOfPeer
<1>2. /\ Coming(p) = Coming(p)' + 1 /\ Coming(p)' \in Nat
      /\ Coming(n)' = Coming(n)
      /\ Due(n)' = Due(n) /\ Due(p)' = Due(p)
  BY <1>0, ReadPieceKeepsBalance
<1>p. Peer(n) = p
  OBVIOUS
<1>3. Coming(p) \in Nat
  BY <1>0, <1>1, CountsAreNat
<1> HIDE DEF p
<1>4. due' = due
  BY <1>1, <1>2
<1>5. coming' = [coming EXCEPT ![n] = coming[n] - 1] /\ coming[n] > 0
  <2>1. \A q \in Ends : Coming(Peer(q))' =
            IF q = n THEN Coming(p) - 1 ELSE Coming(Peer(q))
    BY <1>1, <1>2, <1>3, <1>p
  <2>2. Coming(p) > 0
    BY <1>2, <1>3
  <2> QED
    BY <1>1, <1>p, <2>1, <2>2
<1> QED
  BY <1>0, <1>4, <1>5 DEF Promise!Receive

(* Every step of the queues is one of an exchange, or none.                *)
LEMMA ExchangeStep ==
    ASSUME QInv, TextOnce, [QNext]_qvars
    PROVE  [Promise!Next]_(Promise!exchange)
<1>0. QTypeOK
  BY DEF QInv
<1>1. CASE UNCHANGED qvars
  <2>1. Unseen
    BY <1>1 DEF qvars, Unseen, SumsKept, Due, Coming, Held
  <2> QED
    BY <2>1, UnseenStutters
<1>2. ASSUME NEW n \in Ends,
             \/ SendMedia(n) \/ Writer(n) \/ ReadMedia(n) \/ Serve(n)
      PROVE  UNCHANGED Promise!exchange
  BY <1>0, <1>2, UnseenSteps, UnseenStutters
<1>3. ASSUME NEW n \in Ends, Ask(n) PROVE Promise!Next
  BY <1>3, AskIsSeen DEF Promise!Next
<1>4. ASSUME NEW n \in Ends, ReadRequest(n) PROVE Promise!Next
  BY <1>4, RequestIsAnswered, PeerOfPeer DEF Promise!Next
<1>5. ASSUME NEW n \in Ends, ReadPiece(n) PROVE Promise!Next
  BY <1>5, PieceIsReceived DEF Promise!Next
<1>6. ASSUME NEW n \in Ends, SendText(n) PROVE Promise!Next
  <2>1. SumsKept
    BY <1>0, <1>6, SendTextKeepsSums
  <2>2. Promise!Post(n)
    BY <1>6, <2>1, SumsAreSeen DEF SendText, Promise!Post
  <2> QED
    BY <2>2 DEF Promise!Next
<1>7. ASSUME NEW n \in Ends, ReadText(n) PROVE Promise!Next
  <2>1. SumsKept
    BY <1>0, <1>7, ReadOtherKeepsSums
  <2>2. text[Peer(n)] = "queued" /\ Peer(n) \in Ends
    BY <1>0, <1>7, ReadTextEffect, PeerOfPeer
  <2>3. Promise!Arrive(Peer(n))
    BY <1>7, <2>1, <2>2, SumsAreSeen DEF ReadText, Promise!Arrive
  <2> QED
    BY <2>2, <2>3 DEF Promise!Next
<1> QED
  BY <1>1, <1>2, <1>3, <1>4, <1>5, <1>6, <1>7 DEF QNext, Reader

(* The queues, the wire and the two loops implement an exchange: a request *)
(* is answered once, an answer comes only to a request, within the window, *)
(* and a text that was queued arrives at most once, and no other does.     *)
THEOREM ExchangeCorrect == QSpec => IsExchange
<1>1. QInit => TextOnce /\ Promise!Init
  <2> SUFFICES ASSUME QInit PROVE TextOnce /\ Promise!Init
    OBVIOUS
  <2>1. ASSUME NEW q \in Ends
        PROVE  Due(q) = 0 /\ Coming(q) = 0 /\ Texts(q) = 0
    BY CountEmpty DEF QInit, Due, Coming, Texts, Held
  <2>2. \A q \in Ends : Peer(q) \in Ends
    BY PeerOfPeer
  <2>3. TextOnce
    BY <2>1 DEF TextOnce, QInit
  <2>4. /\ [n \in Ends |-> Due(n)] = [n \in Ends |-> 0]
        /\ [n \in Ends |-> Coming(Peer(n))] = [n \in Ends |-> 0]
    BY <2>1, <2>2
  <2>5. want = Pieces /\ text = [n \in Ends |-> "unsent"]
    BY DEF QInit
  <2> QED
    BY <2>3, <2>4, <2>5 DEF Promise!Init
<1>2. QInv /\ TextOnce /\ [QNext]_qvars => TextOnce'
  BY TextOnceStep DEF QInv
<1>3. QInv /\ TextOnce /\ [QNext]_qvars => [Promise!Next]_(Promise!exchange)
  BY ExchangeStep
<1> QED
  BY <1>1, <1>2, <1>3, QueuesStart, QueuesStep, PTL
     DEF QSpec, IsExchange, Promise!Spec
=============================================================================
