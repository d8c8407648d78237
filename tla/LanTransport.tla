---------------------------- MODULE LanTransport ----------------------------
(***************************************************************************)
(* How two LAN messenger nodes come to share one connection:               *)
(* src-tauri/src/lanchat/transport.rs.                                     *)
(*                                                                         *)
(* Both ends of a socket run setup_connection on their own: handshake,     *)
(* registration in state.connections (where a duplicate is dropped or      *)
(* replaces the registered one), a read loop, teardown.  Both sides may    *)
(* dial at once, and each decides with what it knows.                      *)
(*                                                                         *)
(* An end reads what the other sent before it closed, so a dialer can      *)
(* finish the handshake on a socket that the acceptor dropped right after. *)
(* Frames after the handshake are not modelled here: see LanMessaging and  *)
(* LanQueues.                                                              *)
(***************************************************************************)
EXTENDS Integers, FiniteSets

CONSTANTS
    Node,       \* the nodes
    Rank,       \* the order of their ids
    Sock,       \* sockets, used again once both ends are closed
    None,       \* no socket
    MaxDials,   \* dials one node may have under way to another
    MaxLosses   \* bound: crashes, broken sockets, handshake time-outs

ASSUME ConstantsAssumption ==
    /\ Rank \in [Node -> Nat]
    /\ \A n, p \in Node : Rank[n] = Rank[p] => n = p
    /\ None \notin Sock /\ IsFiniteSet(Sock)
    /\ MaxDials \in Nat \ {0} /\ MaxLosses \in Nat

VARIABLES
    sock,    \* the sockets, each with its two ends
    conn,    \* state.connections of each node
    met,     \* pairs that have completed a handshake
    losses

vars == <<sock, conn, met, losses>>

Side  == {"out", "in"}
EndAt == {"none", "greet", "ready", "reading", "told", "closed"}

(* `acked` says that the acceptor's hello-ack is on its way.               *)
Socket == [dialer : Node, acceptor : Node, acked : BOOLEAN, broken : BOOLEAN,
           end : [Side -> EndAt]]

Owner(s, d)  == IF d = "out" THEN sock[s].dialer ELSE sock[s].acceptor
Remote(s, d) == IF d = "out" THEN sock[s].acceptor ELSE sock[s].dialer
Other(d)     == IF d = "out" THEN "in" ELSE "out"
At(s, d)     == sock[s].end[d]

(* The pair's socket is gone for this end: end of stream, or an error.     *)
Hangs(s, d) == At(s, Other(d)) = "closed" \/ sock[s].broken

Free(s) == \A d \in Side : At(s, d) \in {"none", "closed"}

(* The types, and nobody talks to himself.                                 *)
TypeOK ==
    /\ sock \in [Sock -> Socket]
    /\ conn \in [Node -> [Node -> Sock \cup {None}]]
    /\ met \in SUBSET (SUBSET Node)
    /\ losses \in 0..MaxLosses
    /\ \A s \in Sock : Free(s) \/ sock[s].dialer # sock[s].acceptor

InitSocket(n, p, at) ==
    [dialer |-> n, acceptor |-> p, acked |-> FALSE, broken |-> FALSE,
     end |-> [d \in Side |-> at]]

Init ==
    /\ \E n \in Node : sock = [s \in Sock |-> InitSocket(n, n, "none")]
    /\ conn = [n \in Node |-> [p \in Node |-> None]]
    /\ met = {}
    /\ losses = 0

Move(s, d, at) == [sock EXCEPT ![s].end[d] = at]

-----------------------------------------------------------------------------
(* duplicate_replaces_existing, and a tie-break that prefers one's own     *)
(* dial instead of the dial of the smaller id.                             *)
PrefersOwnDial(newOut, oldOut, me, peer) == newOut /\ ~oldOut

DuplicateReplacesExisting(newOut, oldOut, me, peer) ==
    /\ newOut # oldOut
    /\ LET dialer == IF newOut THEN me ELSE peer
       IN  Rank[dialer] <= Rank[me] /\ Rank[dialer] <= Rank[peer]

(* ensure_connection: nobody else's dial to the peer is waited for.        *)
Dial(s, n, p) ==
    /\ n # p
    /\ conn[n][p] = None
    /\ Free(s)
    /\ Cardinality({t \in Sock : /\ sock[t].dialer = n /\ sock[t].acceptor = p
                                 /\ At(t, "out") \in {"greet", "ready"}})
           < MaxDials
    /\ sock' = [sock EXCEPT ![s] = InitSocket(n, p, "greet")]
    /\ UNCHANGED <<conn, met, losses>>

(* handshake, accepting: hello read, hello-ack sent.                       *)
AcceptorGreets(s) ==
    /\ At(s, "in") = "greet"
    /\ ~Hangs(s, "in")
    /\ sock' = [Move(s, "in", "ready") EXCEPT ![s].acked = TRUE]
    /\ met' = met \cup {{sock[s].dialer, sock[s].acceptor}}
    /\ UNCHANGED <<conn, losses>>

(* handshake, dialing: the hello-ack arrives, even if the acceptor has     *)
(* closed its end since.                                                   *)
DialerGreets(s) ==
    /\ At(s, "out") = "greet"
    /\ sock[s].acked /\ ~sock[s].broken
    /\ sock' = Move(s, "out", "ready")
    /\ UNCHANGED <<conn, met, losses>>

(* The other end closed before it answered.                                *)
HandshakeFails(s, d) ==
    /\ At(s, d) = "greet"
    /\ Hangs(s, d)
    /\ d = "out" => ~sock[s].acked \/ sock[s].broken
    /\ sock' = Move(s, d, "closed")
    /\ UNCHANGED <<conn, met, losses>>

(* HANDSHAKE_TIMEOUT, or a check of version or identity that fails.        *)
HandshakeTimesOut(s, d) ==
    /\ At(s, d) = "greet"
    /\ losses < MaxLosses
    /\ losses' = losses + 1
    /\ sock' = Move(s, d, "closed")
    /\ UNCHANGED <<conn, met>>

(* The block of setup_connection under the write lock.                     *)
Accepted(s, d, n, p) ==
    \/ conn[n][p] = None
    \/ /\ conn[n][p] # None
       /\ DuplicateReplacesExisting(d = "out", sock[conn[n][p]].dialer = n, n, p)

(* The new connection enters the map; one that was there is told to close. *)
Register(s, d) ==
    LET n == Owner(s, d)  p == Remote(s, d)  old == conn[n][p] IN
    /\ At(s, d) = "ready"
    /\ Accepted(s, d, n, p)
    /\ conn' = [conn EXCEPT ![n] = [@ EXCEPT ![p] = s]]
    /\ LET told == IF sock[old].dialer = n THEN "out" ELSE "in"
           now  == Move(s, d, "reading")
       IN  sock' = IF old = None THEN now
                   ELSE [now EXCEPT ![old].end[told] = "told"]
    /\ UNCHANGED <<met, losses>>

(* The new connection is the duplicate: its socket is dropped.             *)
DropDuplicate(s, d) ==
    /\ At(s, d) = "ready"
    /\ ~Accepted(s, d, Owner(s, d), Remote(s, d))
    /\ sock' = Move(s, d, "closed")
    /\ UNCHANGED <<conn, met, losses>>

(* Mutant: the read loop ends when it is told to, not when the stream does.*)
TeardownToldOnly(s, d) ==
    /\ At(s, d) = "told"
    /\ sock' = Move(s, d, "closed")
    /\ conn' = IF conn[Owner(s, d)][Remote(s, d)] = s
               THEN [conn EXCEPT ![Owner(s, d)] =
                        [@ EXCEPT ![Remote(s, d)] = None]]
               ELSE conn
    /\ UNCHANGED <<met, losses>>

(* Mutant: it removes the entry of its peer, whosever socket it is.        *)
TeardownUnguarded(s, d) ==
    /\ \/ At(s, d) = "told"
       \/ At(s, d) = "reading" /\ Hangs(s, d)
    /\ sock' = Move(s, d, "closed")
    /\ conn' = [conn EXCEPT ![Owner(s, d)] =
                   [@ EXCEPT ![Remote(s, d)] = None]]
    /\ UNCHANGED <<met, losses>>

(* The end of the read loop: only an entry with its own conn_id goes.      *)
Teardown(s, d) ==
    /\ \/ At(s, d) = "told"
       \/ At(s, d) = "reading" /\ Hangs(s, d)
    /\ sock' = Move(s, d, "closed")
    /\ conn' = IF conn[Owner(s, d)][Remote(s, d)] = s
               THEN [conn EXCEPT ![Owner(s, d)] =
                        [@ EXCEPT ![Remote(s, d)] = None]]
               ELSE conn
    /\ UNCHANGED <<met, losses>>

-----------------------------------------------------------------------------
(* A socket dies under both ends.                                          *)
Break(s) ==
    /\ ~Free(s) /\ ~sock[s].broken
    /\ losses < MaxLosses
    /\ losses' = losses + 1
    /\ sock' = [sock EXCEPT ![s] = [@ EXCEPT !.broken = TRUE]]
    /\ UNCHANGED <<conn, met>>

(* A process dies; its operating system closes what it had open.           *)
Crash(n) ==
    /\ losses < MaxLosses
    /\ losses' = losses + 1
    /\ sock' = [s \in Sock |->
           IF Free(s) THEN sock[s]
           ELSE [sock[s] EXCEPT !.end =
                   [d \in Side |-> IF Owner(s, d) = n THEN "closed" ELSE @[d]]]]
    /\ conn' = [conn EXCEPT ![n] = [p \in Node |-> None]]
    /\ UNCHANGED met

-----------------------------------------------------------------------------
SideStep(s, d) ==
    \/ HandshakeFails(s, d) \/ Register(s, d) \/ DropDuplicate(s, d)
    \/ Teardown(s, d)

SockStep(s) ==
    \/ AcceptorGreets(s) \/ DialerGreets(s)
    \/ \E d \in Side : SideStep(s, d)

Redial(n, p) == \E s \in Sock : Dial(s, n, p)

Next ==
    \/ \E s \in Sock : \/ SockStep(s) \/ Break(s)
                       \/ \E d \in Side : HandshakeTimesOut(s, d)
    \/ \E n, p \in Node : Redial(n, p)
    \/ \E n \in Node : Crash(n)

Spec == Init /\ [][Next]_vars

(* The runtime polls both ends' tasks, and a node that has something to    *)
(* send and no connection dials (send_to_peer).                            *)
FairSpec ==
    /\ Spec
    /\ \A s \in Sock : /\ WF_vars(AcceptorGreets(s))
                       /\ WF_vars(DialerGreets(s))
                       /\ \A d \in Side : WF_vars(SideStep(s, d))
    /\ \A n, p \in Node : WF_vars(Redial(n, p))

-----------------------------------------------------------------------------
(* The map and the read loops agree: an entry is a socket this node reads  *)
(* and nobody told to close, and every such socket is the peer's entry.    *)
EntryIsOpenEnd ==
    /\ \A n, p \in Node : conn[n][p] # None =>
          \E d \in Side : /\ Owner(conn[n][p], d) = n
                          /\ Remote(conn[n][p], d) = p
                          /\ At(conn[n][p], d) = "reading"
    /\ \A s \in Sock, d \in Side :
          At(s, d) = "reading" => conn[Owner(s, d)][Remote(s, d)] = s

(* A socket no end has given up.                                           *)
Viable(s, n, p) ==
    /\ {sock[s].dialer, sock[s].acceptor} = {n, p}
    /\ ~sock[s].broken
    /\ \A d \in Side : At(s, d) \in {"greet", "ready", "reading"}

(* "each side must independently keep the same one of the two connections  *)
(* or both tear down and chat silently breaks": once two nodes have met,   *)
(* dropping and replacing duplicates always spares one socket, as long as  *)
(* nothing else takes one away.                                            *)
DuplicatesSpareOne ==
    \A n, p \in Node : losses = 0 /\ n # p /\ {n, p} \in met
                          => \E s \in Sock : Viable(s, n, p)

(* Whatever was lost or left half open, two nodes that keep talking end up *)
(* with one socket, the same for both, and keep it.                        *)
Converges ==
    \A n, p \in Node : n # p =>
        <>[](conn[n][p] # None /\ conn[n][p] = conn[p][n])
=============================================================================
