------------------------------ MODULE LanQueues ------------------------------
(***************************************************************************)
(* The queues of one established LAN connection and the two loops that     *)
(* move frames through them: the write task and the read loop of           *)
(* src-tauri/src/lanchat/transport.rs, with the one handler that can wait, *)
(* handle_request of lanchat/swarm.rs.                                     *)
(*                                                                         *)
(* Each side keeps an unbounded control queue, a drop-oldest media queue   *)
(* and a bounded queue of file pieces.  The read loop runs every handler   *)
(* to its end before it reads on, and answering a request awaits a place   *)
(* in the piece queue: a side that cannot write does not read.             *)
(*                                                                         *)
(* The names that every specification has (QInit, QNext, QTypeOK, ...)     *)
(* start with a Q here: one module of proofs extends LanTransport too.     *)
(***************************************************************************)
EXTENDS Integers, Sequences, FiniteSets

CONSTANTS
    Ends,        \* the two ends
    Transfers,   \* files each end is fetching from the other
    Window,      \* PER_PEER_WINDOW: requests open per transfer
    DataCap,     \* DATA_QUEUE_CAP
    MediaCap,    \* MEDIA_QUEUE_CAP
    WireCap,     \* frames the operating systems buffer in one direction
    Pieces,      \* bound: pieces each end asks for in all
    MediaFrames  \* bound: media frames each end produces

ASSUME QueuesAssumption ==
    /\ IsFiniteSet(Ends) /\ Cardinality(Ends) = 2
    /\ Transfers \in Nat /\ Window \in Nat \ {0}
    /\ DataCap \in Nat \ {0} /\ MediaCap \in Nat \ {0}
    /\ WireCap \in Nat \ {0}
    /\ Pieces \in [Ends -> Nat] /\ MediaFrames \in [Ends -> Nat]

VARIABLES
    ctl,     \* control_tx: queued envelopes
    data,    \* data_tx: number of queued pieces
    media,   \* MediaQueue.inner: number of queued media frames
    permit,  \* MediaQueue.notify holds a wake-up
    writer,  \* the write task: waiting in its select, or draining media
    sink,    \* the frame the write task is sending
    wire,    \* frames on their way to the other end
    reader,  \* the read loop: reading, or answering a request
    want,    \* pieces still to ask for
    asked,   \* pieces asked for and not received
    film,    \* media frames still to produce
    text     \* the text message of this end

qvars == <<ctl, data, media, permit, writer, sink, wire, reader, want, asked,
           film, text>>

Frame == {"req", "piece", "text", "media"}

QTypeOK ==
    /\ ctl \in [Ends -> Seq({"req", "text"})]
    /\ data \in [Ends -> 0..DataCap]
    /\ media \in [Ends -> 0..MediaCap]
    /\ permit \in [Ends -> BOOLEAN]
    /\ writer \in [Ends -> {"select", "drain"}]
    /\ sink \in [Ends -> Frame \cup {"none"}]
    /\ wire \in [Ends -> Seq(Frame)] /\ \A n \in Ends : Len(wire[n]) <= WireCap
    /\ reader \in [Ends -> {"next", "serving"}]
    /\ want \in [Ends -> Nat] /\ asked \in [Ends -> Nat]
    /\ \A n \in Ends : asked[n] + want[n] <= Pieces[n]
    /\ film \in [Ends -> Nat]
    /\ text \in [Ends -> {"unsent", "queued", "arrived"}]

Peer(n) == CHOOSE p \in Ends : p # n

QInit ==
    /\ ctl = [n \in Ends |-> <<>>]
    /\ data = [n \in Ends |-> 0]
    /\ media = [n \in Ends |-> 0]
    /\ permit = [n \in Ends |-> FALSE]
    /\ writer = [n \in Ends |-> "select"]
    /\ sink = [n \in Ends |-> "none"]
    /\ wire = [n \in Ends |-> <<>>]
    /\ reader = [n \in Ends |-> "next"]
    /\ want = Pieces
    /\ asked = [n \in Ends |-> 0]
    /\ film = MediaFrames
    /\ text = [n \in Ends |-> "unsent"]

-----------------------------------------------------------------------------
(* Producers.                                                              *)

(* Mutant: a window that is one request too wide.                          *)
AskBeyond(n) ==
    /\ want[n] > 0
    /\ asked[n] <= Window * Transfers
    /\ want' = [want EXCEPT ![n] = want[n] - 1]
    /\ asked' = [asked EXCEPT ![n] = asked[n] + 1]
    /\ ctl' = [ctl EXCEPT ![n] = Append(ctl[n], "req")]
    /\ UNCHANGED <<data, media, permit, writer, sink, wire, reader, film, text>>

(* schedule_requests asks as long as the window of a transfer has room.    *)
Ask(n) ==
    /\ want[n] > 0
    /\ asked[n] < Window * Transfers
    /\ want' = [want EXCEPT ![n] = want[n] - 1]
    /\ asked' = [asked EXCEPT ![n] = asked[n] + 1]
    /\ ctl' = [ctl EXCEPT ![n] = Append(ctl[n], "req")]
    /\ UNCHANGED <<data, media, permit, writer, sink, wire, reader, film, text>>

(* Mutant: a bounded control queue and try_send.                           *)
SendTextIfRoom(n) ==
    /\ text[n] = "unsent"
    /\ text' = [text EXCEPT ![n] = "queued"]
    /\ ctl' = [ctl EXCEPT ![n] = IF ctl[n] = <<>> THEN <<"text">> ELSE ctl[n]]
    /\ UNCHANGED <<data, media, permit, writer, sink, wire, reader, want,
                   asked, film>>

(* send_text queues a control envelope.                                    *)
SendText(n) ==
    /\ text[n] = "unsent"
    /\ text' = [text EXCEPT ![n] = "queued"]
    /\ ctl' = [ctl EXCEPT ![n] = Append(ctl[n], "text")]
    /\ UNCHANGED <<data, media, permit, writer, sink, wire, reader, want,
                   asked, film>>

(* Mutant: MediaQueue::push that wakes only a write task that is waiting.  *)
SendMediaToWaiter(n) ==
    /\ film[n] > 0
    /\ film' = [film EXCEPT ![n] = film[n] - 1]
    /\ media' = [media EXCEPT ![n] = IF media[n] < MediaCap THEN media[n] + 1
                                     ELSE media[n]]
    /\ permit' = [permit EXCEPT ![n] = permit[n] \/
                     (writer[n] = "select" /\ sink[n] = "none")]
    /\ UNCHANGED <<ctl, data, writer, sink, wire, reader, want, asked, text>>

(* MediaQueue::push: the oldest frame goes when the queue is full, and     *)
(* notify_one leaves a permit when nobody waits.                           *)
SendMedia(n) ==
    /\ film[n] > 0
    /\ film' = [film EXCEPT ![n] = film[n] - 1]
    /\ media' = [media EXCEPT ![n] = IF media[n] < MediaCap THEN media[n] + 1
                                     ELSE media[n]]
    /\ permit' = [permit EXCEPT ![n] = TRUE]
    /\ UNCHANGED <<ctl, data, writer, sink, wire, reader, want, asked, text>>

-----------------------------------------------------------------------------
(* The write task: a biased select, control before media before data.      *)

Selects(n) == writer[n] = "select" /\ sink[n] = "none"

(* Mutant: a select whose losing branch has already taken its frame.       *)
WriteControlUnsafe(n) ==
    /\ Selects(n)
    /\ ctl[n] # <<>>
    /\ ctl' = [ctl EXCEPT ![n] = Tail(ctl[n])]
    /\ IF data[n] > 0
       THEN /\ sink' = [sink EXCEPT ![n] = "piece"]
            /\ data' = [data EXCEPT ![n] = data[n] - 1]
       ELSE /\ sink' = [sink EXCEPT ![n] = Head(ctl[n])]
            /\ data' = data
    /\ UNCHANGED <<media, permit, writer, wire, reader, want, asked, film, text>>

WriteControl(n) ==
    /\ Selects(n)
    /\ ctl[n] # <<>>
    /\ sink' = [sink EXCEPT ![n] = Head(ctl[n])]
    /\ ctl' = [ctl EXCEPT ![n] = Tail(ctl[n])]
    /\ UNCHANGED <<data, media, permit, writer, wire, reader, want, asked,
                   film, text>>

(* Mutant: the wake-up is not consumed.                                    *)
WakeForMediaAgain(n) ==
    /\ Selects(n)
    /\ ctl[n] = <<>> /\ permit[n]
    /\ writer' = [writer EXCEPT ![n] = "drain"]
    /\ UNCHANGED <<ctl, data, media, permit, sink, wire, reader, want, asked,
                   film, text>>

WakeForMedia(n) ==
    /\ Selects(n)
    /\ ctl[n] = <<>> /\ permit[n]
    /\ permit' = [permit EXCEPT ![n] = FALSE]
    /\ writer' = [writer EXCEPT ![n] = "drain"]
    /\ UNCHANGED <<ctl, data, media, sink, wire, reader, want, asked, film,
                   text>>

WriteMedia(n) ==
    /\ writer[n] = "drain" /\ sink[n] = "none"
    /\ media[n] > 0
    /\ media' = [media EXCEPT ![n] = media[n] - 1]
    /\ sink' = [sink EXCEPT ![n] = "media"]
    /\ UNCHANGED <<ctl, data, permit, writer, wire, reader, want, asked, film,
                   text>>

MediaDrained(n) ==
    /\ writer[n] = "drain" /\ sink[n] = "none"
    /\ media[n] = 0
    /\ writer' = [writer EXCEPT ![n] = "select"]
    /\ UNCHANGED <<ctl, data, media, permit, sink, wire, reader, want, asked,
                   film, text>>

WriteData(n) ==
    /\ Selects(n)
    /\ ctl[n] = <<>> /\ ~permit[n]
    /\ data[n] > 0
    /\ data' = [data EXCEPT ![n] = data[n] - 1]
    /\ sink' = [sink EXCEPT ![n] = "piece"]
    /\ UNCHANGED <<ctl, media, permit, writer, wire, reader, want, asked, film,
                   text>>

(* Mutant: a frame that was sent may be sent again.                        *)
FlushAgain(n) ==
    /\ sink[n] # "none"
    /\ Len(wire[n]) < WireCap
    /\ wire' = [wire EXCEPT ![n] = Append(wire[n], sink[n])]
    /\ sink' \in {sink, [sink EXCEPT ![n] = "none"]}
    /\ UNCHANGED <<ctl, data, media, permit, writer, reader, want, asked, film,
                   text>>

(* sink.send ends when the operating system takes the frame.               *)
Flush(n) ==
    /\ sink[n] # "none"
    /\ Len(wire[n]) < WireCap
    /\ wire' = [wire EXCEPT ![n] = Append(wire[n], sink[n])]
    /\ sink' = [sink EXCEPT ![n] = "none"]
    /\ UNCHANGED <<ctl, data, media, permit, writer, reader, want, asked, film,
                   text>>

-----------------------------------------------------------------------------
(* The read loop.                                                          *)

Reads(n, f) ==
    /\ reader[n] = "next"
    /\ wire[Peer(n)] # <<>> /\ Head(wire[Peer(n)]) = f
    /\ wire' = [wire EXCEPT ![Peer(n)] = Tail(wire[Peer(n)])]

ReadRequest(n) ==
    /\ Reads(n, "req")
    /\ reader' = [reader EXCEPT ![n] = "serving"]
    /\ UNCHANGED <<ctl, data, media, permit, writer, sink, want, asked, film,
                   text>>

ReadPiece(n) ==
    /\ Reads(n, "piece")
    /\ asked' = [asked EXCEPT ![n] = asked[n] - 1]
    /\ UNCHANGED <<ctl, data, media, permit, writer, sink, reader, want, film,
                   text>>

ReadText(n) ==
    /\ Reads(n, "text")
    /\ text' = [text EXCEPT ![Peer(n)] = "arrived"]
    /\ UNCHANGED <<ctl, data, media, permit, writer, sink, reader, want, asked,
                   film>>

ReadMedia(n) ==
    /\ Reads(n, "media")
    /\ UNCHANGED <<ctl, data, media, permit, writer, sink, reader, want, asked,
                   film, text>>

(* handle_request: send_data awaits a free place, and the read loop with   *)
(* it.                                                                     *)
Serve(n) ==
    /\ reader[n] = "serving"
    /\ data[n] < DataCap
    /\ data' = [data EXCEPT ![n] = data[n] + 1]
    /\ reader' = [reader EXCEPT ![n] = "next"]
    /\ UNCHANGED <<ctl, media, permit, writer, sink, wire, want, asked, film,
                   text>>

-----------------------------------------------------------------------------
Writer(n) ==
    \/ WriteControl(n) \/ WakeForMedia(n) \/ WriteMedia(n) \/ MediaDrained(n)
    \/ WriteData(n) \/ Flush(n)

Reader(n) ==
    \/ ReadRequest(n) \/ ReadPiece(n) \/ ReadText(n) \/ ReadMedia(n)
    \/ Serve(n)

QNext == \E n \in Ends : \/ Ask(n) \/ SendText(n) \/ SendMedia(n)
                         \/ Writer(n) \/ Reader(n)

QSpec == QInit /\ [][QNext]_qvars

(* The runtime polls both loops of both ends, and the leecher its ticker.  *)
QFairSpec == QSpec /\ \A n \in Ends : /\ WF_qvars(Writer(n))
                                      /\ WF_qvars(Reader(n))
                                      /\ WF_qvars(Ask(n))

-----------------------------------------------------------------------------
Count(s, f) == Cardinality({i \in 1..Len(s) : s[i] = f})

Held(n, f) == IF sink[n] = f THEN 1 ELSE 0

(* What an end has under way: its requests that were not read, and the     *)
(* pieces that it owes the other.                                          *)
Due(n)    == Count(ctl[n], "req") + Held(n, "req") + Count(wire[n], "req")
Coming(n) == (IF reader[n] = "serving" THEN 1 ELSE 0)
             + data[n] + Held(n, "piece") + Count(wire[n], "piece")

(* Every piece asked for is somewhere on its way: as a request at the one  *)
(* end, being answered, or as a piece at the other.  The queues neither    *)
(* lose nor invent one.                                                    *)
NothingLost == \A n \in Ends : asked[n] = Due(n) + Coming(Peer(n))

Promise == INSTANCE Exchange WITH
    Limit <- Window * Transfers,
    due <- [n \in Ends |-> Due(n)], coming <- [n \in Ends |-> Coming(Peer(n))]

(* Whatever waits for what in the queues, the connection is an exchange: a *)
(* request is answered once, an answer comes only to a request, within the *)
(* window, and a text that was queued arrives at most once, and no other.  *)
IsExchange == Promise!Spec

(* When the peer's open requests fit into the piece queue, the read loop   *)
(* never waits for a place in it.                                          *)
ReaderNeverWaits ==
    Window * Transfers <= DataCap =>
        \A n \in Ends : reader[n] = "serving" => data[n] < DataCap

(* "a separate, prioritized queue so pings/text never wait behind piece    *)
(* data": a queued text reaches the other end, and media frames are never  *)
(* stranded in their queue, whatever the pieces do.                        *)
UrgentLeaves ==
    \A n \in Ends : /\ text[n] = "queued" ~> text[n] = "arrived"
                    /\ media[n] > 0 ~> media[n] = 0

(* Every transfer gets its pieces.                                         *)
TransfersFinish == \A n \in Ends : <>(want[n] = 0 /\ asked[n] = 0)
==============================================================================
