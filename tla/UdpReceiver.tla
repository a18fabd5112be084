----------------------------- MODULE UdpReceiver -----------------------------
(***************************************************************************)
(* std_udp_recv_eg, std_udp_recv_jf and std_udp_recv_gf: one process per   *)
(* detector module reads the module's UDP packets, collects those of one   *)
(* frame in frame_buffer and hands the frame on: frame_buffer is copied to *)
(* a slot of the module's ring buffer and the metadata is published for    *)
(* the converter.                                                          *)
(*                                                                         *)
(* A packet is its frame number and its place in the frame; the data of a  *)
(* place is the number of the frame it came from.  The network loses       *)
(* packets, delivers them late and those in Repeats more than once.        *)
(***************************************************************************)
EXTENDS Integers, Sequences, FiniteSets

CONSTANTS
  Modules,     \* module ids, one receiver each
  Detectors,   \* the detector types of this instance
  Frames,      \* frame numbers in the packet headers
  bunchid(_),  \* Jungfrau: the image id is the bunch id of the frame
  n_packets,   \* N_PACKETS_PER_FRAME
  n_slots,     \* RECEIVER_RAM_BUFFER_N_SLOTS
  Hwm,         \* BUFFER_ZMQ_SNDHWM: messages that can wait for the converter
  Width,       \* stands for 2^64, the range of n_missing_packets
  Late,        \* how many frames a packet can be behind the newest one
  Repeats,     \* the packets the network may deliver again
  MaxPackets   \* bound on the packets one receiver reads

INVALID == -1

ASSUME UdpAssumption ==
  /\ Modules \subseteq Nat
  /\ Detectors \subseteq {"eiger", "jungfrau", "gigafrost"}
  /\ Frames \subseteq Nat
  /\ \A f \in Frames : bunchid(f) \in Nat
  /\ n_packets \in Nat \ {0}
  /\ n_slots \in Nat \ {0}
  /\ Hwm \in Nat
  /\ Width \in Nat /\ n_packets < Width
  /\ Late \in Nat
  /\ Repeats \subseteq [frame : Frames, place : 0 .. n_packets - 1]
  /\ MaxPackets \in Nat

Places == 0 .. n_packets - 1

Packets == [frame : Frames, place : Places]

NoPacket == [frame |-> INVALID, place |-> 0]

VARIABLES
  detector,      \* the type of the detector
  packet,        \* packet[m]: the packet in hand
  meta,          \* meta[m]: frame in progress, its image id, n_missing_packets
  frame_buffer,  \* frame_buffer[m][place]: the frame the bytes came from
  ring,          \* ring[m][slot]: the frame buffer copied there
  outbox,        \* outbox[m]: metadata on its way to the converter
  arrived,       \* history: the packets read
  n_read,        \* history: how many packets were read
  overtaken,     \* history: whether a packet came late or again
  sent           \* history: the frames handed on, oldest first

network == <<arrived, n_read, overtaken>>
receiver_vars == <<detector, packet, meta, frame_buffer, ring, outbox, network, sent>>

\* memcpy to the slot of the image id, whatever that slot holds; the message
\* is dropped when the queue of the PUB socket is full.
send(m, mt, buffer) ==
  LET message == [image_id |-> mt.image_id, n_missing |-> mt.n_missing]
  IN  /\ ring' = [ring EXCEPT ![m][mt.image_id % n_slots] = buffer]
      /\ outbox' = IF Len(outbox[m]) < Hwm
                   THEN [outbox EXCEPT ![m] = Append(@, message)]
                   ELSE outbox
      /\ sent' = [sent EXCEPT ![m] = Append(@,
           [frame |-> mt.frame, image_id |-> mt.image_id,
            n_missing |-> mt.n_missing, got |-> mt.got, data |-> buffer])]

-----------------------------------------------------------------------------
(* The network and receive_many.                                           *)

IsBefore(q, p) == q.frame < p.frame \/ (q.frame = p.frame /\ q.place < p.place)

MayArrive(m, p) ==
  /\ p \in Repeats \/ p \notin arrived[m]
  /\ \A q \in arrived[m] : q.frame <= p.frame + Late

\* The packets of one recvmmsg call are processed one after the other.
receive_many(m, p) ==
  /\ packet[m] = NoPacket
  /\ n_read[m] < MaxPackets
  /\ MayArrive(m, p)
  /\ packet' = [packet EXCEPT ![m] = p]
  /\ arrived' = [arrived EXCEPT ![m] = @ \cup {p}]
  /\ n_read' = [n_read EXCEPT ![m] = @ + 1]
  /\ overtaken' = [overtaken EXCEPT ![m] = @ \/ \E q \in arrived[m] : ~IsBefore(q, p)]
  /\ UNCHANGED <<detector, meta, frame_buffer, ring, outbox, sent>>

-----------------------------------------------------------------------------
(* The packet loop.                                                        *)

\* got, a history, counts how often each place has been read for this frame.
NewFrame(f, id) ==
  [frame |-> f, image_id |-> id, n_missing |-> n_packets, got |-> [k \in Places |-> 0]]

\* Slip: the packet that begins the frame is counted here and in the loop.
init_one_too_few(f) == [NewFrame(f, f) EXCEPT !.n_missing = n_packets - 1]

eg_init_frame_metadata(f) == NewFrame(f, f)

jf_init_frame_metadata(f) == NewFrame(f, bunchid(f))

gf_init_frame_metadata(f) == NewFrame(f, f)

\* Slip: the frame that was handed on stays the one in progress.
still_in_progress(mt) == mt

Invalidated(mt) == [mt EXCEPT !.frame = INVALID]

Counted(mt, k) ==
  [mt EXCEPT !.n_missing = (@ - 1) % Width, !.got[k] = @ + 1]

\* Slip: the unfinished frame is forgotten, not handed on.
drop_unfinished_frame(m) ==
  /\ packet[m] # NoPacket
  /\ meta[m].frame \notin {INVALID, packet[m].frame}
  /\ meta' = [meta EXCEPT ![m] = Invalidated(@)]
  /\ UNCHANGED <<detector, packet, frame_buffer, ring, outbox, network, sent>>

\* The packet is of another frame than the one in progress: what there is of
\* the latter is handed on first.
flush_unfinished_frame(m) ==
  /\ packet[m] # NoPacket
  /\ meta[m].frame \notin {INVALID, packet[m].frame}
  /\ send(m, meta[m], frame_buffer[m])
  /\ meta' = [meta EXCEPT ![m] = Invalidated(@)]
  /\ UNCHANGED <<detector, packet, frame_buffer, network>>

\* The packet in hand is stored in the frame mt, which is handed on if the
\* packet is the last one and the receiver looks for that.
Store(m, mt, looks) ==
  LET p       == packet[m]
      counted == Counted(mt, p.place)
      buffer  == [frame_buffer[m] EXCEPT ![p.place] = p.frame]
      last    == looks /\ p.place = n_packets - 1
  IN  /\ packet' = [packet EXCEPT ![m] = NoPacket]
      /\ frame_buffer' = [frame_buffer EXCEPT ![m] = buffer]
      /\ \/ last /\ send(m, counted, buffer) /\ meta' = [meta EXCEPT ![m] = Invalidated(counted)]
         \/ ~last /\ meta' = [meta EXCEPT ![m] = counted] /\ UNCHANGED <<ring, outbox, sent>>
      /\ UNCHANGED <<detector, network>>

IsOfFrame(m) == packet[m] # NoPacket /\ meta[m].frame = packet[m].frame

BeginsFrame(m) == packet[m] # NoPacket /\ meta[m].frame = INVALID

\* The Eiger and the Jungfrau receiver do not look for the last packet in the
\* packet that begins a frame.
eg_process_packet(m) ==
  /\ detector = "eiger"
  /\ \/ IsOfFrame(m) /\ Store(m, meta[m], TRUE)
     \/ BeginsFrame(m) /\ Store(m, eg_init_frame_metadata(packet[m].frame), FALSE)

jf_process_packet(m) ==
  /\ detector = "jungfrau"
  /\ \/ IsOfFrame(m) /\ Store(m, meta[m], TRUE)
     \/ BeginsFrame(m) /\ Store(m, jf_init_frame_metadata(packet[m].frame), FALSE)

gf_process_packet(m) ==
  /\ detector = "gigafrost"
  /\ \/ IsOfFrame(m) /\ Store(m, meta[m], TRUE)
     \/ BeginsFrame(m) /\ Store(m, gf_init_frame_metadata(packet[m].frame), TRUE)

-----------------------------------------------------------------------------

NoData == [k \in Places |-> INVALID]

InitReceivers ==
  /\ detector \in Detectors
  /\ packet = [m \in Modules |-> NoPacket]
  /\ meta = [m \in Modules |->
       [frame |-> INVALID, image_id |-> 0, n_missing |-> 0, got |-> [k \in Places |-> 0]]]
  /\ frame_buffer = [m \in Modules |-> NoData]
  /\ ring = [m \in Modules |-> [s \in 0 .. n_slots - 1 |-> NoData]]
  /\ outbox = [m \in Modules |-> << >>]
  /\ arrived = [m \in Modules |-> {}]
  /\ n_read = [m \in Modules |-> 0]
  /\ overtaken = [m \in Modules |-> FALSE]
  /\ sent = [m \in Modules |-> << >>]

Receiver(m) ==
  \/ \E p \in Packets : receive_many(m, p)
  \/ flush_unfinished_frame(m)
  \/ eg_process_packet(m)
  \/ jf_process_packet(m)
  \/ gf_process_packet(m)

\* The converter takes its next message (Acquisition says what it does).
take_message(m) ==
  /\ outbox[m] # << >>
  /\ outbox' = [outbox EXCEPT ![m] = Tail(@)]
  /\ UNCHANGED <<detector, packet, meta, frame_buffer, ring, network, sent>>

\* The receivers on their own: the converters take messages at any pace.
ReceiversNext == \E m \in Modules : Receiver(m) \/ take_message(m)

ReceiversSpec == InitReceivers /\ [][ReceiversNext]_receiver_vars

-----------------------------------------------------------------------------

FrameNumbers == Frames \cup {INVALID}

Buffers == [Places -> FrameNumbers]

\* Type correctness of the receivers' state.
ReceiversTypeOK ==
  /\ detector \in Detectors
  /\ packet \in [Modules -> Packets \cup {NoPacket}]
  /\ meta \in [Modules -> [frame : FrameNumbers, image_id : Nat,
                           n_missing : 0 .. Width - 1, got : [Places -> Nat]]]
  /\ frame_buffer \in [Modules -> Buffers]
  /\ ring \in [Modules -> [0 .. n_slots - 1 -> Buffers]]
  /\ outbox \in [Modules -> Seq([image_id : Nat, n_missing : 0 .. Width - 1])]
  /\ arrived \in [Modules -> SUBSET Packets]
  /\ n_read \in [Modules -> 0 .. MaxPackets]
  /\ overtaken \in [Modules -> BOOLEAN]
  /\ sent \in [Modules -> Seq([frame : Frames, image_id : Nat,
                 n_missing : 0 .. Width - 1, got : [Places -> Nat], data : Buffers])]

Foreign(s) == {k \in Places : s.data[k] # s.frame}

\* A frame read without repeated packets never claims more than it holds: the
\* places that still hold bytes of other frames (frame_buffer is never cleared)
\* are at most n_missing_packets.  A frame reported complete is complete, also
\* when packets are lost or come late, after a newer frame has begun.
MissingIsHonest ==
  \A m \in Modules : \A i \in DOMAIN sent[m] :
    (\A k \in Places : sent[m][i].got[k] <= 1)
      => Cardinality(Foreign(sent[m][i])) <= sent[m][i].n_missing

\* Every frame of which a packet was read is handed on at least once, or is
\* the one in progress: no early return of the loop forgets a frame.
NoFrameForgotten ==
  \A m \in Modules : \A p \in arrived[m] :
    \/ packet[m] = p
    \/ meta[m].frame = p.frame
    \/ \E i \in DOMAIN sent[m] : sent[m][i].frame = p.frame

\* When packets are lost but never late or repeated, each frame is handed on
\* once and in order: what the module synchronizer relies on.
InOrderWithoutDelay ==
  \A m \in Modules : ~overtaken[m] =>
    \A i, j \in DOMAIN sent[m] : i < j => sent[m][i].frame < sent[m][j].frame
=============================================================================
