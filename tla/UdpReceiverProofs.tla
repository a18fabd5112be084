-------------------------- MODULE UdpReceiverProofs --------------------------
(***************************************************************************)
(* What holds of the UDP receivers for any number of modules, packets per  *)
(* frame, ring slots and frames, whatever the network loses, delays or     *)
(* repeats.                                                                *)
(***************************************************************************)
EXTENDS UdpReceiver, TLAPS, FiniteSetTheorems, SequenceTheorems

MetaType == [frame : FrameNumbers, image_id : Nat, n_missing : 0 .. Width - 1,
             got : [Places -> Nat]]

SentType == [frame : Frames, image_id : Nat, n_missing : 0 .. Width - 1,
             got : [Places -> Nat], data : Buffers]

\* What send records of a frame.
Handed(mt, buffer) == [frame |-> mt.frame, image_id |-> mt.image_id,
                       n_missing |-> mt.n_missing, got |-> mt.got, data |-> buffer]

LEMMA InvalidIsNoFrame == INVALID \notin Frames /\ NoPacket \notin Packets
BY UdpAssumption DEF INVALID, NoPacket, Packets

\* Counting a packet: the count is that of an unsigned integer.
LEMMA CountedFields ==
  ASSUME NEW mt \in MetaType, NEW k \in Places
  PROVE  /\ Counted(mt, k) \in MetaType
         /\ Counted(mt, k).frame = mt.frame
         /\ Counted(mt, k).image_id = mt.image_id
         /\ Counted(mt, k).n_missing = (mt.n_missing - 1) % Width
         /\ Counted(mt, k).got = [mt.got EXCEPT ![k] = @ + 1]
<1>1. Width \in Nat \ {0} /\ mt.n_missing \in Int
  BY UdpAssumption DEF MetaType
<1>2. (mt.n_missing - 1) % Width \in 0 .. Width - 1
  BY <1>1
<1>3. [mt.got EXCEPT ![k] = @ + 1] \in [Places -> Nat]
  BY DEF MetaType
<1> QED BY <1>2, <1>3, Zenon DEF MetaType, Counted

LEMMA InvalidatedFields ==
  ASSUME NEW mt \in MetaType
  PROVE  Invalidated(mt) \in MetaType /\ Invalidated(mt).frame = INVALID
BY Zenon DEF MetaType, Invalidated, FrameNumbers

LEMMA NewFrameFields ==
  ASSUME NEW f \in Frames, NEW id \in Nat
  PROVE  /\ NewFrame(f, id) \in MetaType
         /\ NewFrame(f, id).frame = f
         /\ NewFrame(f, id).n_missing = n_packets
         /\ NewFrame(f, id).got = [k \in Places |-> 0]
BY UdpAssumption DEF NewFrame, MetaType, FrameNumbers

\* A frame that is handed on is appended to the history of its module; the
\* ring buffer and the queue to the converter keep their types.
LEMMA SendEffect ==
  ASSUME ReceiversTypeOK, NEW m \in Modules, NEW mt \in MetaType, mt.frame \in Frames,
         NEW buffer \in Buffers, send(m, mt, buffer)
  PROVE  /\ ring' \in [Modules -> [0 .. n_slots - 1 -> Buffers]]
         /\ outbox' \in [Modules -> Seq([image_id : Nat, n_missing : 0 .. Width - 1])]
         /\ sent' \in [Modules -> Seq(SentType)]
         /\ Handed(mt, buffer) \in SentType
         /\ sent' = [sent EXCEPT ![m] = Append(sent[m], Handed(mt, buffer))]
<1>1. mt.image_id \in Nat /\ n_slots \in Nat \ {0}
  BY UdpAssumption, Zenon DEF MetaType
<1>2. mt.image_id % n_slots \in 0 .. n_slots - 1
  BY <1>1
<1>3. ring' \in [Modules -> [0 .. n_slots - 1 -> Buffers]]
  BY <1>2, Zenon DEF send, ReceiversTypeOK
<1>4. Handed(mt, buffer) \in SentType
  BY Zenon DEF Handed, SentType, MetaType
<1>5. sent' = [sent EXCEPT ![m] = Append(sent[m], Handed(mt, buffer))]
  BY Zenon DEF send, Handed
<1>6. sent \in [Modules -> Seq(SentType)]
  BY Zenon DEF ReceiversTypeOK, SentType
<1>7. Append(sent[m], Handed(mt, buffer)) \in Seq(SentType)
  BY <1>4, <1>6, AppendProperties, Zenon
<1>8. sent' \in [Modules -> Seq(SentType)]
  BY <1>5, <1>6, <1>7, Zenon
<1>9. outbox' \in [Modules -> Seq([image_id : Nat, n_missing : 0 .. Width - 1])]
  <2> DEFINE Message == [image_id : Nat, n_missing : 0 .. Width - 1]
             message == [image_id |-> mt.image_id, n_missing |-> mt.n_missing]
  <2>1. message \in Message
    BY Zenon DEF MetaType
  <2>2. outbox \in [Modules -> Seq(Message)]
    BY Zenon DEF ReceiversTypeOK
  <2>3. \/ outbox' = outbox
        \/ outbox' = [outbox EXCEPT ![m] = Append(outbox[m], message)]
    BY <2>2, Zenon DEF send
  <2> HIDE DEF Message, message
  <2>4. Append(outbox[m], message) \in Seq(Message)
    BY <2>1, <2>2, AppendProperties, Zenon
  <2>5. outbox' \in [Modules -> Seq(Message)]
    BY <2>2, <2>3, <2>4, SMTT(30)
  <2> QED BY <2>5, Zenon DEF Message
<1> QED BY <1>3, <1>4, <1>5, <1>8, <1>9, Zenon

\* Storing the packet in hand in the frame mt it belongs to.
LEMMA StoreEffect ==
  ASSUME ReceiversTypeOK, NEW m \in Modules, packet[m] \in Packets,
         NEW mt \in MetaType, mt.frame = packet[m].frame,
         NEW looks \in BOOLEAN, Store(m, mt, looks),
         NEW p, p = packet[m], NEW counted, counted = Counted(mt, p.place),
         NEW buffer, buffer = [frame_buffer[m] EXCEPT ![p.place] = p.frame]
  PROVE  /\ ReceiversTypeOK'
         /\ packet' = [packet EXCEPT ![m] = NoPacket]
         /\ frame_buffer' = [frame_buffer EXCEPT ![m] = buffer]
         /\ UNCHANGED <<arrived, overtaken>>
         /\ \/ /\ p.place = n_packets - 1
               /\ meta' = [meta EXCEPT ![m] = Invalidated(counted)]
               /\ sent' = [sent EXCEPT ![m] = Append(sent[m], Handed(counted, buffer))]
               /\ Handed(counted, buffer) \in SentType
            \/ /\ meta' = [meta EXCEPT ![m] = counted]
               /\ sent' = sent
<1>1. p.place \in Places /\ p.frame \in Frames
  BY Zenon DEF Packets
<1>2. counted \in MetaType /\ counted.frame = p.frame
  BY <1>1, CountedFields, Zenon
<1>3. buffer \in Buffers
  BY <1>1, Zenon DEF ReceiversTypeOK, Buffers, FrameNumbers
<1>4. /\ packet' = [packet EXCEPT ![m] = NoPacket]
      /\ frame_buffer' = [frame_buffer EXCEPT ![m] = buffer]
      /\ UNCHANGED <<detector, arrived, n_read, overtaken>>
  BY Zenon DEF Store, network
<1>5. \/ /\ p.place = n_packets - 1
         /\ send(m, counted, buffer)
         /\ meta' = [meta EXCEPT ![m] = Invalidated(counted)]
      \/ /\ meta' = [meta EXCEPT ![m] = counted]
         /\ UNCHANGED <<ring, outbox, sent>>
  BY Zenon DEF Store
<1>6. /\ packet' \in [Modules -> Packets \cup {NoPacket}]
      /\ frame_buffer' \in [Modules -> Buffers]
      /\ detector' \in Detectors
      /\ arrived' \in [Modules -> SUBSET Packets]
      /\ n_read' \in [Modules -> 0 .. MaxPackets]
      /\ overtaken' \in [Modules -> BOOLEAN]
  BY <1>3, <1>4, Zenon DEF ReceiversTypeOK
<1>7. meta \in [Modules -> MetaType] /\ sent \in [Modules -> Seq(SentType)]
  BY Zenon DEF ReceiversTypeOK, MetaType, SentType
<1>8. CASE /\ p.place = n_packets - 1
           /\ send(m, counted, buffer)
           /\ meta' = [meta EXCEPT ![m] = Invalidated(counted)]
  <2>1. meta' \in [Modules -> MetaType]
    BY <1>2, <1>7, <1>8, InvalidatedFields, Zenon
  <2>2. counted.frame \in Frames
    BY <1>1, <1>2, Zenon
  <2>3. /\ ring' \in [Modules -> [0 .. n_slots - 1 -> Buffers]]
        /\ outbox' \in [Modules -> Seq([image_id : Nat, n_missing : 0 .. Width - 1])]
        /\ sent' \in [Modules -> Seq(SentType)]
        /\ Handed(counted, buffer) \in SentType
        /\ sent' = [sent EXCEPT ![m] = Append(sent[m], Handed(counted, buffer))]
    BY ONLY ReceiversTypeOK, m \in Modules, <1>2, <1>3, <1>8, <2>2, SendEffect, Zenon
  <2>4. ReceiversTypeOK'
    BY <1>6, <2>1, <2>3, Zenon DEF ReceiversTypeOK, MetaType, SentType
  <2> QED BY <1>4, <1>8, <2>3, <2>4, Zenon
<1>9. CASE meta' = [meta EXCEPT ![m] = counted] /\ UNCHANGED <<ring, outbox, sent>>
  <2>1. meta' \in [Modules -> MetaType]
    BY <1>2, <1>7, <1>9, Zenon
  <2>2. ReceiversTypeOK'
    BY <1>6, <1>9, <2>1, Zenon DEF ReceiversTypeOK, MetaType
  <2> QED BY <1>4, <1>9, <2>2, Zenon
<1> QED BY <1>5, <1>8, <1>9, Zenon

\* Handing an unfinished frame on.
LEMMA FlushEffect ==
  ASSUME ReceiversTypeOK, NEW m \in Modules, flush_unfinished_frame(m)
  PROVE  /\ ReceiversTypeOK'
         /\ packet[m] \in Packets
         /\ meta[m].frame \in Frames /\ meta[m].frame # packet[m].frame
         /\ meta' = [meta EXCEPT ![m] = Invalidated(meta[m])]
         /\ sent' = [sent EXCEPT ![m] = Append(sent[m], Handed(meta[m], frame_buffer[m]))]
         /\ Handed(meta[m], frame_buffer[m]) \in SentType
         /\ UNCHANGED <<packet, frame_buffer, arrived, overtaken>>
<1>1. meta \in [Modules -> MetaType] /\ frame_buffer[m] \in Buffers
  BY Zenon DEF ReceiversTypeOK, MetaType
<1>2. /\ packet[m] \in Packets
      /\ meta[m].frame \in Frames /\ meta[m].frame # packet[m].frame
  BY <1>1, Zenon DEF flush_unfinished_frame, ReceiversTypeOK, MetaType, FrameNumbers
<1>3. /\ send(m, meta[m], frame_buffer[m])
      /\ meta' = [meta EXCEPT ![m] = Invalidated(meta[m])]
      /\ UNCHANGED <<detector, packet, frame_buffer, arrived, n_read, overtaken>>
  BY Zenon DEF flush_unfinished_frame, network
<1>4. /\ ring' \in [Modules -> [0 .. n_slots - 1 -> Buffers]]
      /\ outbox' \in [Modules -> Seq([image_id : Nat, n_missing : 0 .. Width - 1])]
      /\ sent' \in [Modules -> Seq(SentType)]
      /\ Handed(meta[m], frame_buffer[m]) \in SentType
      /\ sent' = [sent EXCEPT ![m] = Append(sent[m], Handed(meta[m], frame_buffer[m]))]
  BY <1>1, <1>2, <1>3, SendEffect, Zenon
<1>5. meta' \in [Modules -> MetaType]
  BY <1>1, <1>3, InvalidatedFields, Zenon
<1>6. ReceiversTypeOK'
  BY <1>3, <1>4, <1>5, Zenon DEF ReceiversTypeOK, MetaType, SentType
<1> QED BY <1>2, <1>3, <1>4, <1>6, Zenon

\* Reading a packet.
LEMMA ReceiveEffect ==
  ASSUME ReceiversTypeOK, NEW m \in Modules, NEW p \in Packets, receive_many(m, p)
  PROVE  /\ ReceiversTypeOK'
         /\ packet[m] = NoPacket
         /\ packet' = [packet EXCEPT ![m] = p]
         /\ arrived' = [arrived EXCEPT ![m] = arrived[m] \cup {p}]
         /\ overtaken' = [overtaken EXCEPT ![m] =
                           overtaken[m] \/ \E q \in arrived[m] : ~IsBefore(q, p)]
         /\ UNCHANGED <<meta, frame_buffer, sent>>
<1>1. n_read' \in [Modules -> 0 .. MaxPackets]
  BY UdpAssumption, SMTT(30) DEF receive_many, ReceiversTypeOK
<1>2. overtaken' \in [Modules -> BOOLEAN]
  BY Zenon DEF receive_many, ReceiversTypeOK
<1>3. packet' \in [Modules -> Packets \cup {NoPacket}] /\ arrived' \in [Modules -> SUBSET Packets]
  BY Zenon DEF receive_many, ReceiversTypeOK
<1>4. ReceiversTypeOK'
  BY <1>1, <1>2, <1>3, Zenon DEF receive_many, ReceiversTypeOK
<1> QED BY <1>4, Zenon DEF receive_many

\* The frame that the packet in hand is stored in: the one in progress, or a
\* new one.
StoresIn(m, mt) ==
  /\ packet[m] \in Packets
  /\ mt \in MetaType
  /\ mt.frame = packet[m].frame
  /\ \/ meta[m].frame # INVALID /\ mt = meta[m]
     \/ meta[m].frame = INVALID /\ \E id \in Nat : mt = NewFrame(packet[m].frame, id)

LEMMA ProcessIsStore ==
  ASSUME ReceiversTypeOK, NEW m \in Modules,
         eg_process_packet(m) \/ jf_process_packet(m) \/ gf_process_packet(m)
  PROVE  \E mt \in MetaType : \E looks \in BOOLEAN : StoresIn(m, mt) /\ Store(m, mt, looks)
<1>1. packet[m] \in Packets /\ packet[m].frame \in Frames /\ packet[m].frame \in Nat
  BY UdpAssumption, Zenon DEF ReceiversTypeOK, Packets, IsOfFrame, BeginsFrame,
     eg_process_packet, jf_process_packet, gf_process_packet
<1>2. meta[m] \in MetaType
  BY Zenon DEF ReceiversTypeOK, MetaType
<1>3. CASE IsOfFrame(m) /\ Store(m, meta[m], TRUE)
  BY <1>1, <1>2, <1>3, InvalidIsNoFrame, Zenon DEF IsOfFrame, StoresIn
<1>4. ASSUME NEW id \in Nat, NEW looks \in BOOLEAN,
             BeginsFrame(m), Store(m, NewFrame(packet[m].frame, id), looks)
      PROVE  \E mt \in MetaType : StoresIn(m, mt) /\ Store(m, mt, looks)
  BY <1>1, <1>4, NewFrameFields, Zenon DEF BeginsFrame, StoresIn
<1>5. bunchid(packet[m].frame) \in Nat
  BY <1>1, UdpAssumption, Zenon
<1>6. CASE eg_process_packet(m)
  BY <1>1, <1>3, <1>4, <1>6, Zenon DEF eg_process_packet, eg_init_frame_metadata
<1>7. CASE jf_process_packet(m)
  BY <1>3, <1>4, <1>5, <1>7, Zenon DEF jf_process_packet, jf_init_frame_metadata
<1>8. CASE gf_process_packet(m)
  BY <1>1, <1>3, <1>4, <1>8, Zenon DEF gf_process_packet, gf_init_frame_metadata
<1> QED BY <1>6, <1>7, <1>8, Zenon

-----------------------------------------------------------------------------
(* n_missing_packets and the bytes in frame_buffer.                        *)

Got(got) == {k \in Places : got[k] # 0}

\* The places read hold bytes of the frame; unless one was read twice,
\* n_missing_packets counts the others.
Tallies(mt, buffer) ==
  /\ \A k \in Places : mt.got[k] # 0 => buffer[k] = mt.frame
  /\ (\A k \in Places : mt.got[k] <= 1) => mt.n_missing = n_packets - Cardinality(Got(mt.got))

HonestFrame(s) ==
  (\A k \in Places : s.got[k] <= 1) => Cardinality(Foreign(s)) <= s.n_missing

LEMMA PlacesAreFinite ==
  /\ IsFiniteSet(Places) /\ Cardinality(Places) = n_packets
  /\ \A P \in SUBSET Places : /\ IsFiniteSet(P) /\ Cardinality(P) \in Nat
                               /\ Cardinality(P) <= n_packets
                               /\ Cardinality(Places \ P) = n_packets - Cardinality(P)
<1>1. n_packets \in Nat \ {0}
  BY UdpAssumption, Zenon
<1>2. IsFiniteSet(Places) /\ Cardinality(Places) = n_packets
  <2>1. /\ IsFiniteSet(0 .. n_packets - 1)
        /\ Cardinality(0 .. n_packets - 1) =
             IF 0 > n_packets - 1 THEN 0 ELSE n_packets - 1 - 0 + 1
    BY <1>1, FS_Interval
  <2> QED BY <1>1, <2>1 DEF Places
<1>3. ASSUME NEW P \in SUBSET Places
      PROVE  /\ IsFiniteSet(P) /\ Cardinality(P) \in Nat
             /\ Cardinality(P) <= n_packets
             /\ Cardinality(Places \ P) = n_packets - Cardinality(P)
  <2>1. IsFiniteSet(P) /\ Cardinality(P) <= n_packets
    BY <1>2, FS_Subset, Zenon
  <2>2. Cardinality(P) \in Nat
    BY <2>1, FS_CardinalityType, Zenon
  <2>3. Cardinality(Places \ P) = Cardinality(Places) - Cardinality(Places \cap P)
    BY <1>2, FS_Difference, Zenon
  <2>4. Places \cap P = P
    OBVIOUS
  <2> QED BY <1>2, <2>1, <2>2, <2>3, <2>4, Zenon
<1> QED BY <1>2, <1>3, Zenon

LEMMA NewFrameTallies ==
  ASSUME NEW f \in Frames, NEW id \in Nat, NEW buffer
  PROVE  Tallies(NewFrame(f, id), buffer)
<1>1. /\ NewFrame(f, id).n_missing = n_packets
      /\ NewFrame(f, id).got = [k \in Places |-> 0]
  BY NewFrameFields, Zenon
<1>2. Got(NewFrame(f, id).got) = {}
  BY <1>1, Zenon DEF Got
<1>3. n_packets = n_packets - Cardinality(Got(NewFrame(f, id).got))
  BY <1>2, FS_EmptySet, UdpAssumption
<1> QED BY <1>1, <1>3, Zenon DEF Tallies

LEMMA StoreTallies ==
  ASSUME NEW mt \in MetaType, NEW buffer \in Buffers, NEW k \in Places, Tallies(mt, buffer),
         mt.frame \in Frames
  PROVE  Tallies(Counted(mt, k), [buffer EXCEPT ![k] = mt.frame])
<1> DEFINE c == Counted(mt, k)
<1>1. /\ c \in MetaType /\ c.frame = mt.frame
      /\ c.n_missing = (mt.n_missing - 1) % Width
      /\ c.got = [mt.got EXCEPT ![k] = @ + 1]
  BY CountedFields, Zenon
<1>2. mt.got \in [Places -> Nat]
  BY Zenon DEF MetaType
<1>3. \A j \in Places : c.got[j] = IF j = k THEN mt.got[k] + 1 ELSE mt.got[j]
  BY <1>1, <1>2, Zenon
<1> HIDE DEF c
<1>4. ASSUME NEW j \in Places, c.got[j] # 0
      PROVE  [buffer EXCEPT ![k] = mt.frame][j] = c.frame
  BY <1>1, <1>3, <1>4, Zenon DEF Buffers, Tallies
<1>5. ASSUME \A j \in Places : c.got[j] <= 1
      PROVE  c.n_missing = n_packets - Cardinality(Got(c.got))
  <2>1. \A j \in Places : mt.got[j] <= 1
    BY <1>2, <1>3, <1>5
  <2>2. mt.got[k] = 0
    BY <1>2, <1>3, <1>5
  <2>3. Got(c.got) = Got(mt.got) \cup {k} /\ k \notin Got(mt.got)
    BY <1>2, <1>3, <2>2 DEF Got
  <2>4. /\ IsFiniteSet(Got(mt.got)) /\ Cardinality(Got(mt.got)) \in Nat
        /\ Cardinality(Got(c.got)) <= n_packets /\ Cardinality(Got(c.got)) \in Nat
    BY PlacesAreFinite, Zenon DEF Got
  <2>5. Cardinality(Got(c.got)) = Cardinality(Got(mt.got)) + 1
    BY <2>3, <2>4, FS_AddElement, Zenon
  <2>6. mt.n_missing = n_packets - Cardinality(Got(mt.got))
    BY <2>1, Zenon DEF Tallies
  <2>7. PICK g, h \in Nat : g = Cardinality(Got(c.got)) /\ h = Cardinality(Got(mt.got))
    BY <2>4, Zenon
  <2>8. mt.n_missing - 1 = n_packets - g /\ g <= n_packets
    BY <2>4, <2>5, <2>6, <2>7, UdpAssumption, SMTT(40)
  <2>9. (n_packets - g) % Width = n_packets - g
    BY <2>8, UdpAssumption
  <2> QED BY <1>1, <2>7, <2>8, <2>9, Zenon
<1> QED BY <1>4, <1>5, Zenon DEF Tallies, c

LEMMA TalliedIsHonest ==
  ASSUME NEW mt \in MetaType, NEW buffer, Tallies(mt, buffer)
  PROVE  HonestFrame(Handed(mt, buffer))
<1> DEFINE s == Handed(mt, buffer)
<1>1. s.frame = mt.frame /\ s.got = mt.got /\ s.n_missing = mt.n_missing /\ s.data = buffer
  BY Zenon DEF Handed
<1> HIDE DEF s
<1> SUFFICES ASSUME \A k \in Places : s.got[k] <= 1
             PROVE  Cardinality(Foreign(s)) <= s.n_missing
  BY Zenon DEF HonestFrame, s
<1>2. Foreign(s) \subseteq Places \ Got(mt.got)
  BY <1>1, Zenon DEF Foreign, Got, Tallies
<1>3. s.n_missing = Cardinality(Places \ Got(mt.got))
  <2>1. s.n_missing = n_packets - Cardinality(Got(mt.got))
    BY <1>1, Zenon DEF Tallies
  <2>2. Got(mt.got) \in SUBSET Places
    BY Zenon DEF Got
  <2> QED BY <2>1, <2>2, PlacesAreFinite, Zenon
<1>4. IsFiniteSet(Places \ Got(mt.got))
  BY PlacesAreFinite, Zenon
<1> QED BY <1>2, <1>3, <1>4, FS_Subset

-----------------------------------------------------------------------------
(* The inductive invariant, module by module.                              *)

Tallied(m) ==
  /\ meta[m].frame # INVALID => Tallies(meta[m], frame_buffer[m])
  /\ \A i \in DOMAIN sent[m] : HonestFrame(sent[m][i])

Kept(m) ==
  \A p \in arrived[m] :
    \/ packet[m] = p
    \/ meta[m].frame = p.frame
    \/ \E i \in DOMAIN sent[m] : sent[m][i].frame = p.frame

SentBefore(m, f) == \A i \in DOMAIN sent[m] : sent[m][i].frame < f

\* As long as no packet was late: the frames handed on are older than the one
\* in progress, or than the one that the packet in hand begins; between two
\* frames, the last packet of the newest one has been read.
Ordered(m) ==
  /\ \A i, j \in DOMAIN sent[m] : i < j => sent[m][i].frame < sent[m][j].frame
  /\ meta[m].frame # INVALID =>
       /\ SentBefore(m, meta[m].frame)
       /\ \E q \in arrived[m] : q.frame = meta[m].frame
       /\ packet[m] # NoPacket => meta[m].frame <= packet[m].frame
  /\ meta[m].frame = INVALID /\ packet[m] # NoPacket => SentBefore(m, packet[m].frame)
  /\ meta[m].frame = INVALID /\ packet[m] = NoPacket =>
       \A i \in DOMAIN sent[m] : \E q \in arrived[m] :
         sent[m][i].frame <= q.frame /\ q.place = n_packets - 1
  /\ packet[m] # NoPacket => packet[m] \in arrived[m]

ModuleInv(m) == Tallied(m) /\ Kept(m) /\ (~overtaken[m] => Ordered(m))

RInv == ReceiversTypeOK /\ \A m \in Modules : ModuleInv(m)

\* Only the module that takes a step can break its invariant.
LEMMA OthersKept ==
  ASSUME RInv, NEW k \in Modules,
         packet'[k] = packet[k], meta'[k] = meta[k], frame_buffer'[k] = frame_buffer[k],
         arrived'[k] = arrived[k], overtaken'[k] = overtaken[k], sent'[k] = sent[k]
  PROVE  ModuleInv(k)'
BY DEF RInv, ModuleInv, Tallied, Kept, Ordered, SentBefore

LEMMA Appended ==
  ASSUME NEW s \in Seq(SentType), NEW h \in SentType, NEW t, t = Append(s, h)
  PROVE  /\ DOMAIN s \subseteq DOMAIN t
         /\ \A i \in DOMAIN s : t[i] = s[i]
         /\ \E n \in DOMAIN t : /\ t[n] = h
                                /\ \A i \in DOMAIN t : i # n => i \in DOMAIN s /\ i < n
<1>1. Len(s) \in Nat /\ DOMAIN s = 1 .. Len(s)
  BY LenProperties, Zenon
<1>2. /\ t \in Seq(SentType) /\ Len(t) = Len(s) + 1
      /\ \A i \in 1 .. Len(s) : t[i] = s[i]
      /\ t[Len(s) + 1] = h
  BY AppendProperties
<1>3. DOMAIN t = 1 .. Len(s) + 1
  BY <1>2, LenProperties, Zenon
<1> QED BY <1>1, <1>2, <1>3

LEMMA SentIsNatural ==
  ASSUME ReceiversTypeOK, NEW m \in Modules
  PROVE  /\ sent[m] \in Seq(SentType)
         /\ \A i \in DOMAIN sent[m] : sent[m][i].frame \in Nat
<1>1. sent[m] \in Seq(SentType)
  BY Zenon DEF ReceiversTypeOK, SentType
<1>2. \A i \in DOMAIN sent[m] : sent[m][i] \in SentType
  BY <1>1, LenProperties, ElementOfSeq, Zenon
<1> QED BY <1>1, <1>2, UdpAssumption, Zenon DEF SentType

LEMMA ReceiveKeeps ==
  ASSUME RInv, NEW m \in Modules, NEW p \in Packets, receive_many(m, p)
  PROVE  RInv'
<1>1. /\ ReceiversTypeOK'
      /\ packet[m] = NoPacket
      /\ packet' = [packet EXCEPT ![m] = p]
      /\ arrived' = [arrived EXCEPT ![m] = arrived[m] \cup {p}]
      /\ overtaken' = [overtaken EXCEPT ![m] =
                        overtaken[m] \/ \E q \in arrived[m] : ~IsBefore(q, p)]
      /\ UNCHANGED <<meta, frame_buffer, sent>>
  BY ReceiveEffect, Zenon DEF RInv
<1>2. /\ packet'[m] = p /\ arrived'[m] = arrived[m] \cup {p}
      /\ ~overtaken'[m] => ~overtaken[m] /\ \A q \in arrived[m] : IsBefore(q, p)
      /\ p \notin {NoPacket} /\ arrived[m] \subseteq Packets
  <2>1. overtaken \in [Modules -> BOOLEAN]
    BY Zenon DEF RInv, ReceiversTypeOK
  <2>2. overtaken'[m] = (overtaken[m] \/ \E q \in arrived[m] : ~IsBefore(q, p))
    BY <1>1, <2>1, Zenon
  <2>3. packet'[m] = p /\ arrived'[m] = arrived[m] \cup {p} /\ arrived[m] \subseteq Packets
    BY <1>1, Zenon DEF RInv, ReceiversTypeOK
  <2> QED BY <2>2, <2>3, InvalidIsNoFrame, Zenon
<1>3. \A k \in Modules : k # m => ModuleInv(k)'
  <2> SUFFICES ASSUME NEW k \in Modules, k # m PROVE ModuleInv(k)'
    OBVIOUS
  <2>1. packet'[k] = packet[k] /\ arrived'[k] = arrived[k] /\ overtaken'[k] = overtaken[k]
    BY <1>1 DEF RInv, ReceiversTypeOK
  <2>2. meta'[k] = meta[k] /\ frame_buffer'[k] = frame_buffer[k] /\ sent'[k] = sent[k]
    BY <1>1, Zenon
  <2> QED BY <2>1, <2>2, OthersKept, Zenon
<1>4. Tallied(m)'
  BY <1>1, Zenon DEF RInv, ModuleInv, Tallied
<1>5. Kept(m)'
  <2> SUFFICES ASSUME NEW q \in arrived[m], q # p
               PROVE  \/ meta[m].frame = q.frame
                      \/ \E i \in DOMAIN sent[m] : sent[m][i].frame = q.frame
    BY <1>1, <1>2, Zenon DEF Kept
  <2>1. packet[m] # q
    BY <1>1, <1>2, InvalidIsNoFrame, Zenon
  <2> QED BY <2>1, Zenon DEF RInv, ModuleInv, Kept
<1>6. ASSUME ~overtaken'[m] PROVE Ordered(m)'
  <2>1. Ordered(m) /\ \A q \in arrived[m] : IsBefore(q, p)
    BY <1>2, <1>6, Zenon DEF RInv, ModuleInv
  <2>2. /\ \A q \in arrived[m] : q.frame \in Nat /\ q.place \in Places
        /\ p.frame \in Nat /\ p.place \in Places
    BY <1>2, UdpAssumption, Zenon DEF Packets
  <2>3. CASE meta[m].frame # INVALID
    <3>1. PICK q \in arrived[m] : q.frame = meta[m].frame
      BY <2>1, <2>3, Zenon DEF Ordered
    <3>2. meta[m].frame <= p.frame
      BY <2>1, <2>2, <3>1, SMTT(40) DEF IsBefore
    <3> QED BY <1>1, <1>2, <2>1, <2>3, <3>2, ZenonT(40) DEF Ordered, SentBefore
  <2>4. CASE meta[m].frame = INVALID
    <3>1. SentBefore(m, p.frame)
      <4> SUFFICES ASSUME NEW i \in DOMAIN sent[m] PROVE sent[m][i].frame < p.frame
        BY Zenon DEF SentBefore
      <4>1. PICK q \in arrived[m] : sent[m][i].frame <= q.frame /\ q.place = n_packets - 1
        BY <1>1, <2>1, <2>4, Zenon DEF Ordered
      <4>2. q.frame < p.frame
        BY <2>1, <2>2, <4>1, UdpAssumption, SMTT(40) DEF IsBefore, Places
      <4>3. sent[m][i].frame \in Nat
        BY SentIsNatural, Zenon DEF RInv
      <4> QED BY <2>2, <4>1, <4>2, <4>3, SMTT(40)
    <3> QED BY <1>1, <1>2, <2>1, <2>4, <3>1, ZenonT(40) DEF Ordered, SentBefore
  <2> QED BY <2>3, <2>4, Zenon
<1>7. ModuleInv(m)'
  BY <1>4, <1>5, <1>6, Zenon DEF ModuleInv
<1> QED BY <1>1, <1>3, <1>7, Zenon DEF RInv

LEMMA FlushKeeps ==
  ASSUME RInv, NEW m \in Modules, flush_unfinished_frame(m)
  PROVE  RInv'
<1>1. PICK h : /\ h = Handed(meta[m], frame_buffer[m]) /\ h \in SentType
               /\ ReceiversTypeOK'
               /\ packet[m] \in Packets
               /\ meta[m].frame \in Frames /\ meta[m].frame # packet[m].frame
               /\ meta' = [meta EXCEPT ![m] = Invalidated(meta[m])]
               /\ sent' = [sent EXCEPT ![m] = Append(sent[m], h)]
               /\ UNCHANGED <<packet, frame_buffer, arrived, overtaken>>
  BY FlushEffect, Zenon DEF RInv
<1>2. /\ meta[m] \in MetaType /\ meta'[m] = Invalidated(meta[m])
      /\ sent'[m] = Append(sent[m], h)
      /\ \A k \in Modules : k # m => meta'[k] = meta[k] /\ sent'[k] = sent[k]
  BY <1>1, SMTT(40) DEF RInv, ReceiversTypeOK, MetaType
<1>3. meta'[m].frame = INVALID /\ meta[m].frame # INVALID /\ packet[m] # NoPacket
  BY <1>1, <1>2, InvalidatedFields, InvalidIsNoFrame, SMTT(30)
<1>4. h.frame = meta[m].frame /\ HonestFrame(h)
  <2>1. Tallies(meta[m], frame_buffer[m])
    BY <1>3, Zenon DEF RInv, ModuleInv, Tallied
  <2> QED BY <1>1, <1>2, <2>1, TalliedIsHonest, Zenon DEF Handed
<1>5. PICK n \in DOMAIN sent'[m] :
        /\ DOMAIN sent[m] \subseteq DOMAIN sent'[m]
        /\ \A i \in DOMAIN sent[m] : sent'[m][i] = sent[m][i]
        /\ sent'[m][n] = h
        /\ \A i \in DOMAIN sent'[m] : i # n => i \in DOMAIN sent[m] /\ i < n
  BY <1>1, <1>2, SentIsNatural, Appended, SMTT(40) DEF RInv
<1>6. \A k \in Modules : k # m => ModuleInv(k)'
  BY <1>1, <1>2, OthersKept, Zenon
<1>7. Tallied(m)'
  BY <1>3, <1>4, <1>5, ZenonT(30) DEF RInv, ModuleInv, Tallied, HonestFrame, Foreign
<1>8. Kept(m)'
  BY <1>1, <1>4, <1>5, SMTT(30) DEF RInv, ModuleInv, Kept
<1>9. ASSUME ~overtaken'[m] PROVE Ordered(m)'
  <2>1. Ordered(m)
    BY <1>1, <1>9, Zenon DEF RInv, ModuleInv
  <2>2. /\ meta[m].frame \in Nat /\ packet[m].frame \in Nat
        /\ meta[m].frame < packet[m].frame
    <3>1. meta[m].frame \in Nat /\ packet[m].frame \in Nat
      BY <1>1, UdpAssumption, Zenon DEF Packets
    <3>2. meta[m].frame <= packet[m].frame /\ meta[m].frame # packet[m].frame
      BY <1>1, <1>3, <2>1, Zenon DEF Ordered
    <3> QED BY <3>1, <3>2
  <2>3. \A i \in DOMAIN sent[m] : sent[m][i].frame < h.frame
    BY <1>3, <1>4, <2>1, Zenon DEF Ordered, SentBefore
  <2>4. ASSUME NEW i \in DOMAIN sent'[m], NEW j \in DOMAIN sent'[m], i < j
        PROVE  sent'[m][i].frame < sent'[m][j].frame
    <3>1. i # n /\ i \in DOMAIN sent[m]
      <4>1. DOMAIN sent'[m] \subseteq Int
        <5>1. sent'[m] \in Seq(SentType)
          BY <1>1, Zenon DEF ReceiversTypeOK, SentType
        <5> QED BY <5>1, LenProperties
      <4> QED BY <1>5, <2>4, <4>1, SMTT(40)
    <3>2. CASE j = n
      BY <1>5, <2>3, <3>1, <3>2, SMTT(30)
    <3>3. CASE j # n
      BY <1>5, <2>1, <2>4, <3>1, <3>3, ZenonT(40) DEF Ordered
    <3> QED BY <3>2, <3>3, Zenon
  <2>5. ASSUME NEW i \in DOMAIN sent'[m] PROVE sent'[m][i].frame < packet[m].frame
    <3>1. CASE i = n
      BY <1>4, <1>5, <2>2, <3>1, ZenonT(40)
    <3>2. CASE i # n
      <4>1. sent[m][i].frame < h.frame /\ sent[m][i].frame \in Nat /\ sent'[m][i] = sent[m][i]
        BY <1>5, <2>3, <3>2, SentIsNatural, Zenon DEF RInv
      <4> QED BY <1>4, <2>2, <4>1, SMTT(40)
    <3> QED BY <3>1, <3>2, Zenon
  <2>6. packet[m] \in arrived[m]
    BY <1>3, <2>1, Zenon DEF Ordered
  <2>7. packet'[m] = packet[m] /\ arrived'[m] = arrived[m]
    BY <1>1, Zenon
  <2> QED BY <1>3, <2>4, <2>5, <2>6, <2>7, ZenonT(30) DEF Ordered, SentBefore
<1>10. ModuleInv(m)'
  BY <1>7, <1>8, <1>9, Zenon DEF ModuleInv
<1> QED BY <1>1, <1>6, <1>10, Zenon DEF RInv

LEMMA StoreKeeps ==
  ASSUME RInv, NEW m \in Modules, NEW mt \in MetaType, StoresIn(m, mt),
         NEW looks \in BOOLEAN, Store(m, mt, looks)
  PROVE  RInv'
<1>1. PICK p, counted, buffer :
        /\ p = packet[m] /\ counted = Counted(mt, p.place)
        /\ buffer = [frame_buffer[m] EXCEPT ![p.place] = p.frame]
  BY Zenon
<1>2. p \in Packets /\ mt.frame = p.frame
  BY <1>1, Zenon DEF StoresIn
<1>3. p.place \in Places /\ p.frame \in Frames /\ p.frame \in Nat
  BY <1>2, UdpAssumption, ZenonT(40) DEF Packets
<1>4. /\ ReceiversTypeOK'
      /\ packet' = [packet EXCEPT ![m] = NoPacket]
      /\ frame_buffer' = [frame_buffer EXCEPT ![m] = buffer]
      /\ UNCHANGED <<arrived, overtaken>>
      /\ \/ /\ p.place = n_packets - 1
            /\ meta' = [meta EXCEPT ![m] = Invalidated(counted)]
            /\ sent' = [sent EXCEPT ![m] = Append(sent[m], Handed(counted, buffer))]
            /\ Handed(counted, buffer) \in SentType
         \/ /\ meta' = [meta EXCEPT ![m] = counted]
            /\ sent' = sent
  BY <1>1, StoreEffect DEF RInv, StoresIn
<1>5. counted \in MetaType /\ counted.frame = p.frame
  BY <1>1, <1>2, <1>3, CountedFields, Zenon
<1>6. Tallies(counted, buffer)
  <2>1. Tallies(mt, frame_buffer[m])
    <3>1. CASE meta[m].frame # INVALID /\ mt = meta[m]
      BY <3>1, Zenon DEF RInv, ModuleInv, Tallied
    <3>2. CASE \E id \in Nat : mt = NewFrame(packet[m].frame, id)
      BY <1>1, <1>3, <3>2, NewFrameTallies, Zenon
    <3> QED BY <3>1, <3>2, Zenon DEF StoresIn
  <2>2. frame_buffer[m] \in Buffers
    BY Zenon DEF RInv, ReceiversTypeOK
  <2> QED BY <1>1, <1>2, <1>3, <2>1, <2>2, StoreTallies, ZenonT(40)
<1>7. /\ packet'[m] = NoPacket /\ frame_buffer'[m] = buffer /\ arrived'[m] = arrived[m]
      /\ \A k \in Modules : k # m =>
           /\ packet'[k] = packet[k] /\ meta'[k] = meta[k] /\ sent'[k] = sent[k]
           /\ frame_buffer'[k] = frame_buffer[k] /\ arrived'[k] = arrived[k]
           /\ overtaken'[k] = overtaken[k]
  BY <1>4, ZenonT(30) DEF RInv, ReceiversTypeOK
<1>8. \A k \in Modules : k # m => ModuleInv(k)'
  BY <1>7, OthersKept, Zenon
\* As long as no packet was late, all frames handed on are older than this one.
<1>9. ASSUME ~overtaken'[m] PROVE Ordered(m) /\ p \in arrived[m] /\ SentBefore(m, p.frame)
  <2>1. Ordered(m)
    BY <1>4, <1>9, Zenon DEF RInv, ModuleInv
  <2>2. p # NoPacket
    BY <1>2, InvalidIsNoFrame, SMTT(30)
  <2>3. CASE meta[m].frame # INVALID
    BY <1>1, <1>2, <2>1, <2>2, <2>3, SMTT(30) DEF Ordered, StoresIn
  <2>4. CASE meta[m].frame = INVALID
    BY <1>1, <2>1, <2>2, <2>4, ZenonT(30) DEF Ordered
  <2> QED BY <2>3, <2>4, Zenon
\* The packets of the frame in progress, if any, are of this frame.
<1>10. meta[m].frame \in {INVALID, p.frame}
  BY <1>1, <1>2, Zenon DEF StoresIn
<1>11. CASE meta' = [meta EXCEPT ![m] = counted] /\ sent' = sent
  <2>1. meta'[m] = counted
    BY <1>11, ZenonT(40) DEF RInv, ReceiversTypeOK
  <2>2. Tallied(m)'
    BY <1>6, <1>7, <1>11, <2>1, SMTT(30) DEF RInv, ModuleInv, Tallied, Tallies
  <2>3. Kept(m)'
    <3> SUFFICES ASSUME NEW q \in arrived[m]
                 PROVE  \/ counted.frame = q.frame
                        \/ \E i \in DOMAIN sent[m] : sent[m][i].frame = q.frame
      BY <1>7, <1>11, <2>1, SMTT(40) DEF Kept
    <3>1. q.frame \in Frames
      BY SMTT(30) DEF RInv, ReceiversTypeOK, Packets
    <3> QED BY <1>1, <1>5, <1>10, <3>1, InvalidIsNoFrame, SMTT(30) DEF RInv, ModuleInv, Kept
  <2>4. ASSUME ~overtaken'[m] PROVE Ordered(m)'
    <3>1. counted.frame # INVALID
      BY <1>3, <1>5, InvalidIsNoFrame, Zenon
    <3>2. Ordered(m) /\ p \in arrived[m] /\ SentBefore(m, counted.frame)
      BY <1>5, <1>9, <2>4, Zenon
    <3> QED BY <1>5, <1>7, <1>11, <2>1, <3>1, <3>2, ZenonT(40) DEF Ordered, SentBefore
  <2> QED BY <1>4, <1>8, <2>2, <2>3, <2>4, ZenonT(40) DEF RInv, ModuleInv
<1>12. CASE /\ p.place = n_packets - 1
            /\ meta' = [meta EXCEPT ![m] = Invalidated(counted)]
            /\ sent' = [sent EXCEPT ![m] = Append(sent[m], Handed(counted, buffer))]
            /\ Handed(counted, buffer) \in SentType
  <2>1. meta'[m] = Invalidated(counted) /\ sent'[m] = Append(sent[m], Handed(counted, buffer))
    BY <1>12, Zenon DEF RInv, ReceiversTypeOK
  <2>2. meta'[m].frame = INVALID
    BY <1>5, <2>1, InvalidatedFields, Zenon
  <2>3. PICK h \in SentType : h = Handed(counted, buffer) /\ h.frame = p.frame /\ HonestFrame(h)
    BY <1>5, <1>6, <1>12, TalliedIsHonest, ZenonT(40) DEF Handed
  <2>4. PICK n \in DOMAIN sent'[m] :
          /\ DOMAIN sent[m] \subseteq DOMAIN sent'[m]
          /\ \A i \in DOMAIN sent[m] : sent'[m][i] = sent[m][i]
          /\ sent'[m][n] = h
          /\ \A i \in DOMAIN sent'[m] : i # n => i \in DOMAIN sent[m] /\ i < n
    <3>1. sent[m] \in Seq(SentType) /\ sent'[m] = Append(sent[m], h)
      BY <2>1, <2>3, SentIsNatural, SMTT(30) DEF RInv
    <3>2. PICK t : t = sent'[m] /\ t = Append(sent[m], h)
      BY <3>1, Zenon
    <3>3. /\ DOMAIN sent[m] \subseteq DOMAIN t
          /\ \A i \in DOMAIN sent[m] : t[i] = sent[m][i]
          /\ \E n \in DOMAIN t : /\ t[n] = h
                                 /\ \A i \in DOMAIN t : i # n => i \in DOMAIN sent[m] /\ i < n
      BY <3>1, <3>2, Appended, SMTT(40)
    <3> QED BY <3>2, <3>3, SMTT(30)
  <2>5. Tallied(m)'
    <3>1. \A i \in DOMAIN sent[m] : HonestFrame(sent[m][i])
      BY Zenon DEF RInv, ModuleInv, Tallied
    <3>2. \A i \in DOMAIN sent'[m] : HonestFrame(sent'[m][i])
      BY <2>3, <2>4, <3>1, SMTT(30)
    <3> QED BY <2>2, <3>2, Zenon DEF Tallied
  <2>6. Kept(m)'
    <3> SUFFICES ASSUME NEW q \in arrived[m]
                 PROVE  \E i \in DOMAIN sent'[m] : sent'[m][i].frame = q.frame
      BY <1>7, Zenon DEF Kept
    <3>1. q.frame \in Frames
      BY DEF RInv, ReceiversTypeOK, Packets
    <3>2. q.frame = p.frame \/ \E i \in DOMAIN sent[m] : sent[m][i].frame = q.frame
      BY <1>1, <1>10, <3>1, InvalidIsNoFrame, SMTT(30) DEF RInv, ModuleInv, Kept
    <3> QED BY <2>3, <2>4, <3>2, SMTT(30)
  <2>7. ASSUME ~overtaken'[m] PROVE Ordered(m)'
    <3>1. Ordered(m) /\ p \in arrived[m] /\ SentBefore(m, p.frame)
      BY <1>9, <2>7, Zenon
    <3>2. ASSUME NEW i \in DOMAIN sent'[m], NEW j \in DOMAIN sent'[m], i < j
          PROVE  sent'[m][i].frame < sent'[m][j].frame
      <4>1. i # n /\ i \in DOMAIN sent[m]
        <5>1. DOMAIN sent'[m] \subseteq Int
          <6>1. sent'[m] \in Seq(SentType)
            BY <1>4, ZenonT(30) DEF ReceiversTypeOK, SentType
          <6> QED BY <6>1, LenProperties
        <5> QED BY <2>4, <3>2, <5>1, SMTT(40)
      <4>2. CASE j = n
        BY <2>3, <2>4, <3>1, <4>1, <4>2, SMTT(30) DEF SentBefore
      <4>3. CASE j # n
        BY <2>4, <3>1, <3>2, <4>1, <4>3, SMTT(40) DEF Ordered
      <4> QED BY <4>2, <4>3, Zenon
    <3>3. ASSUME NEW i \in DOMAIN sent'[m] PROVE sent'[m][i].frame <= p.frame
      <4>1. CASE i = n
        BY <1>3, <2>3, <2>4, <4>1, SMTT(40)
      <4>2. CASE i # n
        <5>1. sent[m][i].frame < p.frame /\ sent[m][i].frame \in Nat /\ sent'[m][i] = sent[m][i]
          BY <2>4, <3>1, <4>2, SentIsNatural, Zenon DEF RInv, SentBefore
        <5> QED BY <1>3, <5>1, SMTT(40)
      <4> QED BY <4>1, <4>2, SMTT(30)
    <3> QED BY <1>7, <1>12, <2>2, <3>1, <3>2, <3>3, ZenonT(30) DEF Ordered
  <2> QED BY <1>4, <1>8, <2>5, <2>6, <2>7, Zenon DEF RInv, ModuleInv
<1> QED BY <1>4, <1>11, <1>12, Zenon

LEMMA TakeKeeps ==
  ASSUME RInv, NEW m \in Modules, take_message(m)
  PROVE  RInv'
<1> DEFINE Message == [image_id : Nat, n_missing : 0 .. Width - 1]
<1>1. outbox \in [Modules -> Seq(Message)]
  BY Zenon DEF RInv, ReceiversTypeOK
<1>2. /\ outbox[m] # << >> /\ outbox' = [outbox EXCEPT ![m] = Tail(outbox[m])]
      /\ UNCHANGED <<detector, packet, meta, frame_buffer, ring, arrived, n_read, overtaken, sent>>
  BY Zenon DEF take_message, network
<1> HIDE DEF Message
<1>3. Tail(outbox[m]) \in Seq(Message)
  BY <1>1, <1>2, HeadTailProperties, Zenon
<1>4. outbox' \in [Modules -> Seq(Message)]
  BY <1>1, <1>2, <1>3, Zenon
<1>5. ReceiversTypeOK'
  BY <1>2, <1>4, Zenon DEF RInv, ReceiversTypeOK, Message
<1>6. \A k \in Modules : ModuleInv(k)'
  BY <1>2, OthersKept, Zenon
<1> QED BY <1>5, <1>6, Zenon DEF RInv

LEMMA InitKeeps == InitReceivers => RInv
<1> SUFFICES ASSUME InitReceivers PROVE RInv
  OBVIOUS
<1>1. NoData \in Buffers /\ 0 \in 0 .. Width - 1
  BY UdpAssumption DEF NoData, Buffers, FrameNumbers
<1>2. /\ meta \in [Modules -> MetaType]
      /\ \A m \in Modules : meta[m].frame = INVALID
  BY <1>1, Zenon DEF InitReceivers, MetaType, FrameNumbers
<1>3. /\ n_read \in [Modules -> 0 .. MaxPackets]
      /\ ring \in [Modules -> [0 .. n_slots - 1 -> Buffers]]
      /\ frame_buffer \in [Modules -> Buffers]
  BY <1>1, UdpAssumption DEF InitReceivers
<1>4. ReceiversTypeOK
  BY <1>2, <1>3, EmptySeq, ZenonT(40) DEF InitReceivers, ReceiversTypeOK, MetaType
<1>5. \A m \in Modules : DOMAIN sent[m] = {} /\ arrived[m] = {} /\ packet[m] = NoPacket
  BY DEF InitReceivers
<1> QED BY <1>2, <1>4, <1>5, Zenon DEF RInv, ModuleInv, Tallied, Kept, Ordered

LEMMA RInvNext == RInv /\ [ReceiversNext]_receiver_vars => RInv'
<1>1. ASSUME RInv, NEW m \in Modules, Receiver(m) PROVE RInv'
  <2>1. CASE \E p \in Packets : receive_many(m, p)
    BY <1>1, <2>1, ReceiveKeeps, Zenon
  <2>2. CASE flush_unfinished_frame(m)
    BY <1>1, <2>2, FlushKeeps, Zenon
  <2>3. CASE eg_process_packet(m) \/ jf_process_packet(m) \/ gf_process_packet(m)
    <3>1. PICK mt \in MetaType, looks \in BOOLEAN : StoresIn(m, mt) /\ Store(m, mt, looks)
      BY <1>1, <2>3, ProcessIsStore, Zenon DEF RInv
    <3> QED BY <1>1, <3>1, StoreKeeps, Zenon
  <2> QED BY <1>1, <2>1, <2>2, <2>3, ZenonT(40) DEF Receiver
<1>2. ASSUME RInv, UNCHANGED receiver_vars PROVE RInv'
  <2>1. UNCHANGED <<detector, packet, meta, frame_buffer, ring, outbox, arrived, n_read, overtaken, sent>>
    BY <1>2, Zenon DEF receiver_vars, network
  <2>2. ReceiversTypeOK'
    BY <1>2, <2>1, Zenon DEF RInv, ReceiversTypeOK
  <2>3. \A k \in Modules : ModuleInv(k)'
    BY <1>2, <2>1, OthersKept, Zenon
  <2> QED BY <2>2, <2>3, Zenon DEF RInv
<1> QED BY <1>1, <1>2, TakeKeeps, Zenon DEF ReceiversNext

LEMMA Invariance == ReceiversSpec => []RInv
BY InitKeeps, RInvNext, PTL DEF ReceiversSpec

\* A frame whose packets were read at most once each never claims to hold more
\* than it does: n_missing_packets, counted down from N_PACKETS_PER_FRAME in
\* an unsigned integer, covers all bytes left over from other frames.
THEOREM CountIsHonest == ReceiversSpec => []MissingIsHonest
<1>1. RInv => MissingIsHonest
  BY Zenon DEF RInv, ModuleInv, Tallied, HonestFrame, MissingIsHonest
<1> QED BY <1>1, Invariance, PTL

\* No packet's frame is forgotten by an early return of the packet loop.
THEOREM FramesAreKept == ReceiversSpec => []NoFrameForgotten
<1>1. RInv => NoFrameForgotten
  BY Zenon DEF RInv, ModuleInv, Kept, NoFrameForgotten
<1> QED BY <1>1, Invariance, PTL

\* Loss alone disturbs neither the order of the frames nor their number.
THEOREM LossKeepsOrder == ReceiversSpec => []InOrderWithoutDelay
<1>1. RInv => InOrderWithoutDelay
  BY ZenonT(40) DEF RInv, ModuleInv, Ordered, InOrderWithoutDelay
<1> QED BY <1>1, Invariance, PTL

\* n_missing_packets stays in its range and send stays inside the ring buffer.
THEOREM ReceiversTypeCorrect == ReceiversSpec => []ReceiversTypeOK
<1>1. RInv => ReceiversTypeOK
  BY Zenon DEF RInv
<1> QED BY <1>1, Invariance, PTL
=============================================================================
