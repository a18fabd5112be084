-------------------------- MODULE AcquisitionProofs --------------------------
(***************************************************************************)
(* The acquisition as a whole, for any number of modules, packets, slots   *)
(* and any queue sizes: what is proved of the receivers and of the module  *)
(* synchronizer on their own holds of them in the pipeline, what is        *)
(* published was handed on by every receiver, and message and bytes of an  *)
(* image meet again after the two ring buffers.                            *)
(***************************************************************************)
EXTENDS Acquisition, UdpReceiverProofs

LEMMA SmallRemainder ==
  ASSUME NEW n \in Nat \ {0}, NEW k \in 0 .. n - 1
  PROVE  k % n = k
OBVIOUS

LEMMA ModulesAreCounted == Cardinality(Modules) \in Nat \ {0}
<1>1. Cardinality(Modules) \in Nat
  BY AcquisitionAssumption, FS_CardinalityType, Zenon
<1>2. Cardinality(Modules) # 0
  BY AcquisitionAssumption, FS_EmptySet, Zenon
<1> QED BY <1>1, <1>2, Zenon

-----------------------------------------------------------------------------
(* The receivers in the pipeline.                                          *)

\* To the receivers, a converter is what takes their messages.
THEOREM ReceiversInPipeline == Spec => ReceiversSpec
<1>1. Init => InitReceivers
  BY Zenon DEF Init
<1>2. [Next]_vars => [ReceiversNext]_receiver_vars
  <2>1. ASSUME NEW m \in Modules, Receiver(m) PROVE ReceiversNext
    BY <2>1, SMTT(30) DEF ReceiversNext
  <2>2. ASSUME NEW m \in Modules, eg_converter(m) \/ jf_converter(m) \/ gf_converter(m)
        PROVE  ReceiversNext
    BY <2>2, Zenon DEF eg_converter, jf_converter, gf_converter, convert, ReceiversNext
  <2>3. ASSUME NEW m \in Modules, synchronize(m) PROVE UNCHANGED receiver_vars
    BY <2>3, Zenon DEF synchronize
  <2>4. ASSUME publish PROVE UNCHANGED receiver_vars
    BY <2>4, Zenon DEF publish
  <2>5. ASSUME UNCHANGED vars PROVE UNCHANGED receiver_vars
    BY <2>5, Zenon DEF vars
  <2> QED BY <2>1, <2>2, <2>3, <2>4, <2>5, ZenonT(40) DEF Next
<1> QED BY <1>1, <1>2, PTL DEF Spec, ReceiversSpec

-----------------------------------------------------------------------------
(* From the receivers to the synchronizer.                                 *)

Messages == [image_id : Nat, n_missing : 0 .. Width - 1]

SentIds(m) == {sent[m][i].image_id : i \in DOMAIN sent[m]}

Ids(q) == {q[i].image_id : i \in DOMAIN q}

\* Whatever travels after the receiver of m was handed on by it.
Traced(m) ==
  /\ meta[m].frame # INVALID => meta[m].image_id \in ImageIds
  /\ SentIds(m) \subseteq ImageIds
  /\ Ids(outbox[m]) \subseteq SentIds(m)
  /\ Ids(to_sync[m]) \subseteq SentIds(m)
  /\ delivered[m] \subseteq SentIds(m)

AInv ==
  /\ ReceiversTypeOK
  /\ to_sync \in [Modules -> Seq(Messages)]
  /\ delivered \in [Modules -> SUBSET ImageIds]
  /\ \A m \in Modules : Traced(m)

LEMMA QueueTypes ==
  ASSUME AInv, NEW m \in Modules
  PROVE  /\ outbox[m] \in Seq(Messages) /\ to_sync[m] \in Seq(Messages)
         /\ sent[m] \in Seq(SentType) /\ meta[m] \in MetaType
         /\ frame_buffer[m] \in Buffers
BY Zenon DEF AInv, ReceiversTypeOK, Messages, SentType, MetaType

\* Ids of a queue that grows or shrinks.
LEMMA AppendIds ==
  ASSUME NEW T, NEW q \in Seq(T), NEW e \in T
  PROVE  Ids(Append(q, e)) = Ids(q) \cup {e.image_id}
<1>1. Len(q) \in Nat /\ DOMAIN q = 1 .. Len(q)
  BY LenProperties, Zenon
<1>2. PICK t : t = Append(q, e)
  BY ZenonT(30)
<1>3. /\ t \in Seq(T) /\ Len(t) = Len(q) + 1
      /\ \A i \in 1 .. Len(q) : t[i] = q[i]
      /\ t[Len(q) + 1] = e
  BY <1>2, AppendProperties, SMTT(40)
<1>4. DOMAIN t = 1 .. Len(q) + 1
  BY <1>3, LenProperties, Zenon
<1>5. 1 .. Len(q) + 1 = (1 .. Len(q)) \cup {Len(q) + 1}
  BY <1>1
<1>6. Ids(t) = Ids(q) \cup {e.image_id}
  BY <1>1, <1>3, <1>4, <1>5, SMTT(40) DEF Ids
<1> QED BY <1>2, <1>6, Zenon

LEMMA TailIds ==
  ASSUME NEW T, NEW q \in Seq(T), q # << >>
  PROVE  /\ Head(q) \in T /\ Head(q).image_id \in Ids(q)
         /\ Tail(q) \in Seq(T) /\ Ids(Tail(q)) \subseteq Ids(q)
<1>1. /\ Len(q) \in Nat \ {0} /\ DOMAIN q = 1 .. Len(q)
  BY LenProperties, EmptySeq, ZenonT(40)
<1>2. PICK t : t = Tail(q)
  BY Zenon
<1>3. /\ Head(q) \in T /\ Head(q) = q[1]
      /\ t \in Seq(T) /\ Len(t) = Len(q) - 1
      /\ \A i \in 1 .. Len(t) : t[i] = q[i + 1]
  BY <1>2, HeadTailProperties, SMTT(40)
<1>4. DOMAIN t = 1 .. Len(q) - 1
  BY <1>3, LenProperties, Zenon
<1>5. \A i \in DOMAIN t : i + 1 \in DOMAIN q /\ t[i] = q[i + 1]
  BY <1>1, <1>3, <1>4, SMTT(40)
<1>6. Ids(t) \subseteq Ids(q)
  BY <1>5, Zenon DEF Ids
<1>7. Head(q).image_id \in Ids(q)
  BY <1>1, <1>3, SMTT(40) DEF Ids
<1> QED BY <1>2, <1>3, <1>6, <1>7, ZenonT(40)

\* Handing a frame on: its id is recorded, and queued for the converter
\* unless the queue is full.
LEMMA SendTraces ==
  ASSUME AInv, NEW m \in Modules, NEW mt \in MetaType, mt.frame \in Frames,
         mt.image_id \in ImageIds, NEW buffer \in Buffers, send(m, mt, buffer)
  PROVE  /\ SentIds(m)' = SentIds(m) \cup {mt.image_id}
         /\ Ids(outbox'[m]) \subseteq Ids(outbox[m]) \cup {mt.image_id}
         /\ \A k \in Modules : k # m => outbox'[k] = outbox[k] /\ sent'[k] = sent[k]
<1>1. /\ sent' = [sent EXCEPT ![m] = Append(sent[m], Handed(mt, buffer))]
      /\ Handed(mt, buffer) \in SentType
  BY SendEffect, ZenonT(40) DEF AInv
<1>2. /\ outbox[m] \in Seq(Messages) /\ sent[m] \in Seq(SentType)
      /\ DOMAIN outbox = Modules /\ DOMAIN sent = Modules
  BY QueueTypes, ZenonT(40) DEF AInv, ReceiversTypeOK
<1>3. sent'[m] = Append(sent[m], Handed(mt, buffer))
  BY <1>1, <1>2, ZenonT(40)
<1>4. SentIds(m)' = SentIds(m) \cup {mt.image_id}
  <2>1. Handed(mt, buffer).image_id = mt.image_id
    BY Zenon DEF Handed
  <2>2. SentIds(m)' = Ids(sent'[m]) /\ SentIds(m) = Ids(sent[m])
    BY Zenon DEF SentIds, Ids
  <2> QED BY <1>1, <1>2, <1>3, <2>1, <2>2, AppendIds, SMTT(40)
<1>5. PICK message :
        /\ message = [image_id |-> mt.image_id, n_missing |-> mt.n_missing]
        /\ \/ outbox' = outbox
           \/ outbox' = [outbox EXCEPT ![m] = Append(outbox[m], message)]
  <2>1. \/ outbox' = outbox
        \/ outbox' = [outbox EXCEPT ![m] = Append(outbox[m],
             [image_id |-> mt.image_id, n_missing |-> mt.n_missing])]
    BY <1>2, Zenon DEF send
  <2> QED BY <2>1, Zenon
<1>6. message \in Messages /\ message.image_id = mt.image_id
  BY <1>5, Zenon DEF Messages, MetaType
<1>7. Ids(outbox'[m]) \subseteq Ids(outbox[m]) \cup {mt.image_id}
  <2>1. Ids(Append(outbox[m], message)) = Ids(outbox[m]) \cup {mt.image_id}
    BY <1>2, <1>6, AppendIds, SMTT(40)
  <2>2. outbox'[m] = outbox[m] \/ outbox'[m] = Append(outbox[m], message)
    BY <1>2, <1>5, Zenon
  <2> QED BY <2>1, <2>2, Zenon
<1>8. ASSUME NEW k \in Modules, k # m PROVE outbox'[k] = outbox[k] /\ sent'[k] = sent[k]
  BY <1>1, <1>2, <1>5, <1>8, SMTT(30)
<1> QED BY <1>4, <1>7, <1>8, ZenonT(40)

\* What a step of the receiver of m does to what is traced.
LEMMA TracedByOthers ==
  ASSUME AInv, NEW k \in Modules,
         meta'[k] = meta[k], sent'[k] = sent[k], outbox'[k] = outbox[k],
         to_sync'[k] = to_sync[k], delivered'[k] = delivered[k]
  PROVE  Traced(k)'
BY ZenonT(30) DEF AInv, Traced, SentIds, Ids

LEMMA HandingOnTraces ==
  ASSUME AInv, NEW m \in Modules, NEW mt \in MetaType, mt.frame \in Frames,
         mt.image_id \in ImageIds, NEW buffer \in Buffers, send(m, mt, buffer),
         meta'[m].frame = INVALID, to_sync'[m] = to_sync[m], delivered'[m] = delivered[m]
  PROVE  Traced(m)'
<1>1. /\ SentIds(m)' = SentIds(m) \cup {mt.image_id}
      /\ Ids(outbox'[m]) \subseteq Ids(outbox[m]) \cup {mt.image_id}
  BY SendTraces, Zenon
<1>2. Traced(m)
  BY Zenon DEF AInv
<1>3. /\ Ids(outbox[m])' = Ids(outbox'[m]) /\ Ids(to_sync[m])' = Ids(to_sync[m])
  BY Zenon DEF Ids
<1> QED BY <1>1, <1>2, <1>3, Zenon DEF Traced

\* Image ids of frames.
LEMMA StoredIdIsKnown ==
  ASSUME AInv, NEW m \in Modules,
         eg_process_packet(m) \/ jf_process_packet(m) \/ gf_process_packet(m)
  PROVE  \E mt \in MetaType, looks \in BOOLEAN :
           /\ packet[m] \in Packets
           /\ mt.frame = packet[m].frame
           /\ mt.image_id \in ImageIds
           /\ Store(m, mt, looks)
<1>1. packet[m] \in Packets /\ packet[m].frame \in Frames /\ packet[m].frame \in Nat
  BY UdpAssumption, Zenon DEF AInv, ReceiversTypeOK, Packets, IsOfFrame, BeginsFrame,
     eg_process_packet, jf_process_packet, gf_process_packet
<1>2. meta[m] \in MetaType /\ Traced(m)
  BY QueueTypes, Zenon DEF AInv
<1>3. CASE IsOfFrame(m) /\ Store(m, meta[m], TRUE)
  <2>1. meta[m].frame = packet[m].frame /\ meta[m].frame # INVALID
    BY <1>1, <1>3, InvalidIsNoFrame, ZenonT(40) DEF IsOfFrame
  <2>2. meta[m].image_id \in ImageIds
    BY <1>2, <2>1, ZenonT(40) DEF Traced
  <2> QED BY <1>1, <1>2, <1>3, <2>1, <2>2, ZenonT(40)
<1>4. ASSUME NEW id \in ImageIds, NEW looks \in BOOLEAN,
             Store(m, NewFrame(packet[m].frame, id), looks)
      PROVE  \E mt \in MetaType : /\ mt.frame = packet[m].frame
                                  /\ mt.image_id \in ImageIds
                                  /\ Store(m, mt, looks)
  <2>1. id \in Nat
    BY UdpAssumption, ZenonT(30) DEF ImageIds
  <2>2. NewFrame(packet[m].frame, id).image_id = id
    BY Zenon DEF NewFrame
  <2> QED BY <1>1, <1>4, <2>1, <2>2, NewFrameFields, ZenonT(40)
<1>5. packet[m].frame \in ImageIds /\ bunchid(packet[m].frame) \in ImageIds
  BY <1>1, Zenon DEF ImageIds
<1>6. CASE eg_process_packet(m)
  BY <1>1, <1>3, <1>4, <1>5, <1>6, ZenonT(40) DEF eg_process_packet, eg_init_frame_metadata
<1>7. CASE jf_process_packet(m)
  BY <1>1, <1>3, <1>4, <1>5, <1>7, ZenonT(40) DEF jf_process_packet, jf_init_frame_metadata
<1>8. CASE gf_process_packet(m)
  BY <1>1, <1>3, <1>4, <1>5, <1>8, ZenonT(40) DEF gf_process_packet, gf_init_frame_metadata
<1> QED BY <1>6, <1>7, <1>8, SMTT(30)

LEMMA ReceiverTraces ==
  ASSUME AInv, NEW m \in Modules, Receiver(m), UNCHANGED <<to_sync, delivered>>
  PROVE  \A k \in Modules : Traced(k)'
<1>1. CASE \E p \in Packets : receive_many(m, p)
  <2>1. UNCHANGED <<meta, sent, outbox>>
    BY <1>1, SMTT(30) DEF receive_many
  <2> QED BY <2>1, TracedByOthers, SMTT(30)
<1>2. CASE flush_unfinished_frame(m)
  <2>1. /\ send(m, meta[m], frame_buffer[m])
        /\ meta' = [meta EXCEPT ![m] = Invalidated(meta[m])]
    BY <1>2, SMTT(30) DEF flush_unfinished_frame
  <2>2. meta[m].frame \in Frames /\ meta[m] \in MetaType /\ frame_buffer[m] \in Buffers
    BY <1>2, FlushEffect, QueueTypes, SMTT(30) DEF AInv
  <2>3. meta[m].image_id \in ImageIds
    BY <2>2, InvalidIsNoFrame, SMTT(30) DEF AInv, Traced
  <2>4. /\ meta'[m] = Invalidated(meta[m])
        /\ \A k \in Modules : k # m => meta'[k] = meta[k]
    BY <2>1, ZenonT(40) DEF AInv, ReceiversTypeOK
  <2>5. meta'[m].frame = INVALID
    BY <2>2, <2>4, InvalidatedFields, SMTT(30)
  <2>6. Traced(m)'
    BY <2>1, <2>2, <2>3, <2>5, HandingOnTraces, SMTT(30)
  <2>7. \A k \in Modules : k # m => outbox'[k] = outbox[k] /\ sent'[k] = sent[k]
    BY <2>1, <2>2, <2>3, SendTraces, SMTT(30)
  <2> QED BY <2>4, <2>6, <2>7, TracedByOthers, SMTT(30)
<1>3. CASE eg_process_packet(m) \/ jf_process_packet(m) \/ gf_process_packet(m)
  <2>1. PICK mt \in MetaType, looks \in BOOLEAN :
          /\ packet[m] \in Packets
          /\ mt.frame = packet[m].frame
          /\ mt.image_id \in ImageIds
          /\ Store(m, mt, looks)
    BY <1>3, StoredIdIsKnown, ZenonT(40)
  <2>2. PICK counted, buffer :
          /\ counted = Counted(mt, packet[m].place)
          /\ buffer = [frame_buffer[m] EXCEPT ![packet[m].place] = packet[m].frame]
    BY Zenon
  <2>3. packet[m].place \in Places /\ packet[m].frame \in Frames
    BY <2>1, ZenonT(40) DEF Packets
  <2>4. /\ counted \in MetaType /\ counted.frame \in Frames
        /\ counted.image_id \in ImageIds /\ buffer \in Buffers
    <3>1. counted \in MetaType /\ counted.frame = mt.frame /\ counted.image_id = mt.image_id
      BY <2>2, <2>3, CountedFields, ZenonT(40)
    <3>2. buffer \in Buffers
      BY <2>2, <2>3, QueueTypes, SMTT(30) DEF Buffers, FrameNumbers
    <3> QED BY <2>1, <2>3, <3>1, <3>2, SMTT(30)
  <2>5. \/ /\ send(m, counted, buffer)
           /\ meta' = [meta EXCEPT ![m] = Invalidated(counted)]
        \/ /\ meta' = [meta EXCEPT ![m] = counted]
           /\ UNCHANGED <<outbox, sent>>
    BY <2>1, <2>2, SMTT(30) DEF Store
  <2>6. CASE send(m, counted, buffer) /\ meta' = [meta EXCEPT ![m] = Invalidated(counted)]
    <3>1. /\ meta'[m] = Invalidated(counted)
          /\ \A k \in Modules : k # m => meta'[k] = meta[k]
      BY <2>6, SMTT(30) DEF AInv, ReceiversTypeOK
    <3>2. meta'[m].frame = INVALID
      BY <2>4, <3>1, InvalidatedFields, SMTT(30)
    <3>3. Traced(m)'
      BY <2>4, <2>6, <3>2, HandingOnTraces, SMTT(30)
    <3>4. \A k \in Modules : k # m => outbox'[k] = outbox[k] /\ sent'[k] = sent[k]
      BY <2>4, <2>6, SendTraces, SMTT(30)
    <3> QED BY <3>1, <3>3, <3>4, TracedByOthers, SMTT(30)
  <2>7. CASE meta' = [meta EXCEPT ![m] = counted] /\ UNCHANGED <<outbox, sent>>
    <3>1. /\ meta'[m] = counted
          /\ \A k \in Modules : k # m => meta'[k] = meta[k]
      BY <2>7, SMTT(30) DEF AInv, ReceiversTypeOK
    <3>2. Traced(m)'
      <4>1. Traced(m)
        BY Zenon DEF AInv
      <4>2. /\ SentIds(m)' = SentIds(m)
            /\ Ids(outbox[m])' = Ids(outbox[m]) /\ Ids(to_sync[m])' = Ids(to_sync[m])
        BY <2>7, SMTT(30) DEF SentIds, Ids
      <4> QED BY <2>4, <3>1, <4>1, <4>2, SMTT(30) DEF Traced
    <3> QED BY <2>7, <3>1, <3>2, TracedByOthers, SMTT(30)
  <2> QED BY <2>5, <2>6, <2>7, SMTT(30)
<1> QED BY <1>1, <1>2, <1>3, SMTT(30) DEF Receiver

LEMMA ConverterTraces ==
  ASSUME AInv, NEW m \in Modules, convert(m)
  PROVE  /\ to_sync' \in [Modules -> Seq(Messages)]
         /\ delivered' = delivered
         /\ \A k \in Modules : Traced(k)'
<1>1. /\ outbox[m] # << >> /\ outbox' = [outbox EXCEPT ![m] = Tail(outbox[m])]
      /\ to_sync' = [to_sync EXCEPT ![m] = Append(to_sync[m], Head(outbox[m]))]
      /\ UNCHANGED <<meta, sent, delivered>>
  BY Zenon DEF convert, take_message, sync_vars
<1>2. outbox[m] \in Seq(Messages) /\ to_sync[m] \in Seq(Messages)
  BY QueueTypes, SMTT(30)
<1>3. /\ Head(outbox[m]) \in Messages /\ Head(outbox[m]).image_id \in Ids(outbox[m])
      /\ Ids(Tail(outbox[m])) \subseteq Ids(outbox[m])
  BY <1>1, <1>2, TailIds, SMTT(30)
<1>4. /\ Append(to_sync[m], Head(outbox[m])) \in Seq(Messages)
      /\ Ids(Append(to_sync[m], Head(outbox[m])))
           = Ids(to_sync[m]) \cup {Head(outbox[m]).image_id}
  BY <1>2, <1>3, AppendIds, AppendProperties, SMTT(30)
<1>5. /\ outbox'[m] = Tail(outbox[m]) /\ to_sync'[m] = Append(to_sync[m], Head(outbox[m]))
      /\ \A k \in Modules : k # m => outbox'[k] = outbox[k] /\ to_sync'[k] = to_sync[k]
  BY <1>1, ZenonT(40) DEF AInv, ReceiversTypeOK
<1>6. to_sync' \in [Modules -> Seq(Messages)]
  BY <1>1, <1>4, SMTT(30) DEF AInv
<1>7. Traced(m)'
  <2>1. Traced(m)
    BY Zenon DEF AInv
  <2>2. /\ SentIds(m)' = SentIds(m)
        /\ Ids(outbox[m])' = Ids(outbox'[m]) /\ Ids(to_sync[m])' = Ids(to_sync'[m])
    BY <1>1, SMTT(30) DEF SentIds, Ids
  <2> QED BY <1>1, <1>3, <1>4, <1>5, <2>1, <2>2, SMTT(30) DEF Traced
<1> QED BY <1>1, <1>5, <1>6, <1>7, TracedByOthers, SMTT(30)

LEMMA SynchronizerTraces ==
  ASSUME AInv, NEW m \in Modules, synchronize(m)
  PROVE  /\ to_sync' \in [Modules -> Seq(Messages)]
         /\ delivered' \in [Modules -> SUBSET ImageIds]
         /\ Head(to_sync[m]).image_id \in ImageIds
         /\ \A k \in Modules : Traced(k)'
<1>1. /\ to_sync[m] # << >> /\ to_sync' = [to_sync EXCEPT ![m] = Tail(to_sync[m])]
      /\ UNCHANGED <<meta, sent, outbox>>
  BY Zenon DEF synchronize, receiver_vars
<1>2. delivered' = [delivered EXCEPT ![m] = delivered[m] \cup {Head(to_sync[m]).image_id}]
  BY Zenon DEF synchronize, Sync!process_received_modules, Sync!Arrive
<1>3. /\ Head(to_sync[m]).image_id \in Ids(to_sync[m])
      /\ Tail(to_sync[m]) \in Seq(Messages) /\ Ids(Tail(to_sync[m])) \subseteq Ids(to_sync[m])
  BY <1>1, QueueTypes, TailIds, SMTT(30)
<1>4. Traced(m)
  BY SMTT(40) DEF AInv
<1>5. Head(to_sync[m]).image_id \in SentIds(m) /\ Head(to_sync[m]).image_id \in ImageIds
  BY <1>3, <1>4, SMTT(30) DEF Traced
<1>6. /\ to_sync'[m] = Tail(to_sync[m])
      /\ delivered'[m] = delivered[m] \cup {Head(to_sync[m]).image_id}
      /\ \A k \in Modules : k # m => to_sync'[k] = to_sync[k] /\ delivered'[k] = delivered[k]
  BY <1>1, <1>2, SMTT(30) DEF AInv
<1>7. to_sync' \in [Modules -> Seq(Messages)] /\ delivered' \in [Modules -> SUBSET ImageIds]
  BY <1>1, <1>2, <1>3, <1>5, SMTT(30) DEF AInv
<1>8. Traced(m)'
  <2>1. /\ SentIds(m)' = SentIds(m)
        /\ Ids(outbox[m])' = Ids(outbox[m]) /\ Ids(to_sync[m])' = Ids(to_sync'[m])
    BY <1>1, Zenon DEF SentIds, Ids
  <2> QED BY <1>1, <1>3, <1>4, <1>5, <1>6, <2>1, SMTT(30) DEF Traced
<1> QED BY <1>1, <1>5, <1>6, <1>7, <1>8, TracedByOthers, SMTT(30)

LEMMA AInvInit == Init => AInv
<1> SUFFICES ASSUME Init PROVE AInv
  OBVIOUS
<1>1. ReceiversTypeOK
  BY InitKeeps, Zenon DEF Init, RInv
<1>2. to_sync \in [Modules -> Seq(Messages)]
  BY EmptySeq, Zenon DEF Init
<1>3. delivered = [m \in Modules |-> {}]
  BY ZenonT(40) DEF Init, Sync!Init
<1>4. ASSUME NEW m \in Modules PROVE Traced(m)
  <2>1. /\ meta[m].frame = INVALID /\ sent[m] = << >> /\ outbox[m] = << >>
        /\ to_sync[m] = << >> /\ delivered[m] = {}
    BY <1>3, ZenonT(40) DEF Init, InitReceivers
  <2> QED BY <2>1 DEF Traced, SentIds, Ids
<1> QED BY <1>1, <1>2, <1>3, <1>4, SMTT(30) DEF AInv

\* Here the invariant of the receivers provides the types.
LEMMA AInvNext == AInv /\ ReceiversTypeOK' /\ [Next]_vars => AInv'
<1> SUFFICES ASSUME AInv, ReceiversTypeOK', [Next]_vars PROVE AInv'
  OBVIOUS
<1>1. CASE \E m \in Modules : Receiver(m) /\ UNCHANGED <<image, to_sync, sync_vars>>
  <2>1. UNCHANGED <<to_sync, delivered>>
    BY <1>1, Zenon DEF sync_vars
  <2> QED BY <1>1, <2>1, ReceiverTraces, SMTT(30) DEF AInv
<1>2. CASE \E m \in Modules : eg_converter(m) \/ jf_converter(m) \/ gf_converter(m)
  <2>1. PICK m \in Modules : convert(m)
    BY <1>2, ZenonT(40) DEF eg_converter, jf_converter, gf_converter
  <2> QED BY <2>1, ConverterTraces, SMTT(30) DEF AInv
<1>3. CASE \E m \in Modules : synchronize(m)
  BY <1>3, SynchronizerTraces, SMTT(30) DEF AInv
<1>4. CASE publish
  <2>1. UNCHANGED <<meta, sent, outbox, to_sync, delivered>>
    BY <1>4, SMTT(30) DEF publish, receiver_vars, Sync!send_synchronized_images, Sync!input
  <2> QED BY <2>1, TracedByOthers, SMTT(40) DEF AInv
<1>5. CASE UNCHANGED vars
  <2>1. UNCHANGED <<meta, sent, outbox, to_sync, delivered>>
    BY <1>5, Zenon DEF vars, receiver_vars, sync_vars
  <2> QED BY <2>1, TracedByOthers DEF AInv
<1> QED BY <1>1, <1>2, <1>3, <1>4, <1>5, SMTT(30) DEF Next

LEMMA TraceInvariance == Spec => []AInv
<1>1. Spec => []ReceiversTypeOK
  BY ReceiversInPipeline, ReceiversTypeCorrect, PTL
<1> QED BY <1>1, AInvInit, AInvNext, PTL DEF Spec

-----------------------------------------------------------------------------
(* The synchronizer in the pipeline.                                       *)

\* The receivers and the converters give the synchronizer what its theorems
\* are proved for: frames of its modules with known image ids.
THEOREM SynchronizerInPipeline == Spec => Sync!Spec
<1>1. Init => Sync!Init
  BY Zenon DEF Init
<1>2. AInv /\ [Next]_vars => [Sync!Next]_(Sync!vars)
  <2> SUFFICES ASSUME AInv, [Next]_vars PROVE Sync!Next \/ UNCHANGED Sync!vars
    OBVIOUS
  <2>1. ASSUME UNCHANGED sync_vars PROVE UNCHANGED Sync!vars
    BY <2>1, ZenonT(40) DEF sync_vars, Sync!vars, Sync!stats, Sync!input, Sync!output
  <2>2. CASE \E m \in Modules : Receiver(m) /\ UNCHANGED <<image, to_sync, sync_vars>>
    BY <2>1, <2>2, ZenonT(40)
  <2>3. CASE \E m \in Modules : eg_converter(m) \/ jf_converter(m) \/ gf_converter(m)
    BY <2>1, <2>3, ZenonT(40) DEF eg_converter, jf_converter, gf_converter, convert
  <2>4. CASE \E m \in Modules : synchronize(m)
    <3>1. PICK m \in Modules : synchronize(m)
      BY <2>4, Zenon
    <3>2. PICK id, loss :
            /\ id = Head(to_sync[m]).image_id /\ loss = (Head(to_sync[m]).n_missing # 0)
            /\ Sync!process_received_modules(m, id, loss)
      BY <3>1, ZenonT(40) DEF synchronize
    <3>3. id \in ImageIds /\ loss \in BOOLEAN
      BY <3>1, <3>2, SynchronizerTraces, SMTT(40)
    <3> QED BY <3>2, <3>3, ZenonT(40) DEF Sync!Next, Sync!ReceiveFrom
  <2>5. CASE publish
    BY <2>5, Zenon DEF publish, Sync!Next, Sync!Send
  <2>6. CASE UNCHANGED vars
    BY <2>1, <2>6, ZenonT(40) DEF vars
  <2> QED BY <2>2, <2>3, <2>4, <2>5, <2>6, SMTT(40) DEF Next
<1> QED BY <1>1, <1>2, TraceInvariance, PTL DEF Spec, Sync!Spec

CachedEntries == [mask : SUBSET Sync!new_image_mask, flawed : BOOLEAN]

\* A bit that is clear in a cached mask belongs to a frame that has arrived.
Cleared ==
  \A id \in DOMAIN cache : \A b \in Sync!new_image_mask \ cache[id].mask :
    \E m \in Modules : Sync!Bit(m) = b /\ id \in delivered[m]

SInv ==
  /\ \A id \in DOMAIN cache : cache[id] \in CachedEntries
  /\ published \in Seq(ImageIds)
  /\ delivered \in [Modules -> SUBSET ImageIds]
  /\ Cleared
  /\ Sync!PublishedComplete

\* Receiving a frame touches the entry of its image only.
LEMMA FrameInCache ==
  ASSUME SInv, NEW m \in Modules, NEW id \in ImageIds, NEW loss \in BOOLEAN,
         Sync!process_received_modules(m, id, loss), NEW i \in DOMAIN cache'
  PROVE  /\ cache'[i] \in CachedEntries
         /\ \/ i \in DOMAIN cache /\ cache'[i] = cache[i]
            \/ i = id /\ cache'[i].mask = Sync!new_image_mask \ {Sync!Bit(m)}
            \/ /\ i = id /\ id \in DOMAIN cache
               /\ cache'[i].mask = cache[id].mask \ {Sync!Bit(m)}
<1>1. CASE Sync!push_new_image_to_queue(m, id, loss)
  <2>1. PICK gone, entry :
          /\ entry = [mask |-> Sync!new_image_mask \ {Sync!Bit(m)}, flawed |-> loss]
          /\ cache' = Sync!Store(Sync!Erase(cache, gone), id, entry)
    BY <1>1, ZenonT(40) DEF Sync!push_new_image_to_queue
  <2>2. (i = id /\ cache'[i] = entry) \/ (i \in DOMAIN cache /\ cache'[i] = cache[i])
    BY <2>1, Zenon DEF Sync!Store, Sync!Erase
  <2>3. entry \in CachedEntries /\ entry.mask = Sync!new_image_mask \ {Sync!Bit(m)}
    BY <2>1, ZenonT(40) DEF CachedEntries
  <2> QED BY <2>2, <2>3, ZenonT(40) DEF SInv
<1>2. CASE ~Sync!is_new_image(id) /\ Sync!update_module_mask_for_image(m, id)
  <2>1. id \in DOMAIN cache /\ cache[id] \in CachedEntries
    BY <1>2, ZenonT(40) DEF Sync!is_new_image, SInv
  <2>2. CASE cache' = [cache EXCEPT ![id].mask = @ \ {Sync!Bit(m)}]
    <3>1. i \in DOMAIN cache
      BY <2>2, Zenon
    <3>2. CASE i = id
      BY <2>1, <2>2, <3>2, SMTT(40) DEF CachedEntries
    <3>3. CASE i # id
      BY <2>2, <3>1, <3>3, SMTT(40) DEF SInv
    <3> QED BY <3>2, <3>3, ZenonT(40)
  <2>3. CASE cache' = Sync!Erase(cache, {id})
    BY <2>3, ZenonT(40) DEF Sync!Erase, SInv
  <2> QED BY <1>2, <2>2, <2>3, ZenonT(40) DEF Sync!update_module_mask_for_image
<1> QED BY <1>1, <1>2, ZenonT(40) DEF Sync!process_received_modules, Sync!process_image_metadata

LEMMA ReceiveCompletes ==
  ASSUME SInv, NEW m \in Modules, NEW id \in ImageIds, NEW loss \in BOOLEAN,
         Sync!process_received_modules(m, id, loss)
  PROVE  SInv'
<1>1. /\ delivered' = [delivered EXCEPT ![m] = delivered[m] \cup {id}]
      /\ published' = published
  BY Zenon DEF Sync!process_received_modules, Sync!Arrive, Sync!output
<1>2. /\ delivered' \in [Modules -> SUBSET ImageIds]
      /\ id \in delivered'[m] /\ \A k \in Modules : delivered[k] \subseteq delivered'[k]
  BY <1>1, Zenon DEF SInv
<1>3. Sync!new_image_mask' = Sync!new_image_mask /\ \A k : Sync!Bit(k)' = Sync!Bit(k)
  BY Zenon DEF Sync!new_image_mask, Sync!set_all, Sync!Bit
<1>4. \A i \in DOMAIN cache' : cache'[i] \in CachedEntries'
  BY <1>3, FrameInCache, ZenonT(40) DEF CachedEntries
<1>5. Cleared'
  <2> SUFFICES ASSUME NEW i \in DOMAIN cache', NEW b \in Sync!new_image_mask \ cache'[i].mask
               PROVE  \E k \in Modules : Sync!Bit(k) = b /\ i \in delivered'[k]
    BY <1>3, ZenonT(40) DEF Cleared, Sync!new_image_mask, Sync!set_all, Sync!Bit
  <2>1. \/ i \in DOMAIN cache /\ b \notin cache[i].mask
        \/ i = id /\ b = Sync!Bit(m)
    BY FrameInCache, SMTT(40)
  <2>2. CASE i \in DOMAIN cache /\ b \notin cache[i].mask
    BY <1>2, <2>2, ZenonT(40) DEF SInv, Cleared
  <2>3. CASE i = id /\ b = Sync!Bit(m)
    BY <1>2, <2>3, ZenonT(40)
  <2> QED BY <2>1, <2>2, <2>3, SMTT(40)
<1>6. Sync!PublishedComplete'
  BY <1>1, <1>2, ZenonT(40) DEF SInv, Sync!PublishedComplete, Sync!new_image_mask, Sync!set_all, Sync!Bit
<1> QED BY <1>1, <1>2, <1>4, <1>5, <1>6, SMTT(40) DEF SInv

LEMMA SendCompletes ==
  ASSUME SInv, NEW id \in ImageIds, Sync!send_synchronized_images(id)
  PROVE  SInv'
<1>1. /\ id \in DOMAIN cache /\ cache[id].mask = {}
      /\ \A i \in DOMAIN cache' : i \in DOMAIN cache /\ cache'[i] = cache[i]
      /\ published' = Append(published, id)
      /\ delivered' = delivered
  BY Zenon DEF Sync!send_synchronized_images, Sync!pop_next_full_image, Sync!IsBegin, Sync!Erase,
     Sync!input
<1>2. \A b \in Sync!new_image_mask : \E m \in Modules : Sync!Bit(m) = b /\ id \in delivered[m]
  BY <1>1, ZenonT(40) DEF SInv, Cleared
<1>3. published' \in Seq(ImageIds)
  BY <1>1, AppendProperties, ZenonT(40) DEF SInv
<1>4. ASSUME NEW i \in DOMAIN published'
      PROVE  (i \in DOMAIN published /\ published'[i] = published[i]) \/ published'[i] = id
  BY <1>1, <1>4, SMTT(40) DEF SInv
<1>5. Sync!PublishedComplete'
  BY <1>1, <1>2, <1>4, SMTT(40) DEF SInv, Sync!PublishedComplete, Sync!new_image_mask, Sync!set_all, Sync!Bit
<1>6. Cleared'
  BY <1>1, ZenonT(40) DEF SInv, Cleared, Sync!new_image_mask, Sync!set_all, Sync!Bit
<1>7. \A i \in DOMAIN cache' : cache'[i] \in CachedEntries'
  BY <1>1, ZenonT(40) DEF SInv, CachedEntries, Sync!new_image_mask, Sync!set_all
<1> QED BY <1>1, <1>3, <1>5, <1>6, <1>7, ZenonT(40) DEF SInv

LEMMA SInvInit == Sync!Init => SInv
<1> SUFFICES ASSUME Sync!Init PROVE SInv
  OBVIOUS
<1>1. DOMAIN cache = {} /\ DOMAIN published = {} /\ published \in Seq(ImageIds)
  BY EmptySeq, SMTT(40) DEF Sync!Init
<1> QED BY <1>1, ZenonT(40) DEF Sync!Init, SInv, Cleared, Sync!PublishedComplete

LEMMA SInvNext == SInv /\ [Sync!Next]_(Sync!vars) => SInv'
<1>1. ASSUME SInv, Sync!Next PROVE SInv'
  BY <1>1, ReceiveCompletes, SendCompletes, SMTT(40) DEF Sync!Next, Sync!ReceiveFrom, Sync!Send
<1>2. ASSUME SInv, UNCHANGED Sync!vars PROVE SInv'
  <2>1. UNCHANGED <<cache, delivered, published>>
    BY <1>2, Zenon DEF Sync!vars, Sync!input, Sync!output
  <2> QED BY <1>2, <2>1, SMTT(40) DEF SInv, Cleared, CachedEntries, Sync!PublishedComplete,
             Sync!new_image_mask, Sync!set_all, Sync!Bit
<1> QED BY <1>1, <1>2, SMTT(40)

-----------------------------------------------------------------------------

LEMMA SyncInvariance == Spec => []SInv
<1>1. Sync!Spec => []SInv
  BY SInvInit, SInvNext, PTL DEF Sync!Spec
<1> QED BY <1>1, SynchronizerInPipeline, PTL

\* What is published was delivered by the converter of every module.
Delivered == \A i \in DOMAIN published : \A m \in Modules : published[i] \in delivered[m]

LEMMA PublishedIsDelivered == SInv => Delivered
<1> SUFFICES ASSUME SInv, NEW i \in DOMAIN published, NEW m \in Modules
             PROVE  published[i] \in delivered[m]
  BY Zenon DEF Delivered
<1>1. PICK n \in Nat \ {0} : n = Cardinality(Modules) /\ Modules = 0 .. n - 1
  BY ModulesAreCounted, AcquisitionAssumption, ZenonT(40)
<1>2. m \in Sync!new_image_mask
  BY <1>1, Zenon DEF Sync!new_image_mask, Sync!set_all
<1>3. PICK k \in Modules : Sync!Bit(k) = m /\ published[i] \in delivered[k]
  BY <1>2, Zenon DEF SInv, Sync!PublishedComplete
<1>4. k % n = m
  BY <1>1, <1>3, ZenonT(40) DEF Sync!Bit
<1>5. k = m
  BY <1>1, <1>4, SmallRemainder, ZenonT(40)
<1> QED BY <1>3, <1>5, ZenonT(40)

\* Each image that leaves the synchronizer was handed on by the receiver of
\* every module, whatever is lost, late, repeated, dropped or evicted on the
\* way: nothing is assembled from frames that no receiver has seen.
THEOREM PublishedWasHandedOn == Spec => []PublishedComplete
<1>1. AInv /\ SInv => PublishedComplete
  <2> SUFFICES ASSUME AInv, SInv PROVE PublishedComplete
    OBVIOUS
  <2>1. ASSUME NEW i \in DOMAIN published, NEW m \in Modules
        PROVE  SentOf(m, published[i]) # {}
    <3>1. published[i] \in SentIds(m)
      BY PublishedIsDelivered, ZenonT(40) DEF AInv, Traced, Delivered
    <3> QED BY <3>1, ZenonT(40) DEF SentIds, SentOf
  <2> QED BY <2>1, Zenon DEF PublishedComplete, SInv
<1> QED BY <1>1, SyncInvariance, TraceInvariance, PTL

-----------------------------------------------------------------------------
(* The bytes of an image on their way through the two ring buffers.        *)

\* A frame with this image id and this content was handed on.
Recorded(q, id, buffer) == \E i \in DOMAIN q : q[i].image_id = id /\ q[i].data = buffer

\* The slot of an id holds a frame that was handed on under this id, unless
\* the slot was used for another id as well.
RingHolds(m) ==
  \A id \in SentIds(m) : NotLapped(id) => Recorded(sent[m], id, ring[m][id % n_slots])

ImageHolds(m) ==
  \A id \in Ids(to_sync[m]) \cup delivered[m] :
    NotLapped(id) => Recorded(sent[m], id, image[id % n_image_slots][m])

BytesInv ==
  /\ image \in [0 .. n_image_slots - 1 -> [Modules -> Buffers]]
  /\ \A m \in Modules : RingHolds(m) /\ ImageHolds(m)

LEMMA KnownIds == ImageIds \subseteq Nat
BY UdpAssumption, ZenonT(40) DEF ImageIds

LEMMA RingAfter ==
  ASSUME NEW m, \A id \in Ids(sent'[m]) :
                  NotLapped(id)' => Recorded(sent'[m], id, ring'[m][id % n_slots])
  PROVE  RingHolds(m)'
BY ZenonT(40) DEF RingHolds, SentIds, Ids, Recorded

LEMMA ImageAfter ==
  ASSUME NEW m, \A id \in Ids(to_sync'[m]) \cup delivered'[m] :
                  NotLapped(id)' => Recorded(sent'[m], id, image'[id % n_image_slots][m])
  PROVE  ImageHolds(m)'
BY ZenonT(40) DEF ImageHolds, Ids, Recorded

\* A slot that another handed-on frame shares is lapped.
LEMMA LappedBy ==
  ASSUME NEW m \in Modules, NEW id, NotLapped(id), NEW other \in Ids(sent[m]),
         \/ other % n_slots = id % n_slots
         \/ other % n_image_slots = id % n_image_slots
  PROVE  other = id
BY ZenonT(40) DEF NotLapped, Ids

LEMMA LappedByAfter ==
  ASSUME NEW m \in Modules, NEW id, NotLapped(id)', NEW other \in Ids(sent'[m]),
         \/ other % n_slots = id % n_slots
         \/ other % n_image_slots = id % n_image_slots
  PROVE  other = id
BY ZenonT(40) DEF NotLapped, Ids

\* Frames that are handed on later take nothing back.
LEMMA HistoryGrows ==
  ASSUME \A m \in Modules : \A i \in DOMAIN sent[m] :
           i \in DOMAIN sent'[m] /\ sent'[m][i] = sent[m][i]
  PROVE  /\ \A id : NotLapped(id)' => NotLapped(id)
         /\ \A m \in Modules : \A id, buffer :
              Recorded(sent[m], id, buffer) => Recorded(sent'[m], id, buffer)
BY ZenonT(40) DEF NotLapped, Recorded

\* A step that hands nothing on and copies nothing.
LEMMA BytesStay ==
  ASSUME BytesInv, UNCHANGED <<sent, ring, image>>,
         \A m \in Modules : Ids(to_sync'[m]) \cup delivered'[m] \subseteq Ids(to_sync[m]) \cup delivered[m]
  PROVE  BytesInv'
<1>1. \A id : NotLapped(id)' => NotLapped(id)
  BY ZenonT(40) DEF NotLapped
<1>2. ASSUME NEW m \in Modules PROVE RingHolds(m)' /\ ImageHolds(m)'
  <2>1. SentIds(m) = Ids(sent[m])
    BY Zenon DEF SentIds, Ids
  <2>2. RingHolds(m)'
    BY <1>1, <2>1, RingAfter, ZenonT(40) DEF BytesInv, RingHolds
  <2>3. ImageHolds(m)'
    BY <1>1, ImageAfter, ZenonT(40) DEF BytesInv, ImageHolds
  <2> QED BY <2>2, <2>3, Zenon
<1> QED BY <1>2, ZenonT(40) DEF BytesInv

\* Handing a frame on: its slot now holds it, and the ids that share the slot
\* are lapped.
LEMMA SendKeepsBytes ==
  ASSUME AInv, BytesInv, NEW m \in Modules, NEW mt \in MetaType, mt.frame \in Frames,
         NEW buffer \in Buffers, send(m, mt, buffer), UNCHANGED <<image, to_sync, delivered>>
  PROVE  BytesInv'
<1> DEFINE new == Handed(mt, buffer)
<1>1. /\ sent' = [sent EXCEPT ![m] = Append(sent[m], new)] /\ new \in SentType
      /\ ring' = [ring EXCEPT ![m][mt.image_id % n_slots] = buffer]
  BY SendEffect, ZenonT(40) DEF AInv, send
<1>2. /\ sent \in [Modules -> Seq(SentType)]
      /\ ring \in [Modules -> [0 .. n_slots - 1 -> Buffers]]
  BY ZenonT(40) DEF AInv, ReceiversTypeOK, SentType
<1>3. new.image_id = mt.image_id /\ new.data = buffer
  BY Zenon DEF Handed
<1> HIDE DEF new
<1>4. /\ sent'[m] = Append(sent[m], new) /\ sent[m] \in Seq(SentType)
      /\ \A k \in Modules : k # m => sent'[k] = sent[k] /\ ring'[k] = ring[k]
      /\ ring'[m] = [ring[m] EXCEPT ![mt.image_id % n_slots] = buffer]
  BY <1>1, <1>2, ZenonT(40)
<1>5. /\ \A i \in DOMAIN sent[m] : i \in DOMAIN sent'[m] /\ sent'[m][i] = sent[m][i]
      /\ \E n \in DOMAIN sent'[m] : sent'[m][n] = new
      /\ \A i \in DOMAIN sent'[m] : i \in DOMAIN sent[m] \/ sent'[m][i] = new
  <2>1. PICK q, t : q = sent[m] /\ t = Append(q, new)
    BY Zenon
  <2>2. /\ \A i \in DOMAIN q : i \in DOMAIN t /\ t[i] = q[i]
        /\ Len(q) + 1 \in DOMAIN t /\ t[Len(q) + 1] = new
        /\ \A i \in DOMAIN t : i \in DOMAIN q \/ i = Len(q) + 1
    BY <1>1, <1>4, <2>1, SMTT(40)
  <2> QED BY <1>4, <2>1, <2>2, ZenonT(40)
<1>6. /\ \A id : NotLapped(id)' => NotLapped(id)
      /\ \A k \in Modules : \A id, b : Recorded(sent[k], id, b) => Recorded(sent'[k], id, b)
  <2>1. \A k \in Modules : \A i \in DOMAIN sent[k] :
          i \in DOMAIN sent'[k] /\ sent'[k][i] = sent[k][i]
    BY <1>4, <1>5, ZenonT(40)
  <2> QED BY <2>1, HistoryGrows, ZenonT(40)
<1>7. ASSUME NEW k \in Modules PROVE ImageHolds(k)'
  BY <1>6, ImageAfter, ZenonT(40) DEF BytesInv, ImageHolds
<1>8. ASSUME NEW k \in Modules, k # m PROVE RingHolds(k)'
  <2>1. SentIds(k) = Ids(sent[k])
    BY Zenon DEF SentIds, Ids
  <2> QED BY <1>4, <1>6, <1>8, <2>1, RingAfter, ZenonT(40) DEF BytesInv, RingHolds
<1>9. RingHolds(m)'
  <2> SUFFICES ASSUME NEW id \in Ids(sent'[m]), NotLapped(id)'
               PROVE  Recorded(sent'[m], id, ring'[m][id % n_slots])
    BY RingAfter, Zenon
  <2>1. mt.image_id \in Ids(sent'[m])
    BY <1>3, <1>5, ZenonT(40) DEF Ids
  <2>2. CASE id = mt.image_id
    <3>1. mt.image_id % n_slots \in 0 .. n_slots - 1
      <4>1. mt.image_id \in Nat /\ n_slots \in Nat \ {0}
        BY UdpAssumption, Zenon DEF MetaType
      <4> QED BY <4>1, SMTT(40)
    <3>2. ring[m] \in [0 .. n_slots - 1 -> Buffers]
      BY <1>2, Zenon
    <3>3. ring'[m][id % n_slots] = buffer
      BY <1>4, <2>2, <3>1, <3>2, ZenonT(40)
    <3> QED BY <1>3, <1>5, <2>2, <3>3, ZenonT(40) DEF Recorded
  <2>3. CASE id # mt.image_id
    <3>1. id % n_slots # mt.image_id % n_slots
      BY <2>1, <2>3, LappedByAfter, ZenonT(40)
    <3>2. id \in SentIds(m)
      BY <1>3, <1>5, <2>3, ZenonT(40) DEF Ids, SentIds
    <3>3. ring'[m][id % n_slots] = ring[m][id % n_slots]
      <4>1. id \in Nat /\ n_slots \in Nat \ {0}
        BY <3>2, KnownIds, UdpAssumption, ZenonT(40) DEF AInv, Traced
      <4>2. id % n_slots \in 0 .. n_slots - 1
        BY <4>1, SMTT(40)
      <4>3. ring[m] \in [0 .. n_slots - 1 -> Buffers]
        BY <1>2, Zenon
      <4> QED BY <1>4, <3>1, <4>2, <4>3, ZenonT(40)
    <3>4. Recorded(sent[m], id, ring[m][id % n_slots])
      BY <1>6, <3>2, ZenonT(40) DEF BytesInv, RingHolds
    <3> QED BY <1>6, <3>3, <3>4, ZenonT(40)
  <2> QED BY <2>2, <2>3, Zenon
<1> QED BY <1>7, <1>8, <1>9, ZenonT(40) DEF BytesInv

LEMMA ReceiverKeepsBytes ==
  ASSUME AInv, BytesInv, NEW m \in Modules, Receiver(m), UNCHANGED <<image, to_sync, delivered>>
  PROVE  BytesInv'
<1>1. CASE UNCHANGED <<sent, ring>>
  BY <1>1, BytesStay, ZenonT(40)
<1>2. CASE \E p \in Packets : receive_many(m, p)
  <2>1. UNCHANGED <<sent, ring>>
    BY <1>2, ZenonT(40) DEF receive_many
  <2> QED BY <1>1, <2>1, ZenonT(40)
<1>3. CASE flush_unfinished_frame(m)
  <2>1. send(m, meta[m], frame_buffer[m])
    BY <1>3, ZenonT(40) DEF flush_unfinished_frame
  <2>2. meta[m].frame \in Frames /\ meta[m] \in MetaType /\ frame_buffer[m] \in Buffers
    BY <1>3, FlushEffect, QueueTypes, SMTT(40) DEF AInv
  <2> QED BY <2>1, <2>2, SendKeepsBytes, ZenonT(40)
<1>4. CASE eg_process_packet(m) \/ jf_process_packet(m) \/ gf_process_packet(m)
  <2>1. PICK mt \in MetaType, looks \in BOOLEAN :
          packet[m] \in Packets /\ mt.frame = packet[m].frame /\ Store(m, mt, looks)
    BY <1>4, StoredIdIsKnown, ZenonT(40)
  <2>2. PICK counted, buffer :
          /\ counted = Counted(mt, packet[m].place)
          /\ buffer = [frame_buffer[m] EXCEPT ![packet[m].place] = packet[m].frame]
    BY Zenon
  <2>3. packet[m].place \in Places /\ packet[m].frame \in Frames
    BY <2>1, ZenonT(40) DEF Packets
  <2>4. counted \in MetaType /\ counted.frame \in Frames
    BY <2>1, <2>2, <2>3, CountedFields, ZenonT(40)
  <2>5. buffer \in Buffers
    BY <2>2, <2>3, QueueTypes, SMTT(40) DEF Buffers, FrameNumbers
  <2>6. send(m, counted, buffer) \/ UNCHANGED <<sent, ring>>
    BY <2>1, <2>2, SMTT(40) DEF Store
  <2> QED BY <1>1, <2>4, <2>5, <2>6, SendKeepsBytes, ZenonT(40)
<1> QED BY <1>2, <1>3, <1>4, ZenonT(40) DEF Receiver

\* Converting an image: what the ring of the module holds is now in the slot
\* of the image, and the ids that share that slot are lapped.
LEMMA ConverterKeepsBytes ==
  ASSUME AInv, BytesInv, NEW m \in Modules, convert(m)
  PROVE  BytesInv'
<1> DEFINE id == Head(outbox[m]).image_id
<1>1. /\ outbox[m] # << >>
      /\ image' = [image EXCEPT ![id % n_image_slots][m] = ring[m][id % n_slots]]
      /\ to_sync' = [to_sync EXCEPT ![m] = Append(to_sync[m], Head(outbox[m]))]
      /\ UNCHANGED <<sent, ring, delivered>>
  BY ZenonT(40) DEF convert, take_message, sync_vars
<1>2. outbox[m] \in Seq(Messages) /\ to_sync[m] \in Seq(Messages)
  BY QueueTypes, ZenonT(40)
<1>3. Head(outbox[m]) \in Messages /\ id \in Ids(outbox[m])
  BY <1>1, <1>2, TailIds, ZenonT(40)
<1>4. id \in Nat /\ id \in Ids(sent[m])
  BY <1>3, ZenonT(40) DEF Messages, AInv, Traced, SentIds, Ids
<1>5. to_sync'[m] = Append(to_sync[m], Head(outbox[m])) /\ \A k \in Modules : k # m => to_sync'[k] = to_sync[k]
  BY <1>1, ZenonT(40) DEF AInv
<1>6. Ids(to_sync'[m]) = Ids(to_sync[m]) \cup {id}
  <2>1. PICK e : e = Head(outbox[m])
    BY Zenon
  <2>2. Ids(Append(to_sync[m], e)) = Ids(to_sync[m]) \cup {e.image_id}
    BY <1>2, <1>3, <2>1, AppendIds, SMTT(40)
  <2> QED BY <1>5, <2>1, <2>2, ZenonT(40)
<1>7. /\ image \in [0 .. n_image_slots - 1 -> [Modules -> Buffers]]
      /\ ring[m] \in [0 .. n_slots - 1 -> Buffers]
  BY ZenonT(40) DEF AInv, ReceiversTypeOK, BytesInv
<1> HIDE DEF id
<1>8. id % n_slots \in 0 .. n_slots - 1 /\ id % n_image_slots \in 0 .. n_image_slots - 1
  BY <1>4, UdpAssumption, AcquisitionAssumption, SMTT(40)
<1>9. image' \in [0 .. n_image_slots - 1 -> [Modules -> Buffers]]
  <2>1. PICK s, b : s = id % n_image_slots /\ b = ring[m][id % n_slots]
    BY Zenon
  <2>2. s \in 0 .. n_image_slots - 1 /\ b \in Buffers
    BY <1>7, <1>8, <2>1, ZenonT(40)
  <2>3. image' = [image EXCEPT ![s] = [image[s] EXCEPT ![m] = b]]
    BY <1>1, <2>1, ZenonT(40)
  <2>4. [image[s] EXCEPT ![m] = b] \in [Modules -> Buffers]
    BY <1>7, <2>2, ZenonT(40)
  <2> QED BY <1>7, <2>2, <2>3, <2>4, ZenonT(40)
<1>10. \A i : NotLapped(i)' => NotLapped(i)
  BY <1>1, ZenonT(40) DEF NotLapped
<1>11. ASSUME NEW k \in Modules PROVE RingHolds(k)'
  <2>1. SentIds(k) = Ids(sent[k])
    BY Zenon DEF SentIds, Ids
  <2> QED BY <1>1, <1>10, <2>1, RingAfter, ZenonT(40) DEF BytesInv, RingHolds
<1>12. ASSUME NEW k \in Modules PROVE ImageHolds(k)'
  <2> SUFFICES ASSUME NEW j \in Ids(to_sync'[k]) \cup delivered'[k], NotLapped(j)
               PROVE  Recorded(sent[k], j, image'[j % n_image_slots][k])
    BY <1>1, <1>10, ImageAfter, ZenonT(40)
  <2>1. CASE k = m /\ j = id
    <3>1. image'[id % n_image_slots][m] = ring[m][id % n_slots]
      BY <1>1, <1>7, <1>8, SMTT(40)
    <3>2. id \in SentIds(m)
      BY <1>4, ZenonT(40) DEF SentIds, Ids
    <3> QED BY <2>1, <3>1, <3>2, ZenonT(40) DEF BytesInv, RingHolds
  <2>2. CASE ~(k = m /\ j = id)
    <3>1. j \in Ids(to_sync[k]) \cup delivered[k]
      BY <1>1, <1>5, <1>6, <2>2, ZenonT(40)
    <3>2. k # m \/ j % n_image_slots # id % n_image_slots
      BY <1>4, <2>2, LappedBy, ZenonT(40)
    <3>3. j \in Nat
      BY <3>1, KnownIds, ZenonT(40) DEF AInv, Traced
    <3>4. j % n_image_slots \in 0 .. n_image_slots - 1
      BY <3>3, AcquisitionAssumption, SMTT(40)
    <3>5. image'[j % n_image_slots][k] = image[j % n_image_slots][k]
      BY <1>1, <1>7, <1>8, <3>2, <3>4, SMTT(40)
    <3> QED BY <3>1, <3>5, ZenonT(40) DEF BytesInv, ImageHolds
  <2> QED BY <2>1, <2>2, ZenonT(40)
<1> QED BY <1>9, <1>11, <1>12, ZenonT(40) DEF BytesInv

LEMMA SynchronizerKeepsBytes ==
  ASSUME AInv, BytesInv, NEW m \in Modules, synchronize(m)
  PROVE  BytesInv'
<1>1. /\ to_sync[m] # << >> /\ to_sync' = [to_sync EXCEPT ![m] = Tail(to_sync[m])]
      /\ UNCHANGED <<sent, ring, image>>
  BY ZenonT(40) DEF synchronize, receiver_vars
<1>2. delivered' = [delivered EXCEPT ![m] = delivered[m] \cup {Head(to_sync[m]).image_id}]
  BY ZenonT(40) DEF synchronize, Sync!process_received_modules, Sync!Arrive
<1>3. Head(to_sync[m]).image_id \in Ids(to_sync[m]) /\ Ids(Tail(to_sync[m])) \subseteq Ids(to_sync[m])
  BY <1>1, QueueTypes, TailIds, SMTT(40)
<1>4. /\ to_sync'[m] = Tail(to_sync[m])
      /\ delivered'[m] = delivered[m] \cup {Head(to_sync[m]).image_id}
      /\ \A k \in Modules : k # m => to_sync'[k] = to_sync[k] /\ delivered'[k] = delivered[k]
  BY <1>1, <1>2, SMTT(40) DEF AInv
<1>5. \A k \in Modules : Ids(to_sync'[k]) \cup delivered'[k] \subseteq Ids(to_sync[k]) \cup delivered[k]
  BY <1>3, <1>4, ZenonT(40)
<1> QED BY <1>1, <1>5, BytesStay, ZenonT(40)

LEMMA BytesInit == Init => BytesInv
<1> SUFFICES ASSUME Init PROVE BytesInv
  OBVIOUS
<1>1. NoData \in Buffers
  BY ZenonT(40) DEF NoData, Buffers, FrameNumbers
<1>2. image \in [0 .. n_image_slots - 1 -> [Modules -> Buffers]]
  BY <1>1, ZenonT(40) DEF Init
<1>3. ASSUME NEW m \in Modules PROVE RingHolds(m) /\ ImageHolds(m)
  <2>1. sent[m] = << >> /\ to_sync[m] = << >> /\ delivered[m] = {}
    BY ZenonT(40) DEF Init, InitReceivers, Sync!Init
  <2>2. DOMAIN << >> = {}
    OBVIOUS
  <2> QED BY <2>1, <2>2, ZenonT(40) DEF RingHolds, ImageHolds, SentIds, Ids
<1> QED BY <1>2, <1>3, Zenon DEF BytesInv

LEMMA BytesNext == AInv /\ BytesInv /\ [Next]_vars => BytesInv'
<1> SUFFICES ASSUME AInv, BytesInv, [Next]_vars PROVE BytesInv'
  OBVIOUS
<1>1. CASE \E m \in Modules : Receiver(m) /\ UNCHANGED <<image, to_sync, sync_vars>>
  BY <1>1, ReceiverKeepsBytes, ZenonT(40) DEF sync_vars
<1>2. CASE \E m \in Modules : eg_converter(m) \/ jf_converter(m) \/ gf_converter(m)
  BY <1>2, ConverterKeepsBytes, ZenonT(40) DEF eg_converter, jf_converter, gf_converter
<1>3. CASE \E m \in Modules : synchronize(m)
  BY <1>3, SynchronizerKeepsBytes, ZenonT(40)
<1>4. CASE publish
  <2>1. UNCHANGED <<sent, ring, image, to_sync, delivered>>
    BY <1>4, ZenonT(40) DEF publish, receiver_vars, Sync!send_synchronized_images, Sync!input
  <2> QED BY <2>1, BytesStay, ZenonT(40)
<1>5. CASE UNCHANGED vars
  <2>1. UNCHANGED <<sent, ring, image, to_sync, delivered>>
    BY <1>5, ZenonT(40) DEF vars, receiver_vars, sync_vars
  <2> QED BY <2>1, BytesStay, ZenonT(40)
<1> QED BY <1>1, <1>2, <1>3, <1>4, <1>5, ZenonT(40) DEF Next

LEMMA BytesInvariance == Spec => []BytesInv
BY BytesInit, BytesNext, TraceInvariance, PTL DEF Spec

\* A frame of which every packet was read once has its own bytes at each place.
LEMMA WholeFrameHasItsBytes ==
  ASSUME MissingIsHonest, NEW m \in Modules, NEW i \in DOMAIN sent[m], IsWhole(sent[m][i])
  PROVE  \A k \in Places : sent[m][i].data[k] = sent[m][i].frame
<1>1. PICK s : s = sent[m][i]
  BY Zenon
<1>2. (\A k \in Places : s.got[k] <= 1) => Cardinality(Foreign(s)) <= s.n_missing
  BY <1>1, ZenonT(40) DEF MissingIsHonest
<1>3. s.n_missing = 0 /\ \A k \in Places : s.got[k] = 1
  BY <1>1, ZenonT(40) DEF IsWhole
<1>4. Cardinality(Foreign(s)) <= 0
  BY <1>2, <1>3, SMTT(40)
<1>5. Foreign(s) \in SUBSET Places
  BY Zenon DEF Foreign
<1>6. IsFiniteSet(Foreign(s)) /\ Cardinality(Foreign(s)) \in Nat
  BY <1>5, PlacesAreFinite, ZenonT(40)
<1>7. Cardinality(Foreign(s)) = 0
  BY <1>4, <1>6, SMTT(40)
<1>8. Foreign(s) = {}
  BY <1>6, <1>7, FS_EmptySet, ZenonT(40)
<1>9. \A k \in Places : s.data[k] = s.frame
  BY <1>8, ZenonT(40) DEF Foreign
<1> QED BY <1>1, <1>9, ZenonT(40)

\* An image that goes out whose modules all handed on a complete frame has the
\* bytes of this very image, from every module, in its slot of the image ring
\* buffer, unless a slot on its way was used for another image meanwhile.
THEOREM PublishedWithOwnBytes == Spec => PublishedImageIsWhole
<1> DEFINE Step ==
      \A id \in ImageIds :
        /\ published' = Append(published, id)
        /\ NotLapped(id)
        /\ \A m \in Modules : \A s \in SentOf(m, id) : IsWhole(s)
        => \A m \in Modules : \A k \in Places :
             \E s \in SentOf(m, id) : image[id % n_image_slots][m][k] = s.frame
<1>1. Spec => []MissingIsHonest
  BY ReceiversInPipeline, CountIsHonest, PTL
<1>2. BytesInv /\ SInv /\ Delivered' /\ MissingIsHonest /\ [Next]_vars => [Step]_vars
  <2> SUFFICES ASSUME BytesInv, SInv, Delivered', MissingIsHonest, Next,
                      NEW id \in ImageIds, published' = Append(published, id), NotLapped(id),
                      \A m \in Modules : \A s \in SentOf(m, id) : IsWhole(s),
                      NEW m \in Modules, NEW k \in Places
               PROVE  \E s \in SentOf(m, id) : image[id % n_image_slots][m][k] = s.frame
    BY ZenonT(40)
  <2>1. published \in Seq(ImageIds)
    BY Zenon DEF SInv
  <2>2. /\ published' # published
        /\ Len(published) + 1 \in DOMAIN published' /\ published'[Len(published) + 1] = id
    <3>1. PICK q, t : q = published /\ t = Append(q, id)
      BY Zenon
    <3>2. t # q /\ Len(q) + 1 \in DOMAIN t /\ t[Len(q) + 1] = id
      <4>1. q \in Seq(ImageIds)
        BY <2>1, <3>1, ZenonT(40)
      <4>2. Len(t) = Len(q) + 1 /\ Len(q) \in Nat /\ t \in Seq(ImageIds) /\ t[Len(q) + 1] = id
        BY <3>1, <4>1, AppendProperties, LenProperties, SMTT(40)
      <4>3. DOMAIN t = 1 .. Len(t)
        BY <4>2, LenProperties, Zenon
      <4> QED BY <4>2, <4>3, SMTT(40)
    <3> QED BY <3>1, <3>2, ZenonT(40)
  <2>3. publish
    <3>1. CASE \E j \in Modules : Receiver(j) /\ UNCHANGED <<image, to_sync, sync_vars>>
      BY <2>2, <3>1, ZenonT(40) DEF sync_vars
    <3>2. CASE \E j \in Modules : eg_converter(j) \/ jf_converter(j) \/ gf_converter(j)
      BY <2>2, <3>2, ZenonT(40) DEF eg_converter, jf_converter, gf_converter, convert, sync_vars
    <3>3. CASE \E j \in Modules : synchronize(j)
      BY <2>2, <3>3, ZenonT(40) DEF synchronize, Sync!process_received_modules, Sync!output
    <3> QED BY <3>1, <3>2, <3>3, ZenonT(40) DEF Next
  <2>4. delivered' = delivered
    BY <2>3, ZenonT(40) DEF publish, Sync!send_synchronized_images, Sync!input
  <2>5. id \in delivered[m]
    <3>1. \A i \in DOMAIN published' : published'[i] \in delivered'[m]
      BY ZenonT(40) DEF Delivered
    <3> QED BY <2>2, <2>4, <3>1, ZenonT(40)
  <2>6. PICK i \in DOMAIN sent[m] :
          sent[m][i].image_id = id /\ sent[m][i].data = image[id % n_image_slots][m]
    BY <2>5, ZenonT(40) DEF BytesInv, ImageHolds, Recorded
  <2>7. sent[m][i] \in SentOf(m, id)
    BY <2>6, ZenonT(40) DEF SentOf
  <2>8. sent[m][i].data[k] = sent[m][i].frame
    BY <2>7, WholeFrameHasItsBytes, ZenonT(40)
  <2> QED BY <2>6, <2>7, <2>8, ZenonT(40)
<1>3. Spec => []Delivered
  BY SyncInvariance, PublishedIsDelivered, PTL
<1> HIDE DEF Step
<1>4. Spec => [][Step]_vars
  BY <1>1, <1>2, <1>3, SyncInvariance, BytesInvariance, PTL DEF Spec
<1> QED BY <1>4, SMTT(40) DEF Step, PublishedImageIsWhole
=============================================================================
