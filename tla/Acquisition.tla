----------------------------- MODULE Acquisition -----------------------------
(***************************************************************************)
(* The way of an image from the network to the services: the receivers of  *)
(* UdpReceiver, one converter per module, and the module synchronizer of   *)
(* ModuleSync.  Metadata travels in messages, data through shared memory:  *)
(* a converter reads the slot of the module's ring buffer that the image   *)
(* id in the message selects, and writes its part of the image to the slot *)
(* of the image ring buffer that the same id selects.  Nothing but the     *)
(* pace of the services keeps message and slot together.                   *)
(***************************************************************************)
EXTENDS UdpReceiver

CONSTANTS
  n_image_slots,    \* slots of the image ring buffer
  n_images_buffer   \* module_sync_queue_size

ASSUME AcquisitionAssumption ==
  /\ IsFiniteSet(Modules) /\ Modules # {}
  /\ Modules = 0 .. Cardinality(Modules) - 1
  /\ n_image_slots \in Nat \ {0}
  /\ n_images_buffer \in Nat

VARIABLES
  image,    \* image[slot][m]: the part of module m in the image ring buffer
  to_sync,  \* to_sync[m]: metadata pushed to the synchronizer
  cache, processed, n_corrupted, delivered, flawed, dropped, published, good

sync_vars == <<cache, processed, n_corrupted, delivered, flawed, dropped, published, good>>

vars == <<receiver_vars, image, to_sync, sync_vars>>

ImageIds == Frames \cup {bunchid(f) : f \in Frames}

Sync == INSTANCE ModuleSync WITH
  n_modules <- Cardinality(Modules), n_groups <- 1, Mask <- {}, Images <- ImageIds,
  PacketLoss <- BOOLEAN, Delivery <- "any", MaxFrames <- 2 * MaxPackets * Cardinality(Modules)

-----------------------------------------------------------------------------

\* Slip: the converter writes to the slot of the image before.
convert_to_wrong_slot(m) ==
  LET message == Head(outbox[m])
      id      == message.image_id
  IN  /\ Len(to_sync[m]) < Hwm
      /\ take_message(m)
      /\ image' = [image EXCEPT ![(id - 1) % n_image_slots][m] = ring[m][id % n_slots]]
      /\ to_sync' = [to_sync EXCEPT ![m] = Append(@, message)]
      /\ UNCHANGED sync_vars

\* The loop of a converter: receive, convert into the slot of the image,
\* push the metadata on.  The PUSH socket waits when its queue is full.
convert(m) ==
  LET message == Head(outbox[m])
      id      == message.image_id
  IN  /\ Len(to_sync[m]) < Hwm
      /\ take_message(m)
      /\ image' = [image EXCEPT ![id % n_image_slots][m] = ring[m][id % n_slots]]
      /\ to_sync' = [to_sync EXCEPT ![m] = Append(@, message)]
      /\ UNCHANGED sync_vars

\* The three converters differ in where they put the pixels (see Geometry).
eg_converter(m) == detector = "eiger" /\ convert(m)

jf_converter(m) == detector = "jungfrau" /\ convert(m)

gf_converter(m) == detector = "gigafrost" /\ convert(m)

\* The synchronizer's receiving thread takes the next frame of a converter.
synchronize(m) ==
  LET message == Head(to_sync[m])
  IN  /\ to_sync[m] # << >>
      /\ to_sync' = [to_sync EXCEPT ![m] = Tail(@)]
      /\ Sync!process_received_modules(m, message.image_id, message.n_missing # 0)
      /\ UNCHANGED <<receiver_vars, image>>

publish ==
  /\ \E id \in ImageIds : Sync!send_synchronized_images(id)
  /\ UNCHANGED <<receiver_vars, image, to_sync>>

Init ==
  /\ InitReceivers
  /\ image = [s \in 0 .. n_image_slots - 1 |-> [m \in Modules |-> NoData]]
  /\ to_sync = [m \in Modules |-> << >>]
  /\ Sync!Init

Next ==
  \/ \E m \in Modules : Receiver(m) /\ UNCHANGED <<image, to_sync, sync_vars>>
  \/ \E m \in Modules : eg_converter(m) \/ jf_converter(m) \/ gf_converter(m)
  \/ \E m \in Modules : synchronize(m)
  \/ publish

Spec == Init /\ [][Next]_vars

-----------------------------------------------------------------------------

\* Type correctness of the receivers, of the image ring buffer and of the
\* queues between the services.
TypeOK ==
  /\ ReceiversTypeOK
  /\ image \in [0 .. n_image_slots - 1 -> [Modules -> Buffers]]
  /\ \A m \in Modules : Len(outbox[m]) <= Hwm /\ Len(to_sync[m]) <= Hwm
  /\ Sync!TypeOK

SentOf(m, id) == {sent[m][i] : i \in {j \in DOMAIN sent[m] : sent[m][j].image_id = id}}

\* No frame that shares a slot with image id has been handed on.
NotLapped(id) ==
  \A m \in Modules : \A i \in DOMAIN sent[m] :
    LET other == sent[m][i].image_id
    IN  other % n_slots = id % n_slots \/ other % n_image_slots = id % n_image_slots
          => other = id

IsWhole(s) == s.n_missing = 0 /\ \A k \in Places : s.got[k] = 1

\* An image that goes out, and whose modules all handed on a complete frame,
\* has the bytes of this very image in its slot of the image ring buffer, from
\* every module: message and data meet again after two ring buffers and three
\* processes, as long as the services keep up with the rings (NotLapped).
PublishedImageIsWhole ==
  [][\A id \in ImageIds :
       /\ published' = Append(published, id)
       /\ NotLapped(id)
       /\ \A m \in Modules : \A s \in SentOf(m, id) : IsWhole(s)
       => \A m \in Modules : \A k \in Places :
            \E s \in SentOf(m, id) : image[id % n_image_slots][m][k] = s.frame]_vars

\* Each image published was handed on by the receiver of every module:
\* nothing is assembled from frames that no receiver has seen.
PublishedComplete == Sync!PublishedComplete /\
  \A i \in DOMAIN published : \A m \in Modules : SentOf(m, published[i]) # {}
=============================================================================
