----------------------------- MODULE Forwarding -----------------------------
(***************************************************************************)
(* The second way of forwarding, from the image stream of one server to    *)
(* that of another: std_metadata_stream sends the metadata of every image, *)
(* the std_stream_send / std_stream_receive pairs take turns to send whole *)
(* images, and std_data_sync_metadata (MetadataSync) joins the two.        *)
(*                                                                         *)
(* A connection is a queue that drops new messages when it is full; the    *)
(* data of an image is the id of the image the bytes belong to.            *)
(***************************************************************************)
EXTENDS MetadataSync

CONSTANTS
  n_forwarders,  \* max_number_of_forwarders_spawned
  n_slots,       \* slots of the image ring buffers
  Hwm            \* ZMQ_SNDHWM and ZMQ_RCVHWM of a connection

ASSUME ForwardingAssumption ==
  /\ n_forwarders \in Nat \ {0}
  /\ n_slots \in Nat \ {0}
  /\ Hwm \in Nat \ {0}

Parts == 0 .. n_forwarders - 1

\* The subscriber of the image stream that is std_metadata_stream.
META == n_forwarders

Slots == 0 .. n_slots - 1

VARIABLES
  source,       \* ids published on the sending server
  source_ring,  \* image ring buffer of the sending server
  stream,       \* stream[s]: ids on their way to subscriber s
  tcp,          \* tcp[s]: messages between the servers
  image_ring,   \* image ring buffer of the receiving server
  to_sync       \* to_sync[p]: ids receiver p has pushed to the synchronizer

vars == <<sync_vars, source, source_ring, stream, tcp, image_ring, to_sync>>

Queued(q, message) == IF Len(q) < Hwm THEN Append(q, message) ELSE q

-----------------------------------------------------------------------------

\* The services of the sending server publish the next image.
publish_image(id) ==
  /\ \A i \in source : i < id
  /\ source' = source \cup {id}
  /\ source_ring' = [source_ring EXCEPT ![id % n_slots] = id]
  /\ stream' = [s \in DOMAIN stream |-> Queued(stream[s], id)]
  /\ UNCHANGED <<sync_vars, tcp, image_ring, to_sync>>

\* std_metadata_stream
forward_metadata ==
  LET id == Head(stream[META])
  IN  /\ stream[META] # << >>
      /\ stream' = [stream EXCEPT ![META] = Tail(@)]
      /\ tcp' = [tcp EXCEPT ![META] = Queued(@, [id |-> id, data |-> id])]
      /\ UNCHANGED <<sync_vars, source, source_ring, image_ring, to_sync>>

\* Slip: every pair sends every image.
send_every_image(p) ==
  LET id      == Head(stream[p])
      message == [id |-> id, data |-> source_ring[id % n_slots]]
  IN  /\ stream[p] # << >>
      /\ stream' = [stream EXCEPT ![p] = Tail(@)]
      /\ tcp' = [tcp EXCEPT ![p] = Queued(@, message)]
      /\ UNCHANGED <<sync_vars, source, source_ring, image_ring, to_sync>>

\* std_stream_send: the images whose turn it is, with the bytes that the ring
\* buffer holds when they are sent.
stream_send(p) ==
  LET id      == Head(stream[p])
      message == [id |-> id, data |-> source_ring[id % n_slots]]
  IN  /\ stream[p] # << >>
      /\ stream' = [stream EXCEPT ![p] = Tail(@)]
      /\ tcp' = IF id % n_forwarders = p THEN [tcp EXCEPT ![p] = Queued(@, message)] ELSE tcp
      /\ UNCHANGED <<sync_vars, source, source_ring, image_ring, to_sync>>

\* Slip: the synchronizer is told before the data has been received.
receive_after_push(p) ==
  LET message == Head(tcp[p])
  IN  /\ tcp[p] # << >>
      /\ Len(to_sync[p]) < Hwm
      /\ tcp' = [tcp EXCEPT ![p] = Tail(@)]
      /\ to_sync' = [to_sync EXCEPT ![p] = Append(@, message.id)]
      /\ UNCHANGED <<sync_vars, source, source_ring, stream, image_ring>>

\* std_stream_receive: the data goes to the slot of the id, then the
\* synchronizer is told; a PUSH socket waits when its queue is full.
stream_receive(p) ==
  LET message == Head(tcp[p])
  IN  /\ tcp[p] # << >>
      /\ Len(to_sync[p]) < Hwm
      /\ tcp' = [tcp EXCEPT ![p] = Tail(@)]
      /\ image_ring' = [image_ring EXCEPT ![message.id % n_slots] = message.data]
      /\ to_sync' = [to_sync EXCEPT ![p] = Append(@, message.id)]
      /\ UNCHANGED <<sync_vars, source, source_ring, stream>>

process_incoming_metadata_stream ==
  /\ tcp[META] # << >>
  /\ tcp' = [tcp EXCEPT ![META] = Tail(@)]
  /\ add_metadata(Head(tcp[META]).id)
  /\ UNCHANGED <<source, source_ring, stream, image_ring, to_sync>>

process_incoming_image_stream(p) ==
  /\ to_sync[p] # << >>
  /\ to_sync' = [to_sync EXCEPT ![p] = Tail(@)]
  /\ add_received_image(Head(to_sync[p]))
  /\ UNCHANGED <<source, source_ring, stream, tcp, image_ring>>

clean_up ==
  erase_older_images /\ UNCHANGED <<source, source_ring, stream, tcp, image_ring, to_sync>>

send_synchronized_images ==
  /\ \E id \in Images : get_next_received_image(id)
  /\ UNCHANGED <<source, source_ring, stream, tcp, image_ring, to_sync>>

-----------------------------------------------------------------------------

Init ==
  /\ SyncInit
  /\ source = {}
  /\ source_ring = [s \in Slots |-> Header]
  /\ stream = [s \in Parts \cup {META} |-> << >>]
  /\ tcp = [s \in Parts \cup {META} |-> << >>]
  /\ image_ring = [s \in Slots |-> Header]
  /\ to_sync = [p \in Parts |-> << >>]

Services ==
  \/ forward_metadata
  \/ \E p \in Parts : stream_send(p) \/ stream_receive(p)
  \/ process_incoming_metadata_stream
  \/ \E p \in Parts : process_incoming_image_stream(p)
  \/ clean_up
  \/ send_synchronized_images

Next == (\E id \in Images : publish_image(id)) \/ Services

\* Each loop polls for ever; a thread that holds a mutex goes on.
Fairness ==
  /\ WF_vars(forward_metadata)
  /\ \A p \in Parts : WF_vars(stream_send(p)) /\ WF_vars(stream_receive(p))
  /\ WF_vars(process_incoming_metadata_stream)
  /\ \A p \in Parts : WF_vars(process_incoming_image_stream(p))
  /\ WF_vars(clean_up)
  /\ WF_vars(send_synchronized_images)

FairSpec == Init /\ [][Next]_vars /\ Fairness

-----------------------------------------------------------------------------

\* Type correctness of the synchronizer and of the connections.
TypeOK ==
  /\ SyncTypeOK
  /\ source \subseteq Images
  /\ source_ring \in [Slots -> Images \cup {Header}]
  /\ \A s \in Parts \cup {META} : Len(stream[s]) <= Hwm /\ Len(tcp[s]) <= Hwm
  /\ image_ring \in [Slots -> Images \cup {Header}]
  /\ \A p \in Parts : Len(to_sync[p]) <= Hwm

\* The services in front of the synchronizer give it what it relies on:
\* metadata in increasing order and every image once (SyncNext).
ServesSynchronizer == SyncSpec

\* The sending server is a whole ring ahead of the image.
RingAhead(id) == \E i \in source : i >= id + n_slots

\* An older image of the same slot went over another pair, which happens only
\* when n_forwarders does not divide n_slots.
SharedSlot(id) ==
  \E i \in source : /\ i < id /\ i % n_slots = id % n_slots
                    /\ i % n_forwarders # id % n_forwarders

\* The image that the synchronizer announces is in the ring buffer of the
\* receiving server with its own bytes, although metadata and data came over
\* different connections.  There are two exceptions: the sending server was a
\* whole ring ahead, or a slow pair could write an older image over it.
ForwardedImageIsWhole ==
  [][\A id \in Images :
       sent' = Append(sent, id) /\ ~RingAhead(id) /\ ~SharedSlot(id)
         => image_ring[id % n_slots] = id]_vars

\* Whatever waits in both queues leaves: it is sent, or dropped, or an older
\* image of which only the metadata or only the data has come is in its way.
MatchedImagesLeave ==
  \A id \in Images : id \in metadata_cache \cap received_images ~>
    \/ id \in Sent \cup evicted \cup raced
    \/ \E j \in (metadata_cache \cup received_images) \ (metadata_cache \cap received_images) :
         j < id
=============================================================================
