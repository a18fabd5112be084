------------------------------ MODULE LiveView ------------------------------
(***************************************************************************)
(* What follows the image stream: std_gf_filter, or one of the two         *)
(* std_data_compress services, and std_live_stream behind it.  The images  *)
(* come from a camera (CameraReceiver) or from the detector's own chain.   *)
(* The bytes stay in RAM buffers, only metadata travel; a service that     *)
(* falls a whole buffer behind finds other bytes under the image id.       *)
(***************************************************************************)
EXTENDS CameraReceiver

LOCAL INSTANCE FiniteSetsExt

CONSTANTS
  Chains,      \* [source, via, type]: where images come from, the service
               \* before the live stream, the live stream's condition
  value,       \* <<first, second>> of the live stream's configuration
  data_period, \* the period of a periodic stream, in ticks
  Stubborn,    \* images that compression makes longer
  Hwm,         \* messages a subscriber can be behind before it loses some
  MaxTime      \* bound on the clock

ASSUME LiveAssumption ==
  /\ Chains \subseteq [source : {"camera", "detector"},
                       via : {"image", "filter", "no_filter", "blosc2", "h5bitshuffle-lz4"},
                       type : {"forward", "periodic", "batch"}]
  /\ value \in Nat \X (Nat \ {0})
  /\ data_period \in Nat \ {0}
  /\ Stubborn \subseteq Nat
  /\ Hwm \in Nat \ {0}
  /\ MaxTime \in Nat

VARIABLES
  chain,       \* the member of Chains that is deployed
  to_service,  \* metadata for the filter or the compression
  to_live,     \* metadata for the live stream
  packed,      \* the RAM buffer of the compression: slot -> image
  count,       \* periodic: images of the current batch
  next_time,   \* periodic: when the next batch may start
  now,
  shown,       \* history: [id, bytes, lag] of the images of the live stream
  clobbered    \* history: images lost to a compressed image longer than a slot

services == <<chain, to_service, to_live, packed, count, next_time, now, shown, clobbered>>

vars == <<camera, ring, n_frames, published, spoilt, services>>

-----------------------------------------------------------------------------
(* The image stream.                                                       *)

\* PUB drops what does not fit.
Offer(queue, msgs) == queue \o SubSeq(msgs, 1, Min({Len(msgs), Hwm - Len(queue)}))

Message(id, good, store) == [id |-> id, good |-> good, store |-> store]

Publish(msgs) ==
  IF chain.via = "image"
  THEN to_live' = Offer(to_live, msgs) /\ UNCHANGED to_service
  ELSE to_service' = Offer(to_service, msgs) /\ UNCHANGED to_live

\* A camera's images have status good_image and no GigaFRoST metadata.
camera_round ==
  /\ announce
  /\ LET ids == SubSeq(published', Len(published) + 1, Len(published'))
     IN  Publish([k \in DOMAIN ids |-> Message(ids[k], TRUE, FALSE)])
  /\ UNCHANGED <<chain, packed, count, next_time, now, shown, clobbered>>

\* The detector's chain announces its images in order, some with packets
\* missing, some not meant to be stored.
detector_image(good, store) ==
  /\ n_frames < MaxFrames
  /\ n_frames' = n_frames + 1
  /\ ring' = [ring EXCEPT ![Slot(n_frames')] = n_frames']
  /\ published' = Append(published, n_frames')
  /\ Publish(<<Message(n_frames', good, store)>>)
  /\ UNCHANGED <<camera, spoilt, chain, packed, count, next_time, now, shown, clobbered>>

-----------------------------------------------------------------------------
(* The service between the image stream and the live stream.               *)

\* -n, --no_filter
always_forward == chain.via = "no_filter"

filter ==
  /\ chain.via \in {"filter", "no_filter"} /\ to_service # << >>
  /\ to_service' = Tail(to_service)
  /\ to_live' = IF always_forward \/ Head(to_service).store
                THEN Offer(to_live, <<Head(to_service)>>)
                ELSE to_live
  /\ UNCHANGED <<camera, ring, n_frames, published, spoilt, chain, packed, count, next_time,
                 now, shown, clobbered>>

Shrinks(id) == id \notin Stubborn

\* Slip: what could not be compressed is announced all the same.
is_sent_always(msg) == TRUE

\* blosc2_compress_ctx returns 0 for an image that does not get shorter.
is_sent(msg) == Shrinks(msg.id)

\* Only good images are compressed; what has been gets announced.
Compress(via, stored, announced, lost) ==
  /\ chain.via = via /\ to_service # << >>
  /\ to_service' = Tail(to_service)
  /\ IF Head(to_service).good
     THEN /\ packed' = stored
          /\ clobbered' = clobbered \cup lost
          /\ to_live' = IF announced THEN Offer(to_live, <<Head(to_service)>>) ELSE to_live
     ELSE UNCHANGED <<packed, clobbered, to_live>>
  /\ UNCHANGED <<camera, ring, n_frames, published, spoilt, chain, count, next_time, now, shown>>

\* blosc2 gives up on an image half way when it would not fit.
blosc2_compress ==
  LET msg == Head(to_service)
  IN  Compress("blosc2",
               [packed EXCEPT ![Slot(msg.id)] =
                  IF Shrinks(msg.id) THEN ring[Slot(msg.id)] ELSE NoImage],
               is_sent(msg), {})

\* bitshuffle writes such an image on into the next slot, if there is one:
\* past the end of the buffer no slot is hit, or the process ends there.
Overrun(slot) == IF slot + 1 < n_slots THEN {slot + 1} ELSE {}

\* The slots that lose their image when an image is compressed into slot: the
\* one it runs over, and the one whose image had run over into it.
Spoils(id, slot) ==
  (IF Shrinks(id) THEN {} ELSE Overrun(slot)) \cup
  {s \in 0 .. slot - 1 : slot \in Overrun(s) /\ ~Shrinks(packed[s])}

h5bitshuffle_compress ==
  LET msg == Head(to_service)
      slot == Slot(msg.id)
      hit == Spoils(msg.id, slot)
  IN  Compress("h5bitshuffle-lz4",
               [s \in DOMAIN packed |->
                  IF s = slot THEN ring[slot] ELSE IF s \in hit THEN NoImage ELSE packed[s]],
               TRUE, {packed[s] : s \in hit})

-----------------------------------------------------------------------------
(* std_live_stream.                                                        *)

first == value[1]

second == value[2]

\* Slip: the batch goes on whatever has been sent.
batch_goes_on_for_ever == count > 0

batch_goes_on == count > 0 /\ count < first

\* select_sending_condition: the answer, and what periodic remembers.
should_send_image(id, answer) ==
  \/ chain.type = "forward" /\ answer /\ UNCHANGED <<count, next_time>>
  \/ chain.type = "batch" /\ answer = (id % second < first) /\ UNCHANGED <<count, next_time>>
  \/ /\ chain.type = "periodic" /\ batch_goes_on
     /\ answer
     /\ count' = count + 1
     /\ UNCHANGED next_time
  \/ /\ chain.type = "periodic" /\ ~batch_goes_on
     /\ answer = (now > next_time)
     /\ count' = IF answer THEN 1 ELSE 0
     /\ next_time' = IF answer THEN now + data_period ELSE next_time

LiveBuffer == IF chain.via \in {"blosc2", "h5bitshuffle-lz4"} THEN packed ELSE ring

live_stream ==
  /\ to_live # << >>
  /\ to_live' = Tail(to_live)
  /\ LET id == Head(to_live).id
     IN  \E answer \in BOOLEAN :
           /\ should_send_image(id, answer)
           /\ shown' = IF answer
                       THEN Append(shown, [id |-> id, bytes |-> LiveBuffer[Slot(id)],
                                           lag |-> n_frames - id])
                       ELSE shown
  /\ UNCHANGED <<camera, ring, n_frames, published, spoilt, chain, to_service, packed, now,
                 clobbered>>

tick ==
  /\ chain.type = "periodic" /\ now < MaxTime
  /\ now' = now + 1
  /\ UNCHANGED <<camera, ring, n_frames, published, spoilt, chain, to_service, to_live, packed,
                 count, next_time, shown, clobbered>>

-----------------------------------------------------------------------------

\* Which receiver runs matters only where there is a camera.
Init ==
  /\ InitReceiver
  /\ chain \in Chains
  /\ chain.source = "detector" => receiver = CHOOSE r \in Receivers : TRUE
  /\ to_service = << >>
  /\ to_live = << >>
  /\ packed = [s \in 0 .. n_slots - 1 |-> NoImage]
  /\ count = 0
  /\ next_time = data_period
  /\ now = 0
  /\ shown = << >>
  /\ clobbered = {}

Camera ==
  \/ /\ (\E intact \in BOOLEAN : send_frame(intact)) \/ array10_receive \/ bsread_receive
        \/ receive_timeout
     /\ UNCHANGED services
  \/ camera_round

Next ==
  \/ chain.source = "camera" /\ Camera
  \/ chain.source = "detector" /\ \E good, store \in BOOLEAN : detector_image(good, store)
  \/ filter
  \/ blosc2_compress
  \/ h5bitshuffle_compress
  \/ live_stream
  \/ tick

Spec == Init /\ [][Next]_vars

-----------------------------------------------------------------------------

\* Type correctness of the image stream and of the services behind it.
TypeOK ==
  /\ ReceiverTypeOK
  /\ chain \in Chains
  /\ Len(to_service) <= Hwm /\ Len(to_live) <= Hwm
  /\ packed \in [0 .. n_slots - 1 -> 0 .. MaxFrames]
  /\ count \in Nat /\ next_time \in Nat
  /\ now \in 0 .. MaxTime

\* The live stream shows an image with its own bytes, through whichever
\* service it came, unless the source was a whole buffer ahead by then.
ShownOwnBytes ==
  \A k \in DOMAIN shown :
    \/ shown[k].bytes = shown[k].id
    \/ shown[k].lag >= n_slots
    \/ shown[k].id \in spoilt \cup clobbered

\* A periodic stream never shows more than its share: first images for every
\* period that has gone by since it was started.
RateIsBounded ==
  chain.type = "periodic" => Len(shown) <= Max({1, first}) * (now \div data_period)

=============================================================================
