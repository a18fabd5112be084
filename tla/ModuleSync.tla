----------------------------- MODULE ModuleSync -----------------------------
(***************************************************************************)
(* std_data_sync_module: the service that joins the frames of all detector *)
(* modules into images.  One thread receives the frame metadata that the   *)
(* converters push, another pops full images and publishes them.  Both use *)
(* one Synchronizer, whose two operations hold mutex_cache from start to   *)
(* end: each of them is one action.                                        *)
(*                                                                         *)
(* The frames of one converter arrive in the order it pushed them, those   *)
(* of different converters interleave in any way.                          *)
(***************************************************************************)
EXTENDS Integers, Sequences, FiniteSets

CONSTANTS
  Modules,         \* module ids whose converters push frames
  n_modules,       \* modules per image
  n_groups,        \* 2 for GigaFRoST: modules m and m + n_modules take turns
  Mask,            \* modules_mask from the configuration, as a set of bits
  n_images_buffer, \* module_sync_queue_size
  Images,          \* image ids
  PacketLoss,      \* values of "the frame has missing packets" that occur
  Delivery,        \* what the receivers guarantee, see MayDeliver
  MaxFrames        \* bound on the frames of one behaviour

ASSUME ConstantsAssumption ==
  /\ Modules \subseteq Nat
  /\ n_modules \in Nat \ {0}
  /\ n_groups \in Nat \ {0}
  /\ Mask \subseteq 0 .. n_modules - 1
  /\ n_images_buffer \in Nat
  /\ Images \subseteq Nat
  /\ PacketLoss \subseteq BOOLEAN
  /\ Delivery \in {"in_order", "any"}
  /\ MaxFrames \in Nat

VARIABLES
  cache,        \* image id -> [mask: bits still missing, flawed: first frame's loss]
  processed,    \* stats: frames processed
  n_corrupted,  \* stats: sum of what process_image_metadata returned
  delivered,    \* history: the ids each module has pushed in this acquisition
  flawed,       \* history: the ids with a frame that lacks packets
  dropped,      \* history: the cache entries erased without being published
  published,    \* history: the ids sent out in this acquisition
  good          \* history: the ids sent out with status good_image

stats == <<processed, n_corrupted>>
input == <<delivered, flawed>>
output == <<published, good>>
vars == <<cache, stats, input, dropped, output>>

Bit(m) == m % n_modules

Group(m) == m \div n_modules

set_all(n) == 0 .. n - 1

\* A configuration without a mask waits for all modules.
new_image_mask == IF Mask = {} THEN set_all(n_modules) ELSE Mask

Entries == [image_id : Images, mask : SUBSET new_image_mask, flawed : BOOLEAN]

-----------------------------------------------------------------------------
(* The cache is a std::map: begin() is its smallest image id.              *)

IsBegin(c, id) == id \in DOMAIN c /\ \A j \in DOMAIN c : id <= j

Begin(c) == {id \in DOMAIN c : IsBegin(c, id)}

Erase(c, ids) == [i \in DOMAIN c \ ids |-> c[i]]

Store(c, id, entry) ==
  [i \in DOMAIN c \cup {id} |-> IF i = id THEN entry ELSE c[i]]

is_queue_too_long(c) == Cardinality(DOMAIN c) > n_images_buffer

is_new_image(id) == id \notin DOMAIN cache

-----------------------------------------------------------------------------
(* The detector and the converters in front of the service.                *)

\* GigaFRoST spreads consecutive images over its groups of modules.
Carries(m, id) == id % n_groups = Group(m)

\* "in_order": frames can be lost, never repeated or overtaken (what the UDP
\* receivers expect of the network).  "any": late packets make a receiver
\* report old images again.
MayDeliver(m, id) ==
  /\ Carries(m, id)
  /\ Delivery = "in_order" => \A i \in delivered[m] : i < id

Arrive(m, id, loss) ==
  /\ MayDeliver(m, id)
  /\ delivered' = [delivered EXCEPT ![m] = @ \cup {id}]
  /\ flawed' = IF loss THEN flawed \cup {id} ELSE flawed

-----------------------------------------------------------------------------
(* The receiving thread.                                                   *)

\* stats.process(n_corrupted_images)
stats_process(n) ==
  /\ processed < MaxFrames
  /\ processed' = processed + 1
  /\ n_corrupted' = n_corrupted + n

AsDropped(c, ids) ==
  IF ids = {} THEN << >>
  ELSE LET id == CHOOSE i \in ids : TRUE
       IN  << [image_id |-> id, mask |-> c[id].mask, flawed |-> c[id].flawed] >>

\* Slip: the oldest image is not erased when the queue is too long.
push_without_erase(m, id, loss) ==
  /\ cache' = Store(cache, id, [mask |-> new_image_mask \ {Bit(m)}, flawed |-> loss])
  /\ stats_process(IF is_queue_too_long(cache') THEN 1 ELSE 0)
  /\ UNCHANGED dropped

\* Slip: the length is read before the new image is in the map.
push_with_early_length(m, id, loss) ==
  LET evicted == IF is_queue_too_long(cache) THEN Begin(cache) ELSE {}
      kept    == Erase(cache, evicted)
  IN  /\ cache' = Store(kept, id, [mask |-> new_image_mask \ {Bit(m)}, flawed |-> loss])
      /\ dropped' = dropped \o AsDropped(cache, evicted)
      /\ stats_process(IF is_queue_too_long(kept) THEN 1 ELSE 0)

\* The first frame of an image: the oldest image makes room when the queue is
\* too long; the return value says whether it is too long afterwards.
push_new_image_to_queue(m, id, loss) ==
  LET evicted == IF is_queue_too_long(cache) THEN Begin(cache) ELSE {}
      entry   == [mask |-> new_image_mask \ {Bit(m)}, flawed |-> loss]
  IN  /\ cache' = Store(Erase(cache, evicted), id, entry)
      /\ dropped' = dropped \o AsDropped(cache, evicted)
      /\ stats_process(IF is_queue_too_long(cache') THEN 1 ELSE 0)

\* A further frame: clears the module's bit, or, if that is clear already,
\* gives the image up.
update_module_mask_for_image(m, id) ==
  \/ /\ Bit(m) \in cache[id].mask
     /\ cache' = [cache EXCEPT ![id].mask = @ \ {Bit(m)}]
     /\ stats_process(0)
     /\ UNCHANGED dropped
  \/ /\ Bit(m) \notin cache[id].mask
     /\ cache' = Erase(cache, {id})
     /\ dropped' = dropped \o AsDropped(cache, {id})
     /\ stats_process(1)

process_image_metadata(m, id, loss) ==
  \/ is_new_image(id) /\ push_new_image_to_queue(m, id, loss)
  \/ ~is_new_image(id) /\ update_module_mask_for_image(m, id)

process_received_modules(m, id, loss) ==
  /\ Arrive(m, id, loss)
  /\ process_image_metadata(m, id, loss)
  /\ UNCHANGED output

-----------------------------------------------------------------------------
(* The sending thread.                                                     *)

\* Slip: any full image is popped, not only the first of the map.
pop_any_full_image(id) ==
  /\ id \in DOMAIN cache
  /\ cache[id].mask = {}
  /\ cache' = Erase(cache, {id})

\* Slip: one missing module is tolerated.
pop_nearly_full_image(id) ==
  /\ IsBegin(cache, id)
  /\ Cardinality(cache[id].mask) <= 1
  /\ cache' = Erase(cache, {id})

\* Slip: the newest image is held back until another one arrives.
pop_all_but_last(id) ==
  /\ IsBegin(cache, id)
  /\ cache[id].mask = {}
  /\ Cardinality(DOMAIN cache) > 1
  /\ cache' = Erase(cache, {id})

pop_next_full_image(id) ==
  /\ IsBegin(cache, id)
  /\ cache[id].mask = {}
  /\ cache' = Erase(cache, {id})

\* The status sent is that of the frame that created the entry.
send_synchronized_images(id) ==
  /\ pop_next_full_image(id)
  /\ published' = Append(published, id)
  /\ good' = IF cache[id].flawed THEN good ELSE good \cup {id}
  /\ UNCHANGED <<stats, input, dropped>>

-----------------------------------------------------------------------------

Init ==
  /\ cache = << >>
  /\ processed = 0
  /\ n_corrupted = 0
  /\ delivered = [m \in Modules |-> {}]
  /\ flawed = {}
  /\ dropped = << >>
  /\ published = << >>
  /\ good = {}

ReceiveFrom(m) ==
  \E id \in Images, loss \in PacketLoss : process_received_modules(m, id, loss)

Send == \E id \in Images : send_synchronized_images(id)

Next ==
  \/ \E m \in Modules : ReceiveFrom(m)
  \/ Send

Spec == Init /\ [][Next]_vars

\* The sending thread polls for ever; the detector may stop at any time.
FairSpec == Spec /\ WF_vars(Send)

-----------------------------------------------------------------------------

\* Type correctness of the Synchronizer's state and of the histories; the map
\* never holds more than n_images_buffer + 1 images, although the check in
\* push_new_image_to_queue comes before the insertion.
TypeOK ==
  /\ DOMAIN cache \subseteq Images
  /\ \A id \in DOMAIN cache :
       cache[id] \in [mask : SUBSET new_image_mask, flawed : BOOLEAN]
  /\ IsFiniteSet(DOMAIN cache)
  /\ Cardinality(DOMAIN cache) <= n_images_buffer + 1
  /\ processed \in 0 .. MaxFrames
  /\ n_corrupted \in 0 .. processed
  /\ delivered \in [Modules -> SUBSET Images]
  /\ flawed \subseteq Images
  /\ dropped \in Seq(Entries)
  /\ published \in Seq(Images)
  /\ good \subseteq Images

\* An image goes out only if each of the modules it waits for has pushed its
\* frame: late, repeated or evicted frames never add up to an incomplete one.
PublishedComplete ==
  \A i \in DOMAIN published : \A b \in new_image_mask :
    \E m \in Modules : Bit(m) = b /\ published[i] \in delivered[m]

\* Every image that process_image_metadata erases from the cache is counted
\* in its return value, so that the statistics never hide a loss.
LossesReported == Len(dropped) <= n_corrupted

HasAllFrames(id) ==
  \A b \in new_image_mask : \E m \in Modules : Bit(m) = b /\ id \in delivered[m]

\* Once all frames of an image have come, it is sent, unless the queue was too
\* long or an older image that is incomplete blocks the head of the cache.
CompleteImagesLeave ==
  \A id \in Images : HasAllFrames(id) ~>
    \/ \E i \in DOMAIN published : published[i] = id
    \/ \E i \in DOMAIN dropped : dropped[i].image_id = id
    \/ \E j \in DOMAIN cache : j < id /\ cache[j].mask # {}

\* acquisition.md: the image ids of the synchronizer are strictly increasing.
StrictlyIncreasing ==
  \A i, j \in DOMAIN published : i < j => published[i] < published[j]

\* acquisition.md: the images sent out are error-free; an image whose status is
\* good_image has no frame with missing packets.
GoodIsErrorFree == good \cap flawed = {}

ImageGroup(id) == id % n_groups

Abstract == INSTANCE ImageAssembly WITH
  Sources <- {m \in Modules : Bit(m) \in new_image_mask},
  SourceGroup <- Group,
  delivered <- [m \in {k \in Modules : Bit(k) \in new_image_mask} |-> delivered[m]]

\* The two threads and their cache implement the ordered assembly of images:
\* only complete images are sent, each once, in order within a module group.
Assembles == Abstract!Spec

=============================================================================
