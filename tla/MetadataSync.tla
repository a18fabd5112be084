---------------------------- MODULE MetadataSync ----------------------------
(***************************************************************************)
(* std_data_sync_metadata: the synchronizer of the second way of           *)
(* forwarding.  Whole images arrive over several connections in any order, *)
(* their metadata over another connection in order of image id; an image   *)
(* goes out when both have come, in the order of the metadata.             *)
(*                                                                         *)
(* Three threads share the Synchronizer.  add_metadata holds               *)
(* mutex_metadata, get_next_received_image both mutexes, each from start   *)
(* to end: one action each.  add_received_image holds mutex_images only    *)
(* and reads the first key of metadata_cache without its lock: the lookup  *)
(* of begin() and the read through it are two actions, between which       *)
(* add_metadata may run.                                                   *)
(***************************************************************************)
EXTENDS Integers, Sequences, FiniteSets

CONSTANTS
  Images,          \* image ids
  n_images_buffer  \* metadata that can wait (10000 in main)

ASSUME MetadataAssumption ==
  /\ Images \subseteq Nat
  /\ n_images_buffer \in Nat \ {0}

\* begin() of an empty map: the address of the map's own header.
Header == -1

Idle == [id |-> Header, begin |-> Header]

VARIABLES
  metadata_cache,   \* keys of the map
  received_images,  \* the set of image ids
  adding,           \* the image thread inside add_received_image, or Idle
  sent,             \* ids sent to the services, oldest first
  announced,        \* history: ids whose metadata has come
  arrived,          \* history: ids whose image has come
  evicted,          \* history: ids whose metadata was dropped
  raced             \* history: ids lost to the unlocked read

sync_vars == <<metadata_cache, received_images, adding, sent,
               announced, arrived, evicted, raced>>

IsFirst(i, s) == i \in s /\ \A j \in s : i <= j

First(s) == {i \in s : IsFirst(i, s)}

-----------------------------------------------------------------------------

\* The thread of the metadata stream.  The return value goes to the statistics.
add_metadata(id) ==
  LET grown == metadata_cache \cup {id}
      gone  == IF Cardinality(grown) > n_images_buffer THEN First(grown) ELSE {}
  IN  /\ metadata_cache' = grown \ gone
      /\ announced' = announced \cup {id}
      /\ evicted' = evicted \cup gone
      /\ UNCHANGED <<received_images, adding, sent, arrived, raced>>

\* The thread of the image stream takes mutex_images, inserts the id and looks
\* up metadata_cache.begin().
add_received_image(id) ==
  /\ adding = Idle
  /\ received_images' = received_images \cup {id}
  /\ arrived' = arrived \cup {id}
  /\ \E b \in IF metadata_cache = {} THEN {Header} ELSE First(metadata_cache) :
       adding' = [id |-> id, begin |-> b]
  /\ UNCHANGED <<metadata_cache, sent, announced, evicted, raced>>

\* What begin()->first can read.  In the header of the map the size of the map
\* lies where a node has its key; an erased node keeps its key until a later
\* node takes its memory.
FirstKey ==
  IF adding.begin = Header THEN {Cardinality(metadata_cache)}
  ELSE {adding.begin} \cup (IF adding.begin \in metadata_cache THEN {} ELSE metadata_cache)

\* Slip: erase(begin, upper_bound(...)).
erase_up_to_first ==
  /\ adding # Idle
  /\ \E key \in FirstKey : received_images' = {i \in received_images : i > key}
  /\ adding' = Idle
  /\ UNCHANGED <<metadata_cache, sent, announced, arrived, evicted, raced>>

\* received_images.erase(begin, lower_bound(...)), and the mutex is released.
erase_older_images ==
  /\ adding # Idle
  /\ \E key \in FirstKey :
       LET gone == {i \in received_images : i < key}
       IN  /\ received_images' = received_images \ gone
           /\ raced' = raced \cup {i \in gone : \E j \in metadata_cache : j <= i}
  /\ adding' = Idle
  /\ UNCHANGED <<metadata_cache, sent, announced, arrived, evicted>>

\* Slip: any metadata whose image has come, not only the first of both.
get_any_received_image(id) ==
  /\ adding = Idle
  /\ id \in metadata_cache \cap received_images
  /\ metadata_cache' = metadata_cache \ {id}
  /\ received_images' = received_images \ {id}
  /\ sent' = Append(sent, id)
  /\ UNCHANGED <<adding, announced, arrived, evicted, raced>>

\* Slip: the last metadata is held back.
get_all_but_last(id) ==
  /\ adding = Idle
  /\ Cardinality(metadata_cache) > 1
  /\ IsFirst(id, metadata_cache)
  /\ IsFirst(id, received_images)
  /\ metadata_cache' = metadata_cache \ {id}
  /\ received_images' = received_images \ {id}
  /\ sent' = Append(sent, id)
  /\ UNCHANGED <<adding, announced, arrived, evicted, raced>>

\* The sending thread: both queues must begin with the same id.
get_next_received_image(id) ==
  /\ adding = Idle
  /\ IsFirst(id, metadata_cache)
  /\ IsFirst(id, received_images)
  /\ metadata_cache' = metadata_cache \ {id}
  /\ received_images' = received_images \ {id}
  /\ sent' = Append(sent, id)
  /\ UNCHANGED <<adding, announced, arrived, evicted, raced>>

-----------------------------------------------------------------------------

SyncInit ==
  /\ metadata_cache = {}
  /\ received_images = {}
  /\ adding = Idle
  /\ sent = << >>
  /\ announced = {}
  /\ arrived = {}
  /\ evicted = {}
  /\ raced = {}

\* What the connections guarantee: metadata in order, every image once.
SyncNext ==
  \/ \E id \in Images : (\A i \in announced : i < id) /\ add_metadata(id)
  \/ \E id \in Images : id \notin arrived /\ add_received_image(id)
  \/ erase_older_images
  \/ \E id \in Images : get_next_received_image(id)

SyncSpec == SyncInit /\ [][SyncNext]_sync_vars

-----------------------------------------------------------------------------

\* Type correctness; the metadata never exceeds its limit.
SyncTypeOK ==
  /\ metadata_cache \subseteq Images
  /\ IsFiniteSet(metadata_cache)
  /\ Cardinality(metadata_cache) <= n_images_buffer
  /\ received_images \subseteq Images
  /\ adding \in [id : Images, begin : Images \cup {Header}] \cup {Idle}
  /\ sent \in Seq(Images)
  /\ announced \subseteq Images
  /\ arrived \subseteq Images
  /\ evicted \subseteq Images
  /\ raced \subseteq Images

Sent == {sent[i] : i \in DOMAIN sent}

\* forwarding.md: images are arranged "in strict order".  An image is sent only
\* when its metadata and its data have come, once, and after all older ones,
\* whatever the order in which the connections deliver.
StrictOrder ==
  /\ Sent \subseteq announced \cap arrived
  /\ \A i, j \in DOMAIN sent : i < j => sent[i] < sent[j]

\* An image whose metadata and data have both come is sent, or waits in both
\* queues, or its metadata was dropped because too many waited: the clean-up
\* of add_received_image discards no image that could still be matched.  The
\* exception is what the unlocked read of metadata_cache makes it discard.
NothingMislaid ==
  announced \cap arrived \subseteq
    Sent \cup (metadata_cache \cap received_images) \cup evicted \cup raced
=============================================================================
