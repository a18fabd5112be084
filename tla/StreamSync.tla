----------------------------- MODULE StreamSync -----------------------------
(***************************************************************************)
(* std_data_sync_stream: joins the parts of an image that several          *)
(* std_stream_receive services fetched from a remote host.  One thread     *)
(* receives the metadata of a part, feeds it to the Synchronizer and       *)
(* publishes the image its last part completes, so that one iteration of   *)
(* the loop is one action.  Unlike ModuleSync it counts parts and sends an *)
(* image the moment it is complete.                                        *)
(***************************************************************************)
EXTENDS Integers, Sequences, FiniteSets, Functions

CONSTANTS
  Parts,           \* the services that deliver a part of each image
  n_images_buffer, \* length of image_id_queue, 1000 in stream_sync.cpp
  Images           \* image ids

ASSUME ConstantsAssumption ==
  /\ IsFiniteSet(Parts) /\ Parts # {}
  /\ n_images_buffer \in Nat \ {0}
  /\ Images \subseteq Nat

VARIABLES
  image_id_queue, \* ids in the order in which their first part arrived
  meta_cache,     \* id -> number of parts received
  running,        \* FALSE once get_full_image has thrown
  delivered,      \* history: ids each part has been received for
  overflowed,     \* history: ids dropped because the queue was too long
  published       \* history: ids sent out

vars == <<image_id_queue, meta_cache, running, delivered, overflowed, published>>

n_parts == Cardinality(Parts)

Erase(c, ids) == [i \in DOMAIN c \ ids |-> c[i]]

Store(c, id, count) ==
  [i \in DOMAIN c \cup {id} |-> IF i = id THEN count ELSE c[i]]

is_new_image(id) == id \notin DOMAIN meta_cache

is_queue_too_long(q) == Len(q) > n_images_buffer

-----------------------------------------------------------------------------
(* A receiver reads one socket: its images come in increasing order, and   *)
(* any of them may be lost.                                                *)

MayDeliver(p, id) == \A i \in delivered[p] : i < id

Arrive(p, id) ==
  /\ MayDeliver(p, id)
  /\ delivered' = [delivered EXCEPT ![p] = @ \cup {id}]

-----------------------------------------------------------------------------
(* The Synchronizer.                                                       *)

\* Queue, cache and dropped ids after the first part of an image.
push_new_image_to_queue(id) ==
  LET q == Append(image_id_queue, id)
      c == Store(meta_cache, id, 0)
  IN  IF is_queue_too_long(q)
      THEN [queue |-> Tail(q), cache |-> Erase(c, {Head(q)}), dropped |-> {Head(q)}]
      ELSE [queue |-> q, cache |-> c, dropped |-> {}]

Unchanged ==
  [queue |-> image_id_queue, cache |-> meta_cache, dropped |-> {}]

AfterPush(id) == IF is_new_image(id) THEN push_new_image_to_queue(id) ELSE Unchanged

\* Slip: the loop goes on until the image itself is discarded.
discard_through(q, id, n) == n > 0 /\ q[n] = id

\* The image that has just become complete is taken out with all images
\* that were queued before it; n is the number of those.
discard_stale_images(q, id, n) ==
  /\ \A j \in 1 .. n : q[j] # id
  /\ n < Len(q) => q[n + 1] = id

\* Slip: completing an image empties the whole queue.
get_full_image_alone(q, c, id) ==
  /\ image_id_queue' = << >>
  /\ meta_cache' = << >>
  /\ published' = Append(published, id)
  /\ UNCHANGED running

\* "Impossible?!": an exception ends the service if the queue is exhausted.
get_full_image(q, c, id) ==
  \E n \in 0 .. Len(q) :
    LET older == {q[j] : j \in 1 .. n}
        found == n < Len(q)
    IN  /\ discard_stale_images(q, id, n)
        /\ image_id_queue' = SubSeq(q, n + 2, Len(q))
        /\ meta_cache' = Erase(c, IF found THEN older \cup {id} ELSE older)
        /\ published' = IF found THEN Append(published, id) ELSE published
        /\ running' = found

\* Slip: an image with one part missing counts as full.
process_one_part_short(id) ==
  LET pushed == AfterPush(id)
      count  == pushed.cache[id] + 1
  IN  /\ overflowed' = overflowed \cup pushed.dropped
      /\ \/ /\ count + 1 = n_parts
            /\ get_full_image(pushed.queue, Store(pushed.cache, id, count), id)
         \/ /\ count + 1 # n_parts
            /\ image_id_queue' = pushed.queue
            /\ meta_cache' = Store(pushed.cache, id, count)
            /\ UNCHANGED <<running, published>>

process_image_metadata(id) ==
  LET pushed == AfterPush(id)
      count  == pushed.cache[id] + 1
  IN  /\ overflowed' = overflowed \cup pushed.dropped
      /\ \/ /\ count = n_parts
            /\ get_full_image(pushed.queue, Store(pushed.cache, id, count), id)
         \/ /\ count # n_parts
            /\ image_id_queue' = pushed.queue
            /\ meta_cache' = Store(pushed.cache, id, count)
            /\ UNCHANGED <<running, published>>

receive(p, id) ==
  /\ running
  /\ Arrive(p, id)
  /\ process_image_metadata(id)

-----------------------------------------------------------------------------

Init ==
  /\ image_id_queue = << >>
  /\ meta_cache = << >>
  /\ running = TRUE
  /\ delivered = [p \in Parts |-> {}]
  /\ overflowed = {}
  /\ published = << >>

ReceiveFrom(p) == \E id \in Images : receive(p, id)

Next == \E p \in Parts : ReceiveFrom(p)

Spec == Init /\ [][Next]_vars

-----------------------------------------------------------------------------

\* Type correctness; the map only holds images that are begun and incomplete.
TypeOK ==
  /\ image_id_queue \in Seq(Images)
  /\ DOMAIN meta_cache \subseteq Images
  /\ \A id \in DOMAIN meta_cache : meta_cache[id] \in 1 .. n_parts - 1
  /\ running \in BOOLEAN
  /\ delivered \in [Parts -> SUBSET Images]
  /\ overflowed \subseteq Images
  /\ published \in Seq(Images)

\* Queue and map describe the same images, each of them once, and the queue is
\* bounded: meta_cache.find(id) and image_id_queue.front() rely on it.
Coherent ==
  /\ DOMAIN meta_cache = Range(image_id_queue)
  /\ \A i, j \in DOMAIN image_id_queue : image_id_queue[i] = image_id_queue[j] => i = j
  /\ Len(image_id_queue) <= n_images_buffer

\* The exception "No images to return. Impossible?!" is never thrown.
NeverThrows == running

\* An image is sent only when each of its parts has been received for it.
PublishedComplete ==
  \A i \in DOMAIN published : \A p \in Parts : published[i] \in delivered[p]

\* An image that every receiver has delivered is sent, unless the queue was too
\* long: discarding the images queued before a complete one never costs an
\* image that a slow receiver would still have completed.
CompleteIsSent ==
  \A id \in Images :
    (\A p \in Parts : id \in delivered[p]) => id \in Range(published) \cup overflowed

OneGroup(s) == 0

Abstract == INSTANCE ImageAssembly WITH
  Sources <- Parts, SourceGroup <- OneGroup, ImageGroup <- OneGroup

\* Counting parts implements the ordered assembly of images.
Assembles == Abstract!Spec

=============================================================================
