-------------------------- MODULE ModuleSyncProofs --------------------------
(***************************************************************************)
(* What holds of the module synchronizer for any number of modules, any    *)
(* mask, any queue size and any set of image ids.                          *)
(***************************************************************************)
EXTENDS ModuleSync, TLAPS, FiniteSetTheorems, SequenceTheorems, WellFoundedInduction

\* A new image always waits for at least one module.
LEMMA MaskNotEmpty == new_image_mask # {}
<1>1. n_modules \in Nat /\ n_modules # 0
  BY ConstantsAssumption, Zenon
<1>2. 0 \in set_all(n_modules)
  BY <1>1 DEF set_all
<1> QED BY <1>2, Zenon DEF new_image_mask

\* A bit and a group of images determine the module.
LEMMA OneModule ==
  ASSUME NEW m \in Modules, NEW k \in Modules, Bit(m) = Bit(k), Group(m) = Group(k)
  PROVE  m = k
<1>1. /\ m \in Nat /\ k \in Nat
      /\ n_modules \in Nat /\ n_modules > 0
  BY ConstantsAssumption
<1>2. /\ m = n_modules * Group(m) + Bit(m)
      /\ k = n_modules * Group(k) + Bit(k)
  BY <1>1, SMT DEF Group, Bit
<1> QED BY <1>1, <1>2, Zenon

-----------------------------------------------------------------------------
(* The map operations.                                                     *)

\* Erasing a set of ids that holds at least one cached id makes room.
LEMMA EraseFits ==
  ASSUME NEW c, NEW ids, IsFiniteSet(DOMAIN c)
  PROVE  /\ DOMAIN Erase(c, ids) = DOMAIN c \ ids
         /\ \A i \in DOMAIN c \ ids : Erase(c, ids)[i] = c[i]
         /\ IsFiniteSet(DOMAIN Erase(c, ids))
         /\ Cardinality(DOMAIN Erase(c, ids)) <= Cardinality(DOMAIN c)
         /\ \A id \in ids \cap DOMAIN c :
              Cardinality(DOMAIN Erase(c, ids)) < Cardinality(DOMAIN c)
<1>1. /\ DOMAIN Erase(c, ids) = DOMAIN c \ ids
      /\ \A i \in DOMAIN c \ ids : Erase(c, ids)[i] = c[i]
  BY Zenon DEF Erase
<1>2. /\ IsFiniteSet(DOMAIN c \ ids)
      /\ Cardinality(DOMAIN c \ ids) <= Cardinality(DOMAIN c)
      /\ Cardinality(DOMAIN c \ ids) = Cardinality(DOMAIN c) => DOMAIN c \ ids = DOMAIN c
  BY FS_Subset, Zenon
<1>3. Cardinality(DOMAIN c) \in Nat /\ Cardinality(DOMAIN c \ ids) \in Nat
  BY <1>2, FS_CardinalityType, Zenon
<1>4. ASSUME NEW id \in ids \cap DOMAIN c
      PROVE  Cardinality(DOMAIN c \ ids) < Cardinality(DOMAIN c)
  BY <1>2, <1>3, <1>4
<1> QED BY <1>1, <1>2, <1>4, Zenon

\* Storing an entry adds at most one id.
LEMMA StoreFits ==
  ASSUME NEW c, NEW id, NEW e, IsFiniteSet(DOMAIN c)
  PROVE  /\ DOMAIN Store(c, id, e) = DOMAIN c \cup {id}
         /\ Store(c, id, e)[id] = e
         /\ \A i \in DOMAIN c : i # id => Store(c, id, e)[i] = c[i]
         /\ IsFiniteSet(DOMAIN Store(c, id, e))
         /\ Cardinality(DOMAIN Store(c, id, e)) <= Cardinality(DOMAIN c) + 1
<1>1. /\ DOMAIN Store(c, id, e) = DOMAIN c \cup {id}
      /\ Store(c, id, e)[id] = e
      /\ \A i \in DOMAIN c : i # id => Store(c, id, e)[i] = c[i]
  BY Zenon DEF Store
<1>2. /\ IsFiniteSet(DOMAIN c \cup {id})
      /\ \/ Cardinality(DOMAIN c \cup {id}) = Cardinality(DOMAIN c)
         \/ Cardinality(DOMAIN c \cup {id}) = Cardinality(DOMAIN c) + 1
  BY FS_AddElement, Zenon
<1>3. Cardinality(DOMAIN c) \in Nat
  BY FS_CardinalityType, Zenon
<1> QED BY <1>1, <1>2, <1>3

\* A map of image ids that is not empty has a first element.
LEMMA BeginExists ==
  ASSUME NEW c, DOMAIN c \subseteq Nat, DOMAIN c # {}
  PROVE  Begin(c) # {}
<1>1. \E id \in DOMAIN c : \A j \in DOMAIN c : ~(<<j, id>> \in OpToRel(<, Nat))
  BY NatLessThanWellFounded, WFMin, Zenon
<1>2. \A i, j \in DOMAIN c : ~(<<j, i>> \in OpToRel(<, Nat)) => i <= j
  BY DEF OpToRel
<1> QED BY <1>1, <1>2, Zenon DEF Begin, IsBegin

-----------------------------------------------------------------------------
(* Type correctness.                                                       *)

\* What is recorded of an erased entry is at most one entry.
LEMMA AsDroppedType ==
  ASSUME TypeOK, NEW ids, ids \subseteq DOMAIN cache
  PROVE  /\ AsDropped(cache, ids) \in Seq(Entries)
         /\ Len(AsDropped(cache, ids)) = IF ids = {} THEN 0 ELSE 1
<1>1. CASE ids = {}
  BY <1>1 DEF AsDropped
<1>2. CASE ids # {}
  <2> DEFINE id == CHOOSE i \in ids : TRUE
             e  == [image_id |-> id, mask |-> cache[id].mask, flawed |-> cache[id].flawed]
  <2>1. id \in ids
    BY <1>2, Zenon
  <2>2. e \in Entries
    BY <2>1, Zenon DEF TypeOK, Entries
  <2>3. AsDropped(cache, ids) = << e >>
    BY <1>2, Zenon DEF AsDropped
  <2> HIDE DEF e
  <2> QED BY <1>2, <2>2, <2>3
<1> QED BY <1>1, <1>2, Zenon

LEMMA TypeInit == Init => TypeOK
<1> SUFFICES ASSUME Init PROVE TypeOK
  OBVIOUS
<1>1. DOMAIN cache = {}
  BY DEF Init
<1>2. IsFiniteSet(DOMAIN cache) /\ Cardinality(DOMAIN cache) = 0
  BY <1>1, FS_EmptySet, Zenon
<1> QED BY <1>1, <1>2, ConstantsAssumption DEF Init, TypeOK

LEMMA TypePush ==
  ASSUME TypeOK, NEW m \in Modules, NEW id \in Images, NEW loss \in PacketLoss,
         Arrive(m, id, loss), is_new_image(id), push_new_image_to_queue(m, id, loss),
         UNCHANGED output
  PROVE  TypeOK'
<1> DEFINE evicted == IF is_queue_too_long(cache) THEN Begin(cache) ELSE {}
           kept    == Erase(cache, evicted)
           entry   == [mask |-> new_image_mask \ {Bit(m)}, flawed |-> loss]
<1>1. /\ cache' = Store(kept, id, entry)
      /\ dropped' = dropped \o AsDropped(cache, evicted)
      /\ stats_process(IF is_queue_too_long(cache') THEN 1 ELSE 0)
  BY Zenon DEF push_new_image_to_queue
<1>2. evicted \subseteq DOMAIN cache /\ DOMAIN cache \subseteq Nat
  BY ConstantsAssumption, Zenon DEF Begin, TypeOK
<1>3. /\ IsFiniteSet(DOMAIN cache)
      /\ Cardinality(DOMAIN cache) \in Nat
      /\ Cardinality(DOMAIN cache) <= n_images_buffer + 1
  BY FS_CardinalityType, Zenon DEF TypeOK
<1>4. is_queue_too_long(cache) => evicted # {}
  <2> SUFFICES ASSUME is_queue_too_long(cache) PROVE Begin(cache) # {}
    OBVIOUS
  <2>1. DOMAIN cache # {}
    BY <1>3, FS_EmptySet, ConstantsAssumption DEF is_queue_too_long
  <2> QED BY <1>2, <2>1, BeginExists, Zenon
<1> HIDE DEF evicted
<1>5. /\ DOMAIN kept = DOMAIN cache \ evicted
      /\ \A i \in DOMAIN cache \ evicted : kept[i] = cache[i]
      /\ IsFiniteSet(DOMAIN kept)
      /\ Cardinality(DOMAIN kept) <= Cardinality(DOMAIN cache)
      /\ is_queue_too_long(cache) => Cardinality(DOMAIN kept) < Cardinality(DOMAIN cache)
  BY <1>2, <1>3, <1>4, EraseFits, Zenon
<1>6. Cardinality(DOMAIN kept) \in Nat /\ Cardinality(DOMAIN kept) <= n_images_buffer
  BY <1>3, <1>5, FS_CardinalityType, ConstantsAssumption DEF is_queue_too_long
<1> HIDE DEF kept, entry
<1>7. /\ DOMAIN cache' = DOMAIN kept \cup {id}
      /\ cache'[id] = entry
      /\ \A i \in DOMAIN kept : i # id => cache'[i] = kept[i]
      /\ IsFiniteSet(DOMAIN cache')
      /\ Cardinality(DOMAIN cache') <= Cardinality(DOMAIN kept) + 1
  <2> DEFINE stored == Store(kept, id, entry)
  <2>1. /\ DOMAIN stored = DOMAIN kept \cup {id}
        /\ stored[id] = entry
        /\ \A i \in DOMAIN kept : i # id => stored[i] = kept[i]
        /\ IsFiniteSet(DOMAIN stored)
        /\ Cardinality(DOMAIN stored) <= Cardinality(DOMAIN kept) + 1
    BY <1>5, StoreFits, ZenonT(40)
  <2>2. cache' = stored
    BY <1>1, Zenon
  <2> HIDE DEF stored
  <2> QED BY <2>1, <2>2, Zenon
<1>8. Cardinality(DOMAIN cache') <= n_images_buffer + 1
  BY <1>6, <1>7, FS_CardinalityType, ConstantsAssumption
<1>9. entry \in [mask : SUBSET new_image_mask, flawed : BOOLEAN]
  BY ConstantsAssumption, Zenon DEF entry
<1>10. \A i \in DOMAIN cache' :
         cache'[i] \in [mask : SUBSET new_image_mask, flawed : BOOLEAN]
  BY <1>5, <1>7, <1>9, SMTT(40) DEF TypeOK
<1>11. dropped' \in Seq(Entries)
  BY <1>1, <1>2, AsDroppedType, SMTT(40) DEF TypeOK
<1>12. processed' \in 0 .. MaxFrames /\ n_corrupted' \in 0 .. processed'
  BY <1>1, ConstantsAssumption, SMTT(30) DEF stats_process, TypeOK
<1>13. delivered' \in [Modules -> SUBSET Images] /\ flawed' \subseteq Images
  BY Zenon DEF Arrive, TypeOK
<1>14. DOMAIN cache' \subseteq Images
  BY <1>5, <1>7, Zenon DEF TypeOK
<1> QED BY <1>7, <1>8, <1>10, <1>11, <1>12, <1>13, <1>14, SMTT(40) DEF TypeOK, output, new_image_mask, Entries

LEMMA TypeUpdate ==
  ASSUME TypeOK, NEW m \in Modules, NEW id \in Images, NEW loss \in PacketLoss,
         Arrive(m, id, loss), ~is_new_image(id), update_module_mask_for_image(m, id),
         UNCHANGED output
  PROVE  TypeOK'
<1>1. delivered' \in [Modules -> SUBSET Images] /\ flawed' \subseteq Images
  BY Zenon DEF Arrive, TypeOK
<1>2. id \in DOMAIN cache
  BY Zenon DEF is_new_image
<1>3. CASE /\ Bit(m) \in cache[id].mask
           /\ cache' = [cache EXCEPT ![id].mask = @ \ {Bit(m)}]
           /\ stats_process(0)
           /\ UNCHANGED dropped
  <2>1. DOMAIN cache' = DOMAIN cache
    BY <1>3, Zenon
  <2>2. \A i \in DOMAIN cache' :
          cache'[i] \in [mask : SUBSET new_image_mask, flawed : BOOLEAN]
    BY <1>2, <1>3 DEF TypeOK
  <2>3. processed' \in 0 .. MaxFrames /\ n_corrupted' \in 0 .. processed'
    BY <1>3, ConstantsAssumption, SMTT(30) DEF stats_process, TypeOK
  <2> QED BY <1>1, <1>3, <2>1, <2>2, <2>3, ZenonT(40) DEF TypeOK, output, new_image_mask, Entries
<1>4. CASE /\ Bit(m) \notin cache[id].mask
           /\ cache' = Erase(cache, {id})
           /\ dropped' = dropped \o AsDropped(cache, {id})
           /\ stats_process(1)
  <2>1. /\ DOMAIN cache' = DOMAIN cache \ {id}
        /\ \A i \in DOMAIN cache \ {id} : cache'[i] = cache[i]
        /\ IsFiniteSet(DOMAIN cache')
        /\ Cardinality(DOMAIN cache') <= Cardinality(DOMAIN cache)
    BY <1>4, EraseFits, ZenonT(30) DEF TypeOK
  <2>2. Cardinality(DOMAIN cache') <= n_images_buffer + 1
    BY <2>1, FS_CardinalityType, ConstantsAssumption, SMTT(40) DEF TypeOK
  <2>3. dropped' \in Seq(Entries)
    BY <1>2, <1>4, AsDroppedType DEF TypeOK
  <2>4. processed' \in 0 .. MaxFrames /\ n_corrupted' \in 0 .. processed'
    BY <1>4, ConstantsAssumption, SMTT(30) DEF stats_process, TypeOK
  <2> QED BY <1>1, <2>1, <2>2, <2>3, <2>4, Zenon DEF TypeOK, output, new_image_mask, Entries
<1> QED BY <1>3, <1>4, Zenon DEF update_module_mask_for_image

LEMMA TypeSend ==
  ASSUME TypeOK, NEW id \in Images, send_synchronized_images(id)
  PROVE  TypeOK'
<1>1. /\ cache' = Erase(cache, {id})
      /\ published' = Append(published, id)
      /\ good' \subseteq Images
      /\ UNCHANGED <<stats, input, dropped>>
  BY Zenon DEF send_synchronized_images, pop_next_full_image, TypeOK
<1>2. /\ DOMAIN cache' = DOMAIN cache \ {id}
      /\ \A i \in DOMAIN cache \ {id} : cache'[i] = cache[i]
      /\ IsFiniteSet(DOMAIN cache')
      /\ Cardinality(DOMAIN cache') <= Cardinality(DOMAIN cache)
  BY <1>1, EraseFits, Zenon DEF TypeOK
<1>3. Cardinality(DOMAIN cache') <= n_images_buffer + 1
  BY <1>2, FS_CardinalityType, ConstantsAssumption, SMTT(40) DEF TypeOK
<1>4. published' \in Seq(Images)
  BY <1>1 DEF TypeOK
<1> QED BY <1>1, <1>2, <1>3, <1>4, Zenon DEF TypeOK, stats, input, new_image_mask, Entries

LEMMA TypeNext == TypeOK /\ [Next]_vars => TypeOK'
<1> SUFFICES ASSUME TypeOK, [Next]_vars PROVE TypeOK'
  OBVIOUS
<1>1. ASSUME NEW m \in Modules, ReceiveFrom(m) PROVE TypeOK'
  <2>1. PICK id \in Images, loss \in PacketLoss : process_received_modules(m, id, loss)
    BY <1>1, Zenon DEF ReceiveFrom
  <2> QED BY <2>1, TypePush, TypeUpdate, Zenon DEF process_received_modules, process_image_metadata
<1>2. CASE Send
  BY <1>2, TypeSend, Zenon DEF Send
<1>3. CASE UNCHANGED vars
  BY <1>3, Zenon DEF vars, stats, input, output, TypeOK, new_image_mask, Entries
<1> QED BY <1>1, <1>2, <1>3, Zenon DEF Next

\* The synchronizer's state keeps its type, and its map its bound, for any
\* queue size and any delivery of frames.
THEOREM TypeCorrect == Spec => []TypeOK
BY TypeInit, TypeNext, PTL DEF Spec

-----------------------------------------------------------------------------
(* Completeness of what is published.                                      *)

\* Receiving a frame touches the entry of its image only: it clears one bit
\* there, in a fresh mask if the image is new, and may erase other entries.
LEMMA ReceiveCache ==
  ASSUME TypeOK, NEW m \in Modules, NEW id \in Images, NEW loss \in PacketLoss,
         process_received_modules(m, id, loss),
         NEW i \in DOMAIN cache'
  PROVE  \/ i \in DOMAIN cache /\ cache'[i] = cache[i]
         \/ /\ i = id
            /\ id \notin DOMAIN cache
            /\ cache'[i].mask = new_image_mask \ {Bit(m)}
         \/ /\ i = id
            /\ id \in DOMAIN cache
            /\ Bit(m) \in cache[id].mask
            /\ cache'[i].mask = cache[id].mask \ {Bit(m)}
<1>1. CASE is_new_image(id) /\ push_new_image_to_queue(m, id, loss)
  BY <1>1, Zenon DEF is_new_image, push_new_image_to_queue, Store, Erase
<1>2. CASE ~is_new_image(id) /\ update_module_mask_for_image(m, id)
  <2>1. CASE /\ Bit(m) \in cache[id].mask
             /\ cache' = [cache EXCEPT ![id].mask = @ \ {Bit(m)}]
    BY <1>2, <2>1, Zenon DEF is_new_image, TypeOK
  <2>2. CASE cache' = Erase(cache, {id})
    BY <2>2, Zenon DEF Erase
  <2> QED BY <1>2, <2>1, <2>2, Zenon DEF update_module_mask_for_image
<1> QED BY <1>1, <1>2, Zenon DEF process_received_modules, process_image_metadata

\* Sending an image erases its entry, the first and full one, and no other.
LEMMA SendCache ==
  ASSUME TypeOK, NEW id \in Images, send_synchronized_images(id)
  PROVE  /\ id \in DOMAIN cache /\ cache[id].mask = {}
         /\ DOMAIN cache' = DOMAIN cache \ {id}
         /\ \A i \in DOMAIN cache' : cache'[i] = cache[i] /\ id < i
         /\ published' = Append(published, id)
         /\ delivered' = delivered
BY ConstantsAssumption
   DEF send_synchronized_images, pop_next_full_image, IsBegin, Erase, TypeOK, input

\* A bit that is clear in a cached mask belongs to a frame that has arrived.
Cleared ==
  \A id \in DOMAIN cache : \A b \in new_image_mask \ cache[id].mask :
    \E m \in Modules : Bit(m) = b /\ id \in delivered[m]

CInv == TypeOK /\ Cleared /\ PublishedComplete

LEMMA CInvReceive ==
  ASSUME CInv, NEW m \in Modules, NEW id \in Images, NEW loss \in PacketLoss,
         process_received_modules(m, id, loss)
  PROVE  Cleared' /\ PublishedComplete'
<1>1. /\ delivered' = [delivered EXCEPT ![m] = @ \cup {id}]
      /\ published' = published
  BY Zenon DEF process_received_modules, Arrive, output
<1>2. /\ id \in delivered'[m]
      /\ \A k \in Modules : delivered[k] \subseteq delivered'[k]
  BY <1>1, Zenon DEF CInv, TypeOK
<1>3. Cleared'
  <2> SUFFICES ASSUME NEW i \in DOMAIN cache', NEW b \in new_image_mask \ cache'[i].mask
               PROVE  \E k \in Modules : Bit(k) = b /\ i \in delivered'[k]
    BY Zenon DEF Cleared, new_image_mask, Bit
  <2>1. CASE i \in DOMAIN cache /\ b \notin cache[i].mask
    BY <1>2, <2>1, Zenon DEF CInv, Cleared
  <2>2. CASE i = id /\ b = Bit(m)
    BY <1>2, <2>2, Zenon
  <2>3. \/ i \in DOMAIN cache /\ b \notin cache[i].mask
        \/ i = id /\ b = Bit(m)
    BY ReceiveCache DEF CInv
  <2> QED BY <2>1, <2>2, <2>3, Zenon
<1>4. PublishedComplete'
  BY <1>1, <1>2, Zenon DEF CInv, PublishedComplete, new_image_mask, Bit
<1> QED BY <1>3, <1>4, Zenon

LEMMA CInvSend ==
  ASSUME CInv, NEW id \in Images, send_synchronized_images(id)
  PROVE  Cleared' /\ PublishedComplete'
<1>1. /\ id \in DOMAIN cache /\ cache[id].mask = {}
      /\ DOMAIN cache' = DOMAIN cache \ {id}
      /\ \A i \in DOMAIN cache' : cache'[i] = cache[i]
      /\ published' = Append(published, id)
      /\ delivered' = delivered
  BY SendCache, Zenon DEF CInv
<1>2. Cleared'
  BY <1>1, Zenon DEF CInv, Cleared, new_image_mask, Bit
<1>3. \A b \in new_image_mask : \E m \in Modules : Bit(m) = b /\ id \in delivered[m]
  BY <1>1, Zenon DEF CInv, Cleared
<1>4. \A i \in DOMAIN published' :
        (i \in DOMAIN published /\ published'[i] = published[i]) \/ published'[i] = id
  BY <1>1 DEF CInv, TypeOK
<1>5. PublishedComplete'
  BY <1>1, <1>3, <1>4 DEF CInv, PublishedComplete, new_image_mask, Bit
<1> QED BY <1>2, <1>5, Zenon

LEMMA CInvNext == CInv /\ [Next]_vars => CInv'
<1> SUFFICES ASSUME CInv, [Next]_vars PROVE Cleared' /\ PublishedComplete'
  BY TypeNext, Zenon DEF CInv
<1>1. CASE \E m \in Modules : ReceiveFrom(m)
  BY <1>1, CInvReceive, Zenon DEF ReceiveFrom
<1>2. CASE Send
  BY <1>2, CInvSend, Zenon DEF Send
<1>3. CASE UNCHANGED vars
  BY <1>3, Zenon DEF vars, input, output, CInv, Cleared, PublishedComplete, new_image_mask, Bit
<1> QED BY <1>1, <1>2, <1>3, Zenon DEF Next

\* Whatever frames are lost, repeated or overtaken and whichever images are
\* evicted, an image is sent only after a frame of each of its modules.
THEOREM SentImagesAreComplete == Spec => []PublishedComplete
<1>1. Init => CInv
  BY TypeInit DEF Init, CInv, Cleared, PublishedComplete
<1>2. CInv => PublishedComplete
  BY Zenon DEF CInv
<1> QED BY <1>1, <1>2, CInvNext, PTL DEF Spec

-----------------------------------------------------------------------------
(* Order of what is published.                                             *)

\* Modules push only the images of their group.
Carried == \A m \in Modules : \A id \in delivered[m] : Carries(m, id)

\* Images carried by the same group of modules are sent in strictly increasing
\* order, hence once, whatever is lost, evicted or popped late.
GroupInOrder ==
  \A i, j \in DOMAIN published :
    i < j /\ published[i] % n_groups = published[j] % n_groups
      => published[i] < published[j]

\* An image of the same group as, and not newer than, a published one can only
\* be cached by a frame no image waits for: its mask is that of a new image.
Stale ==
  \A i \in DOMAIN published : \A id \in DOMAIN cache :
    id <= published[i] /\ id % n_groups = published[i] % n_groups
      => cache[id].mask = new_image_mask

OInv == CInv /\ Carried /\ Stale /\ GroupInOrder

\* Image ids are natural numbers wherever they are kept.
LEMMA IdsAreNatural ==
  ASSUME TypeOK
  PROVE  /\ published \in Seq(Images)
         /\ DOMAIN cache \subseteq Nat
         /\ \A i \in DOMAIN published : published[i] \in Nat
<1>1. published \in Seq(Images) /\ DOMAIN cache \subseteq Images
  BY Zenon DEF TypeOK
<1>2. \A i \in DOMAIN published : published[i] \in Images
  BY <1>1
<1> QED BY <1>1, <1>2, ConstantsAssumption, Zenon

\* A module whose frame an image waited for has moved past the published images
\* of its group and never again delivers one of them.
LEMMA NoLateFrame ==
  ASSUME Delivery = "in_order", OInv,
         NEW m \in Modules, NEW id \in Images, NEW loss \in PacketLoss,
         process_received_modules(m, id, loss),
         NEW i \in DOMAIN published,
         id <= published[i], id % n_groups = published[i] % n_groups
  PROVE  Bit(m) \notin new_image_mask
<1> SUFFICES ASSUME Bit(m) \in new_image_mask PROVE FALSE
  OBVIOUS
<1>1. PICK k \in Modules : Bit(k) = Bit(m) /\ published[i] \in delivered[k]
  BY Zenon DEF OInv, CInv, PublishedComplete
<1>2. Carries(m, id) /\ \A j \in delivered[m] : j < id
  BY Zenon DEF process_received_modules, Arrive, MayDeliver
<1>3. Carries(k, published[i])
  BY <1>1, Zenon DEF OInv, Carried
<1>4. Group(k) = Group(m)
  BY <1>2, <1>3, Zenon DEF Carries
<1>5. k = m
  BY <1>1, <1>4, OneModule, Zenon
<1>6. published[i] \in Nat /\ id \in Nat
  BY IdsAreNatural, ConstantsAssumption, Zenon DEF OInv, CInv
<1> QED BY <1>1, <1>2, <1>5, <1>6, SMTT(40)

LEMMA OInvReceive ==
  ASSUME Delivery = "in_order", OInv,
         NEW m \in Modules, NEW id \in Images, NEW loss \in PacketLoss,
         process_received_modules(m, id, loss)
  PROVE  Carried' /\ Stale' /\ GroupInOrder'
<1>1. /\ delivered' = [delivered EXCEPT ![m] = @ \cup {id}]
      /\ published' = published
      /\ Carries(m, id)
  BY Zenon DEF process_received_modules, Arrive, MayDeliver, output
<1>2. Carried'
  BY <1>1, Zenon DEF OInv, CInv, TypeOK, Carried, Carries, Group
<1>3. Stale'
  <2> SUFFICES ASSUME NEW i \in DOMAIN published, NEW j \in DOMAIN cache',
                      j <= published[i], j % n_groups = published[i] % n_groups
               PROVE  cache'[j].mask = new_image_mask
    BY <1>1, Zenon DEF Stale, new_image_mask
  <2>1. CASE j \in DOMAIN cache /\ cache'[j] = cache[j]
    BY <2>1, Zenon DEF OInv, Stale
  <2>2. CASE j = id /\ id \notin DOMAIN cache /\ cache'[j].mask = new_image_mask \ {Bit(m)}
    BY <2>2, NoLateFrame, Zenon
  <2>3. CASE j = id /\ id \in DOMAIN cache /\ Bit(m) \in cache[id].mask
    BY <2>3, NoLateFrame, Zenon DEF OInv, CInv, TypeOK
  <2> QED BY <2>1, <2>2, <2>3, ReceiveCache, Zenon DEF OInv, CInv
<1>4. GroupInOrder'
  BY <1>1, Zenon DEF OInv, GroupInOrder
<1> QED BY <1>2, <1>3, <1>4, Zenon

LEMMA OInvSend ==
  ASSUME OInv, NEW id \in Images, send_synchronized_images(id)
  PROVE  Carried' /\ Stale' /\ GroupInOrder'
<1>1. /\ id \in DOMAIN cache /\ cache[id].mask = {}
      /\ DOMAIN cache' = DOMAIN cache \ {id}
      /\ \A i \in DOMAIN cache' : cache'[i] = cache[i] /\ id < i
      /\ published' = Append(published, id)
      /\ delivered' = delivered
  BY SendCache, Zenon DEF OInv, CInv
<1>2. /\ published \in Seq(Images)
      /\ id \in Nat /\ DOMAIN cache \subseteq Nat
      /\ \A i \in DOMAIN published : published[i] \in Nat
  BY IdsAreNatural, ConstantsAssumption, Zenon DEF OInv, CInv
<1>3. \A i \in DOMAIN published' :
        \/ i \in DOMAIN published /\ published'[i] = published[i]
        \/ i = Len(published) + 1 /\ published'[i] = id
  BY <1>1, <1>2
<1>4. \A i \in DOMAIN published :
        published[i] % n_groups = id % n_groups => published[i] < id
  BY <1>1, <1>2, MaskNotEmpty DEF OInv, Stale
<1>5. Carried'
  BY <1>1, Zenon DEF OInv, Carried, Carries, Group
<1>6. Stale'
  <2> SUFFICES ASSUME NEW i \in DOMAIN published', NEW j \in DOMAIN cache',
                      j <= published'[i], j % n_groups = published'[i] % n_groups
               PROVE  cache'[j].mask = new_image_mask
    BY Zenon DEF Stale, new_image_mask
  <2>1. CASE i \in DOMAIN published /\ published'[i] = published[i]
    BY <1>1, <2>1, Zenon DEF OInv, Stale
  <2>2. CASE published'[i] = id
    BY <1>1, <1>2, <2>2
  <2> QED BY <1>3, <2>1, <2>2, Zenon
<1>7. GroupInOrder'
  <2> SUFFICES ASSUME NEW i \in DOMAIN published', NEW j \in DOMAIN published', i < j,
                      published'[i] % n_groups = published'[j] % n_groups
               PROVE  published'[i] < published'[j]
    BY Zenon DEF GroupInOrder
  <2>1. i \in DOMAIN published /\ published'[i] = published[i]
    BY <1>1, <1>2, <1>3
  <2>2. CASE j \in DOMAIN published /\ published'[j] = published[j]
    BY <2>1, <2>2, Zenon DEF OInv, GroupInOrder
  <2>3. CASE published'[j] = id
    BY <1>4, <2>1, <2>3, Zenon
  <2> QED BY <1>3, <2>2, <2>3, Zenon
<1> QED BY <1>5, <1>6, <1>7, Zenon

LEMMA OInvNext ==
  ASSUME Delivery = "in_order" PROVE OInv /\ [Next]_vars => OInv'
<1> SUFFICES ASSUME OInv, [Next]_vars PROVE Carried' /\ Stale' /\ GroupInOrder'
  BY CInvNext, Zenon DEF OInv
<1>1. CASE \E m \in Modules : ReceiveFrom(m)
  BY <1>1, OInvReceive, Zenon DEF ReceiveFrom
<1>2. CASE Send
  BY <1>2, OInvSend, Zenon DEF Send
<1>3. CASE UNCHANGED vars
  BY <1>3, Zenon DEF vars, input, output, OInv, Carried, Carries, Group, Stale, GroupInOrder, new_image_mask
<1> QED BY <1>1, <1>2, <1>3, Zenon DEF Next

LEMMA OInvInit == Init => OInv
<1>1. Init => CInv
  BY TypeInit DEF Init, CInv, Cleared, PublishedComplete
<1> QED BY <1>1 DEF Init, OInv, Carried, Stale, GroupInOrder

\* When no receiver reports an older image after a newer one, the images of a
\* group are sent in strictly increasing order, each at most once.
THEOREM SentInOrder ==
  ASSUME Delivery = "in_order" PROVE Spec => []GroupInOrder
<1>1. OInv => GroupInOrder
  BY Zenon DEF OInv
<1> QED BY <1>1, OInvInit, OInvNext, PTL DEF Spec

-----------------------------------------------------------------------------
(* The synchronizer implements the ordered assembly of images.             *)

Sources == {m \in Modules : Bit(m) \in new_image_mask}

LEMMA RefineReceive ==
  ASSUME Delivery = "in_order", OInv,
         NEW m \in Modules, NEW id \in Images, NEW loss \in PacketLoss,
         process_received_modules(m, id, loss)
  PROVE  [Abstract!Next]_(Abstract!vars)
<1> DEFINE seen == [k \in Sources |-> delivered[k]]
<1>1. /\ delivered' = [delivered EXCEPT ![m] = @ \cup {id}]
      /\ \A j \in delivered[m] : j < id
      /\ Group(m) = ImageGroup(id)
      /\ published' = published
      /\ delivered \in [Modules -> SUBSET Images]
  BY Zenon DEF process_received_modules, Arrive, MayDeliver, Carries, ImageGroup, output, OInv, CInv, TypeOK
<1>2. seen' = [k \in Sources |-> delivered'[k]]
  BY Zenon DEF Sources, new_image_mask, Bit
<1>3. CASE m \in Sources
  <2>1. seen' = [seen EXCEPT ![m] = @ \cup {id}]
    BY <1>1, <1>2, <1>3, Zenon DEF Sources
  <2>2. Abstract!Deliver(m, id) /\ UNCHANGED published
    BY <1>1, <1>3, <2>1, Zenon DEF Abstract!Deliver, Abstract!Carriers, Sources
  <2> QED BY <1>3, <2>2, Zenon DEF Abstract!Next, Sources
<1>4. CASE m \notin Sources
  <2>1. seen' = seen
    BY <1>1, <1>2, <1>4, Zenon DEF Sources
  <2> QED BY <1>1, <2>1, Zenon DEF Abstract!vars, Sources
<1> QED BY <1>3, <1>4, Zenon

LEMMA RefineSend ==
  ASSUME OInv, NEW id \in Images, send_synchronized_images(id)
  PROVE  Abstract!Next
<1> DEFINE seen == [k \in Sources |-> delivered[k]]
<1>1. /\ id \in DOMAIN cache /\ cache[id].mask = {}
      /\ published' = Append(published, id)
      /\ delivered' = delivered
  BY SendCache, Zenon DEF OInv, CInv
<1>2. seen' = seen
  BY <1>1, Zenon DEF Sources, new_image_mask, Bit
<1>3. \A b \in new_image_mask : \E m \in Modules :
        Bit(m) = b /\ id \in delivered[m] /\ Group(m) = ImageGroup(id)
  BY <1>1, Zenon DEF OInv, CInv, Cleared, Carried, Carries, ImageGroup
<1>4. \A m \in Sources : Group(m) = ImageGroup(id) => id \in delivered[m]
  BY <1>3, OneModule, Zenon DEF Sources
<1>5. \E m \in Sources : Group(m) = ImageGroup(id)
  BY <1>3, MaskNotEmpty, Zenon DEF Sources
<1>6. \A i \in DOMAIN published :
        ImageGroup(published[i]) = ImageGroup(id) => published[i] < id
  <2> SUFFICES ASSUME NEW i \in DOMAIN published, ImageGroup(published[i]) = ImageGroup(id)
               PROVE  published[i] < id
    OBVIOUS
  <2>1. published[i] \in Nat /\ id \in Nat
    BY IdsAreNatural, ConstantsAssumption, Zenon DEF OInv, CInv
  <2> QED BY <1>1, <2>1, MaskNotEmpty, SMTT(40) DEF OInv, Stale, ImageGroup
<1>7. Abstract!Complete(id)' /\ Abstract!Carriers(id) # {}
  BY <1>1, <1>2, <1>4, <1>5, Zenon
     DEF Abstract!Complete, Abstract!Carriers, Sources, new_image_mask, Bit, Group, ImageGroup
<1>8. Abstract!Newest(id)
  BY <1>6, Zenon DEF Abstract!Newest
<1>9. Abstract!Publish(id) /\ UNCHANGED seen
  BY <1>1, <1>2, <1>7, <1>8, Zenon DEF Abstract!Publish
<1> QED BY <1>9, Zenon DEF Abstract!Next, Sources

\* With frames that can be lost but not overtaken, the two threads and their
\* cache are an ordered assembly of images, for any sizes, any mask and any
\* number of module groups.
THEOREM ImplementsAssembly ==
  ASSUME Delivery = "in_order" PROVE Spec => Assembles
<1>1. Init => Abstract!Init
  BY Zenon DEF Init, Abstract!Init
<1>2. OInv /\ [Next]_vars => [Abstract!Next]_(Abstract!vars)
  <2> SUFFICES ASSUME OInv, [Next]_vars PROVE [Abstract!Next]_(Abstract!vars)
    OBVIOUS
  <2>1. CASE \E m \in Modules : ReceiveFrom(m)
    BY <2>1, RefineReceive, Zenon DEF ReceiveFrom
  <2>2. CASE Send
    BY <2>2, RefineSend, Zenon DEF Send
  <2>3. CASE UNCHANGED vars
    BY <2>3, Zenon DEF vars, input, output, Abstract!vars, new_image_mask, Bit
  <2> QED BY <2>1, <2>2, <2>3, Zenon DEF Next
<1> QED BY <1>1, <1>2, OInvInit, OInvNext, PTL DEF Spec, Assembles, Abstract!Spec

-----------------------------------------------------------------------------
(* The statistics.                                                         *)

\* The history of erased entries grows by what is recorded of them.
LEMMA DroppedGrows ==
  ASSUME TypeOK, NEW ids, ids \subseteq DOMAIN cache
  PROVE  Len(dropped \o AsDropped(cache, ids)) = Len(dropped) + IF ids = {} THEN 0 ELSE 1
<1> DEFINE d == AsDropped(cache, ids)
<1>1. d \in Seq(Entries) /\ Len(d) = IF ids = {} THEN 0 ELSE 1
  BY AsDroppedType, Zenon
<1>2. dropped \in Seq(Entries)
  BY Zenon DEF TypeOK
<1> HIDE DEF d
<1>3. Len(dropped \o d) = Len(dropped) + Len(d)
  BY <1>1, <1>2, ConcatProperties, Zenon
<1>4. Len(dropped \o d) = Len(dropped) + IF ids = {} THEN 0 ELSE 1
  BY <1>1, <1>3, Zenon
<1> QED BY <1>4, Zenon DEF d

LEMMA PushReports ==
  ASSUME TypeOK, LossesReported,
         NEW m \in Modules, NEW id \in Images, NEW loss \in PacketLoss,
         is_new_image(id), push_new_image_to_queue(m, id, loss)
  PROVE  LossesReported'
<1> DEFINE evicted == IF is_queue_too_long(cache) THEN Begin(cache) ELSE {}
           kept    == Erase(cache, evicted)
           entry   == [mask |-> new_image_mask \ {Bit(m)}, flawed |-> loss]
<1>1. /\ cache' = Store(kept, id, entry)
      /\ dropped' = dropped \o AsDropped(cache, evicted)
      /\ stats_process(IF is_queue_too_long(cache') THEN 1 ELSE 0)
  BY Zenon DEF push_new_image_to_queue
<1>2. evicted \subseteq DOMAIN cache
  BY Zenon DEF Begin
<1>3. is_queue_too_long(cache) => is_queue_too_long(cache')
  <2> SUFFICES ASSUME is_queue_too_long(cache) PROVE is_queue_too_long(cache')
    OBVIOUS
  <2>1. /\ IsFiniteSet(DOMAIN cache) /\ DOMAIN cache \subseteq Nat
        /\ Cardinality(DOMAIN cache) \in Nat
    BY FS_CardinalityType, ConstantsAssumption, Zenon DEF TypeOK
  <2>2. DOMAIN cache # {}
    BY <2>1, FS_EmptySet, ConstantsAssumption DEF is_queue_too_long
  <2>3. PICK b : evicted = {b} /\ b \in DOMAIN cache
    <3>1. PICK b : b \in Begin(cache)
      BY <2>1, <2>2, BeginExists, Zenon
    <3>2. \A x \in Begin(cache) : x = b
      BY <2>1, <3>1 DEF Begin, IsBegin
    <3>3. Begin(cache) = {b}
      BY <3>1, <3>2, Zenon
    <3> QED BY <3>1, <3>3, Zenon DEF Begin
  <2>4. /\ IsFiniteSet(DOMAIN cache \ {b})
        /\ Cardinality(DOMAIN cache \ {b}) = Cardinality(DOMAIN cache) - 1
    BY <2>1, <2>3, FS_RemoveElement, Zenon
  <2>5. DOMAIN cache' = (DOMAIN cache \ {b}) \cup {id}
    BY <1>1, <2>3, Zenon DEF Store, Erase
  <2>6. Cardinality(DOMAIN cache') = Cardinality(DOMAIN cache \ {b}) + 1
    BY <2>4, <2>5, FS_AddElement, Zenon DEF is_new_image
  <2> QED BY <2>1, <2>4, <2>6 DEF is_queue_too_long
<1>4. dropped \in Seq(Entries) /\ n_corrupted \in Nat
  BY ConstantsAssumption DEF TypeOK
<1> HIDE DEF evicted
<1>5. Len(dropped') = Len(dropped) + IF evicted = {} THEN 0 ELSE 1
  BY <1>1, <1>2, DroppedGrows, Zenon
<1>6. ~is_queue_too_long(cache) => evicted = {}
  BY Zenon DEF evicted
<1>7. n_corrupted' = n_corrupted + IF is_queue_too_long(cache') THEN 1 ELSE 0
  BY <1>1, Zenon DEF stats_process
<1> QED BY <1>3, <1>4, <1>5, <1>6, <1>7, SMTT(40) DEF LossesReported

LEMMA UpdateReports ==
  ASSUME TypeOK, LossesReported, NEW m \in Modules, NEW id \in Images,
         ~is_new_image(id), update_module_mask_for_image(m, id)
  PROVE  LossesReported'
<1>1. dropped \in Seq(Entries) /\ n_corrupted \in Nat /\ {id} \subseteq DOMAIN cache
  BY ConstantsAssumption DEF TypeOK, is_new_image
<1>2. CASE dropped' = dropped /\ n_corrupted' = n_corrupted + 0
  BY <1>1, <1>2 DEF LossesReported
<1>3. CASE dropped' = dropped \o AsDropped(cache, {id}) /\ n_corrupted' = n_corrupted + 1
  <2>1. Len(dropped') = Len(dropped) + 1
    BY <1>1, <1>3, DroppedGrows, {id} # {}, Zenon
  <2> QED BY <1>1, <1>3, <2>1 DEF LossesReported
<1> QED BY <1>2, <1>3, Zenon DEF update_module_mask_for_image, stats_process

\* No image leaves the cache unsent without being counted as corrupted.
THEOREM NoLossIsHidden == Spec => []LossesReported
<1>1. Init => LossesReported
  BY DEF Init, LossesReported
<1>2. TypeOK /\ LossesReported /\ [Next]_vars => LossesReported'
  <2> SUFFICES ASSUME TypeOK, LossesReported, [Next]_vars PROVE LossesReported'
    OBVIOUS
  <2>1. CASE \E m \in Modules : ReceiveFrom(m)
    BY <2>1, PushReports, UpdateReports, Zenon
       DEF ReceiveFrom, process_received_modules, process_image_metadata
  <2>2. CASE Send
    BY <2>2, Zenon DEF Send, send_synchronized_images, stats, LossesReported
  <2>3. CASE UNCHANGED vars
    BY <2>3, Zenon DEF vars, stats, LossesReported
  <2> QED BY <2>1, <2>2, <2>3, Zenon DEF Next
<1> QED BY <1>1, <1>2, TypeCorrect, PTL DEF Spec

=============================================================================
