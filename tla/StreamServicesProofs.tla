------------------------ MODULE StreamServicesProofs ------------------------
(***************************************************************************)
(* Two services that hand images on.  The stream synchronizer, for any     *)
(* number of parts, any queue length and any set of image ids, and the     *)
(* delay filter, for any number of slots, any history, any period and any  *)
(* number of images.                                                       *)
(***************************************************************************)
EXTENDS StreamSync, DelayFilter, TLAPS, FiniteSetTheorems, SequenceTheorems,
        WellFoundedInduction

(***************************************************************************)
(* The stream synchronizer.                                                *)
(***************************************************************************)

\* The receivers that have delivered their part of an image.
Have(id) == {p \in Parts : id \in delivered[p]}

\* A count never exceeds the number of parts received.
Counted == \A id \in DOMAIN meta_cache : meta_cache[id] <= Cardinality(Have(id))

IInv == TypeOK /\ Coherent /\ NeverThrows /\ Counted /\ PublishedComplete

Distinct(q) == \A i, j \in DOMAIN q : q[i] = q[j] => i = j

LEMMA PartsPositive == n_parts \in Nat \ {0}
BY ConstantsAssumption, FS_CardinalityType, FS_EmptySet, Zenon DEF n_parts

\* The number of receivers that have an image is at most that of all, and
\* equal to it only when all of them have it.
LEMMA HaveBound ==
  ASSUME NEW id
  PROVE  /\ IsFiniteSet(Have(id))
         /\ Cardinality(Have(id)) \in Nat
         /\ Cardinality(Have(id)) <= n_parts
         /\ Cardinality(Have(id)) = n_parts => \A p \in Parts : id \in delivered[p]
<1>1. Have(id) \subseteq Parts
  BY Zenon DEF Have
<1>2. /\ IsFiniteSet(Have(id))
      /\ Cardinality(Have(id)) <= Cardinality(Parts)
      /\ Cardinality(Have(id)) = Cardinality(Parts) => Have(id) = Parts
  BY <1>1, ConstantsAssumption, FS_Subset, Zenon
<1>3. Cardinality(Have(id)) \in Nat
  BY <1>2, FS_CardinalityType, Zenon
<1> QED BY <1>2, <1>3, Zenon DEF n_parts, Have

\* A part that arrives makes its receiver one more that has the image.
LEMMA HaveGrows ==
  ASSUME TypeOK, NEW p \in Parts, NEW id \in Images, Arrive(p, id)
  PROVE  /\ Cardinality(Have(id)') = Cardinality(Have(id)) + 1
         /\ \A i \in Images : i # id => Have(i)' = Have(i)
<1>1. /\ delivered \in [Parts -> SUBSET Images]
      /\ delivered' = [delivered EXCEPT ![p] = @ \cup {id}]
      /\ \A i \in delivered[p] : i < id
  BY Zenon DEF TypeOK, Arrive, MayDeliver
<1>2. id \in Nat
  BY ConstantsAssumption, Zenon
<1>3. p \notin Have(id)
  BY <1>1, <1>2 DEF Have
<1>4. Have(id)' = Have(id) \cup {p}
  BY <1>1, Zenon DEF Have
<1>5. Cardinality(Have(id) \cup {p}) = Cardinality(Have(id)) + 1
  BY <1>3, HaveBound, FS_AddElement, Zenon
<1>6. \A i \in Images : i # id => Have(i)' = Have(i)
  BY <1>1, Zenon DEF Have
<1> QED BY <1>4, <1>5, <1>6, Zenon

\* A queue without its first n ids, all of them distinct, holds the other ids.
LEMMA Suffix ==
  ASSUME NEW q \in Seq(Images), Distinct(q), NEW n \in 0 .. Len(q),
         NEW t \in Seq(Images), Len(t) = Len(q) - n,
         \A i \in 1 .. Len(t) : t[i] = q[i + n]
  PROVE  Distinct(t) /\ Range(t) = Range(q) \ {q[j] : j \in 1 .. n}
<1>1. /\ Len(q) \in Nat /\ DOMAIN q = 1 .. Len(q)
      /\ Len(t) \in Nat /\ DOMAIN t = 1 .. Len(t)
  BY LenProperties, Zenon
<1>2. Distinct(t)
  <2> SUFFICES ASSUME NEW i \in 1 .. Len(t), NEW j \in 1 .. Len(t), t[i] = t[j]
               PROVE  i = j
    BY <1>1, Zenon DEF Distinct
  <2>1. i + n \in DOMAIN q /\ j + n \in DOMAIN q
    BY <1>1
  <2>2. i + n = j + n
    BY <2>1, Zenon DEF Distinct
  <2> QED BY <2>2
<1>3. ASSUME NEW x \in Range(t) PROVE x \in Range(q) /\ x \notin {q[j] : j \in 1 .. n}
  <2>1. PICK i \in 1 .. Len(t) : x = q[i + n]
    BY <1>1, <1>3, Zenon DEF Range
  <2>2. i + n \in DOMAIN q /\ \A j \in 1 .. n : j \in DOMAIN q /\ j # i + n
    BY <1>1
  <2> QED BY <2>1, <2>2, Zenon DEF Range, Distinct
<1>4. ASSUME NEW x \in Range(q), x \notin {q[j] : j \in 1 .. n} PROVE x \in Range(t)
  <2>1. PICK i \in 1 .. Len(q) : x = q[i]
    BY <1>1, <1>4, Zenon DEF Range
  <2>2. i \notin 1 .. n
    BY <1>4, <2>1, Zenon
  <2>3. i - n \in 1 .. Len(t) /\ (i - n) + n = i
    BY <1>1, <2>2
  <2>4. t[i - n] = x
    BY <2>1, <2>3, Zenon
  <2> QED BY <1>1, <2>3, <2>4, Zenon DEF Range
<1> QED BY <1>2, <1>3, <1>4, Zenon

\* Queue and cache after the push of a new image, or as they were.
LEMMA Pushed ==
  ASSUME IInv, NEW id \in Images,
         NEW q, q = AfterPush(id).queue, NEW c, c = AfterPush(id).cache
  PROVE  /\ q \in Seq(Images) /\ Distinct(q) /\ Len(q) <= n_images_buffer
         /\ DOMAIN c = Range(q) /\ id \in DOMAIN c
         /\ c[id] \in 0 .. n_parts - 1 /\ c[id] <= Cardinality(Have(id))
         /\ \A i \in DOMAIN c : i # id => i \in DOMAIN meta_cache /\ c[i] = meta_cache[i]
         /\ AfterPush(id).dropped \subseteq Images
<1>1. CASE ~is_new_image(id)
  <2>1. q = image_id_queue /\ c = meta_cache /\ AfterPush(id).dropped = {}
    BY <1>1, Zenon DEF AfterPush, Unchanged
  <2>2. meta_cache[id] \in 1 .. n_parts - 1 /\ meta_cache[id] <= Cardinality(Have(id))
    BY <1>1, Zenon DEF is_new_image, IInv, TypeOK, Counted
  <2> QED BY <1>1, <2>1, <2>2, PartsPositive DEF is_new_image, IInv, TypeOK, Coherent, Distinct
<1>2. CASE is_new_image(id)
  <2> DEFINE q0 == Append(image_id_queue, id)
             c0 == Store(meta_cache, id, 0)
  <2>1. /\ image_id_queue \in Seq(Images) /\ Distinct(image_id_queue)
        /\ Len(image_id_queue) <= n_images_buffer
        /\ DOMAIN meta_cache = Range(image_id_queue)
        /\ id \notin Range(image_id_queue)
    BY <1>2, Zenon DEF is_new_image, IInv, TypeOK, Coherent, Distinct
  <2>2. /\ q0 \in Seq(Images) /\ Len(q0) = Len(image_id_queue) + 1
        /\ \A i \in 1 .. Len(image_id_queue) : q0[i] = image_id_queue[i]
        /\ q0[Len(q0)] = id
    BY <2>1, AppendProperties
  <2>3. Distinct(q0) /\ Range(q0) = Range(image_id_queue) \cup {id}
    BY <2>1, <2>2 DEF Distinct, Range
  <2>4. /\ DOMAIN c0 = Range(q0)
        /\ c0[id] = 0
        /\ \A i \in DOMAIN c0 : i # id => i \in DOMAIN meta_cache /\ c0[i] = meta_cache[i]
    BY <2>1, <2>3, Zenon DEF Store
  <2>5. 0 \in 0 .. n_parts - 1 /\ 0 <= Cardinality(Have(id))
    BY PartsPositive, HaveBound
  <2> HIDE DEF q0, c0
  <2>6. CASE ~is_queue_too_long(q0)
    <3>1. q = q0 /\ c = c0 /\ AfterPush(id).dropped = {}
      BY <1>2, <2>6, Zenon DEF AfterPush, push_new_image_to_queue, q0, c0
    <3>2. Len(q0) <= n_images_buffer
      BY <2>2, <2>6, ConstantsAssumption, LenProperties, SMTT(40) DEF is_queue_too_long
    <3> QED BY <2>2, <2>3, <2>4, <2>5, <3>1, <3>2, SMTT(40)
  <2>7. CASE is_queue_too_long(q0)
    <3>1. q = Tail(q0) /\ c = Erase(c0, {Head(q0)}) /\ AfterPush(id).dropped = {Head(q0)}
      BY <1>2, <2>7, Zenon DEF AfterPush, push_new_image_to_queue, q0, c0
    <3>2. Len(q0) \in Nat /\ Len(q0) > 1 /\ Len(q0) <= n_images_buffer + 1
      BY <2>1, <2>2, <2>7, ConstantsAssumption, LenProperties DEF is_queue_too_long
    <3>3. /\ Head(q0) \in Images /\ Head(q0) = q0[1]
          /\ Tail(q0) \in Seq(Images) /\ Len(Tail(q0)) = Len(q0) - 1
          /\ \A i \in 1 .. Len(Tail(q0)) : Tail(q0)[i] = q0[i + 1]
      BY <2>2, <3>2, HeadTailProperties
    <3>4. Distinct(Tail(q0)) /\ Range(Tail(q0)) = Range(q0) \ {Head(q0)}
      <4>1. PICK n \in 0 .. Len(q0) : n = 1
        BY <3>2
      <4>2. /\ Len(Tail(q0)) = Len(q0) - n
            /\ \A i \in 1 .. Len(Tail(q0)) : Tail(q0)[i] = q0[i + n]
        BY <3>3, <4>1, Zenon
      <4>3. Distinct(Tail(q0)) /\ Range(Tail(q0)) = Range(q0) \ {q0[j] : j \in 1 .. n}
        BY <2>2, <2>3, <3>3, <4>2, Suffix, ZenonT(40)
      <4> QED BY <3>3, <4>1, <4>3
    <3>6. id # Head(q0)
      BY <2>2, <2>3, <3>2, <3>3, SMTT(40) DEF Distinct
    <3>7. /\ DOMAIN c = Range(q) /\ id \in DOMAIN c
          /\ \A i \in DOMAIN c : c[i] = c0[i]
      BY <2>3, <2>4, <3>1, <3>4, <3>6, Zenon DEF Erase
    <3>8. Len(q) <= n_images_buffer
      BY <3>1, <3>2, <3>3, ConstantsAssumption
    <3> QED BY <2>4, <2>5, <3>1, <3>3, <3>4, <3>7, <3>8, ZenonT(40)
  <2> QED BY <2>6, <2>7, Zenon
<1> QED BY <1>1, <1>2, Zenon

\* Taking out a queued image finds it, and leaves a queue and a cache without it
\* and the images before it.
LEMMA TakenOut ==
  ASSUME NEW q \in Seq(Images), Distinct(q), NEW c, DOMAIN c = Range(q),
         NEW id \in Range(q), get_full_image(q, c, id)
  PROVE  /\ image_id_queue' \in Seq(Images) /\ Distinct(image_id_queue')
         /\ Len(image_id_queue') <= Len(q)
         /\ DOMAIN meta_cache' = Range(image_id_queue')
         /\ \A i \in DOMAIN meta_cache' : i # id /\ i \in DOMAIN c /\ meta_cache'[i] = c[i]
         /\ published' = Append(published, id)
         /\ running'
<1>1. Len(q) \in Nat /\ DOMAIN q = 1 .. Len(q) /\ \A i \in 1 .. Len(q) : q[i] \in Images
  BY LenProperties, ElementOfSeq, Zenon
<1>2. PICK n \in 0 .. Len(q) :
        /\ discard_stale_images(q, id, n)
        /\ image_id_queue' = SubSeq(q, n + 2, Len(q))
        /\ meta_cache' = Erase(c, IF n < Len(q) THEN {q[j] : j \in 1 .. n} \cup {id}
                                             ELSE {q[j] : j \in 1 .. n})
        /\ published' = IF n < Len(q) THEN Append(published, id) ELSE published
        /\ running' = (n < Len(q))
  BY Zenon DEF get_full_image
<1>3. n < Len(q) /\ q[n + 1] = id
  <2>1. PICK i \in 1 .. Len(q) : q[i] = id
    BY <1>1, Zenon DEF Range
  <2>2. i \notin 1 .. n
    BY <1>2, <2>1, Zenon DEF discard_stale_images
  <2> QED BY <1>1, <1>2, <2>2 DEF discard_stale_images
<1> DEFINE t == SubSeq(q, n + 2, Len(q))
<1>4. PICK k \in 0 .. Len(q) : k = n + 1
  BY <1>1, <1>3
<1>5. /\ t \in Seq(Images) /\ Len(t) = Len(q) - k
      /\ \A i \in 1 .. Len(t) : t[i] = q[i + k]
  <2>1. /\ n + 2 \in 1 .. Len(q) + 1 /\ Len(q) \in n + 1 .. Len(q)
    BY <1>1, <1>3
  <2>2. CASE n + 2 <= Len(q)
    BY <1>1, <1>3, <1>4, <2>1, <2>2, SubSeqProperties, SMTT(40)
  <2>3. CASE n + 2 > Len(q)
    <3>1. t = << >>
      BY <1>1, <2>3, SubSeqEmpty
    <3>2. Len(q) - k = 0
      <4>1. Len(q) \in Nat /\ n < Len(q) /\ n + 2 > Len(q) /\ n \in Nat
        BY <1>1, <1>3, <2>3
      <4>2. Len(q) = n + 1
        BY <4>1
      <4> QED BY <1>4, <4>1, <4>2
    <3> HIDE DEF t
    <3> QED BY <3>1, <3>2
  <2>4. n + 2 <= Len(q) \/ n + 2 > Len(q)
    BY <1>1
  <2> HIDE DEF t
  <2> QED BY <2>2, <2>3, <2>4, Zenon
<1> HIDE DEF t
<1>6. Distinct(t) /\ Range(t) = Range(q) \ {q[j] : j \in 1 .. k}
  BY <1>5, Suffix, Zenon
<1>7. {q[j] : j \in 1 .. k} = {q[j] : j \in 1 .. n} \cup {id}
  BY <1>1, <1>3, <1>4
<1>8. /\ DOMAIN meta_cache' = Range(t)
      /\ \A i \in Range(t) : i # id /\ i \in DOMAIN c /\ meta_cache'[i] = c[i]
  BY <1>2, <1>3, <1>6, <1>7, Zenon DEF Erase
<1>9. image_id_queue' = t /\ Len(t) <= Len(q)
  <2>1. image_id_queue' = t
    BY <1>2, Zenon DEF t
  <2>2. Len(q) \in Nat /\ k \in Nat /\ Len(t) = Len(q) - k
    BY <1>1, <1>4, <1>5
  <2> QED BY <2>1, <2>2
<1> QED BY <1>2, <1>3, <1>5, <1>6, <1>8, <1>9, Zenon

\* One iteration of the loop keeps the invariant; it publishes nothing, or the
\* image that all receivers have now delivered.
LEMMA Received ==
  ASSUME IInv, NEW p \in Parts, NEW id \in Images, receive(p, id)
  PROVE  /\ IInv'
         /\ \/ published' = published
            \/ /\ published' = Append(published, id)
               /\ \A k \in Parts : id \in delivered'[k]
<1> DEFINE q == AfterPush(id).queue
           c == AfterPush(id).cache
           count == c[id] + 1
<1>1. /\ q \in Seq(Images) /\ Distinct(q) /\ Len(q) <= n_images_buffer
      /\ DOMAIN c = Range(q) /\ id \in DOMAIN c
      /\ c[id] \in 0 .. n_parts - 1 /\ c[id] <= Cardinality(Have(id))
      /\ \A i \in DOMAIN c : i # id => i \in DOMAIN meta_cache /\ c[i] = meta_cache[i]
      /\ AfterPush(id).dropped \subseteq Images
  BY Pushed, Zenon
<1>2. /\ Arrive(p, id)
      /\ overflowed' = overflowed \cup AfterPush(id).dropped
      /\ \/ count = n_parts /\ get_full_image(q, Store(c, id, count), id)
         \/ /\ count # n_parts
            /\ image_id_queue' = q
            /\ meta_cache' = Store(c, id, count)
            /\ UNCHANGED <<running, published>>
  BY Zenon DEF receive, process_image_metadata
<1> HIDE DEF q, c
<1>3. /\ delivered' \in [Parts -> SUBSET Images] /\ overflowed' \subseteq Images
      /\ \A k \in Parts : delivered[k] \subseteq delivered'[k]
  BY <1>1, <1>2, Zenon DEF Arrive, IInv, TypeOK
<1>4. /\ Cardinality(Have(id)') = Cardinality(Have(id)) + 1
      /\ \A i \in Images : i # id => Have(i)' = Have(i)
  BY <1>2, HaveGrows, Zenon DEF IInv
<1>5. /\ DOMAIN Store(c, id, count) = DOMAIN c /\ Store(c, id, count)[id] = count
      /\ \A i \in DOMAIN c : i # id => Store(c, id, count)[i] = c[i]
  BY <1>1, Zenon DEF Store
<1>6. \A i \in DOMAIN c : i \in Images
  BY <1>1, Zenon DEF IInv, TypeOK
<1>7. \A i \in DOMAIN c : i # id =>
        /\ Store(c, id, count)[i] \in 1 .. n_parts - 1
        /\ Store(c, id, count)[i] <= Cardinality(Have(i)')
  BY <1>1, <1>4, <1>5, <1>6, Zenon DEF IInv, TypeOK, Counted
<1>8. count \in 1 .. n_parts /\ count <= Cardinality(Have(id)')
  BY <1>1, <1>4, HaveBound, PartsPositive
<1>9. CASE /\ count # n_parts
           /\ image_id_queue' = q
           /\ meta_cache' = Store(c, id, count)
           /\ UNCHANGED <<running, published>>
  <2>1. \A i \in DOMAIN meta_cache' :
          /\ meta_cache'[i] \in 1 .. n_parts - 1
          /\ meta_cache'[i] <= Cardinality(Have(i)')
    BY <1>5, <1>7, <1>8, <1>9, PartsPositive, SMTT(40)
  <2>2. TypeOK'
    BY <1>1, <1>3, <1>5, <1>6, <1>9, <2>1, SMTT(40) DEF IInv, TypeOK, n_parts
  <2>3. Coherent'
    BY <1>1, <1>5, <1>9, Zenon DEF Coherent, Distinct
  <2>4. Counted' /\ NeverThrows' /\ PublishedComplete'
    BY <1>3, <1>9, <2>1, Zenon DEF IInv, Counted, NeverThrows, PublishedComplete
  <2> QED BY <1>9, <2>2, <2>3, <2>4, Zenon DEF IInv
<1>10. CASE count = n_parts /\ get_full_image(q, Store(c, id, count), id)
  <2>1. /\ image_id_queue' \in Seq(Images) /\ Distinct(image_id_queue')
        /\ Len(image_id_queue') <= Len(q)
        /\ DOMAIN meta_cache' = Range(image_id_queue')
        /\ \A i \in DOMAIN meta_cache' :
             i # id /\ i \in DOMAIN c /\ meta_cache'[i] = Store(c, id, count)[i]
        /\ published' = Append(published, id)
        /\ running'
    BY <1>1, <1>5, <1>10, TakenOut DEF IInv, TypeOK
  <2>2. \A i \in DOMAIN meta_cache' :
          /\ meta_cache'[i] \in 1 .. n_parts - 1
          /\ meta_cache'[i] <= Cardinality(Have(i)')
    BY <1>7, <2>1, Zenon
  <2>3. \A k \in Parts : id \in delivered'[k]
    <3>1. /\ Cardinality(Have(id)) \in Nat
          /\ Cardinality(Have(id)) < n_parts => Cardinality(Have(id)') <= n_parts
      BY <1>4, HaveBound, PartsPositive
    <3>2. IsFiniteSet(Parts) /\ Have(id)' \subseteq Parts
      BY ConstantsAssumption, Zenon DEF Have
    <3>3. /\ Cardinality(Have(id)') <= n_parts
          /\ Cardinality(Have(id)') = n_parts => Have(id)' = Parts
      BY <3>2, FS_Subset, Zenon DEF n_parts
    <3>4. Cardinality(Have(id)') = n_parts
      BY <1>4, <1>8, <1>10, <3>1, <3>3, PartsPositive, SMTT(40)
    <3> QED BY <3>3, <3>4, Zenon DEF Have
  <2>4. published \in Seq(Images) /\ published' \in Seq(Images)
    BY <2>1 DEF IInv, TypeOK
  <2>5. TypeOK'
    BY <1>3, <1>6, <2>1, <2>2, <2>4, Zenon DEF TypeOK, n_parts
  <2>6. Coherent'
    <3>1. Len(image_id_queue') <= n_images_buffer
      BY <1>1, <2>1, LenProperties, ConstantsAssumption
    <3> QED BY <2>1, <3>1, Zenon DEF Coherent, Distinct
  <2>7. Counted' /\ NeverThrows'
    BY <2>1, <2>2, Zenon DEF Counted, NeverThrows
  <2>8. PublishedComplete'
    <3>1. \A i \in DOMAIN published' :
            (i \in DOMAIN published /\ published'[i] = published[i]) \/ published'[i] = id
      BY <2>1, <2>4
    <3> QED BY <1>3, <2>3, <3>1, Zenon DEF IInv, PublishedComplete
  <2> QED BY <2>1, <2>3, <2>5, <2>6, <2>7, <2>8, SMTT(40) DEF IInv
<1> QED BY <1>2, <1>9, <1>10, Zenon

LEMMA IInvInit == Init => IInv
<1> SUFFICES ASSUME Init PROVE IInv
  OBVIOUS
<1>1. DOMAIN meta_cache = {} /\ DOMAIN image_id_queue = {} /\ Len(image_id_queue) = 0
  BY DEF Init
<1>2. TypeOK
  BY <1>1 DEF Init, TypeOK
<1>3. Coherent
  BY <1>1, ConstantsAssumption DEF Coherent, Range
<1>4. NeverThrows /\ Counted /\ PublishedComplete
  BY <1>1, Zenon DEF Init, NeverThrows, Counted, PublishedComplete
<1> QED BY <1>2, <1>3, <1>4, Zenon DEF IInv

LEMMA IInvNext == IInv /\ [Next]_vars => IInv'
<1>1. ASSUME IInv, Next PROVE IInv'
  BY <1>1, Received, Zenon DEF Next, ReceiveFrom
<1>2. ASSUME IInv, UNCHANGED vars PROVE IInv'
  BY <1>2, Zenon DEF vars, IInv, TypeOK, Coherent, NeverThrows, Counted, Have, PublishedComplete, n_parts
<1> QED BY <1>1, <1>2, Zenon

LEMMA Invariance == Spec => []IInv
BY IInvInit, IInvNext, PTL DEF Spec

\* The queue and the map of push_new_image stay within n_images_buffer.
THEOREM TypeCorrect == Spec => []TypeOK
BY Invariance, PTL DEF IInv

\* The queue and the map of counts agree, for any number of receivers,
\* whichever parts they lose.
THEOREM QueueAndCacheAgree == Spec => []Coherent
BY Invariance, PTL DEF IInv

\* "Impossible?!" it is: the exception in get_full_image is unreachable.
THEOREM ExceptionIsImpossible == Spec => []NeverThrows
BY Invariance, PTL DEF IInv

\* An image is published in the step in which its last part arrives, newer
\* than all before it: counting implements the ordered assembly.
THEOREM ImplementsAssembly == Spec => Assembles
<1>1. Init => Abstract!Init
  BY Zenon DEF Init, Abstract!Init
<1>2. IInv /\ [Next]_vars => [Abstract!Next]_(Abstract!vars)
  <2> SUFFICES ASSUME IInv, [Next]_vars PROVE [Abstract!Next]_(Abstract!vars)
    OBVIOUS
  <2>1. ASSUME NEW p \in Parts, NEW id \in Images, receive(p, id)
        PROVE  [Abstract!Next]_(Abstract!vars)
    <3>1. Arrive(p, id)
      BY <2>1, Zenon DEF receive
    <3>2. Abstract!Deliver(p, id)
      BY <3>1, Zenon DEF Arrive, MayDeliver, Abstract!Deliver, Abstract!Carriers, OneGroup
    <3>3. CASE published' = published
      BY <3>2, <3>3, Zenon DEF Abstract!Next
    <3>4. CASE /\ published' = Append(published, id)
               /\ \A k \in Parts : id \in delivered'[k]
      <4>1. \A i \in DOMAIN published : published[i] \in delivered[p]
        BY Zenon DEF IInv, PublishedComplete
      <4>2. \A i \in DOMAIN published : published[i] < id
        BY <3>1, <4>1, Zenon DEF Arrive, MayDeliver
      <4>3. Abstract!Publish(id)
        BY <3>4, <4>2, ConstantsAssumption, Zenon
           DEF Abstract!Publish, Abstract!Complete, Abstract!Carriers, Abstract!Newest, OneGroup
      <4> QED BY <3>2, <4>3, Zenon DEF Abstract!Next
    <3> QED BY <2>1, <3>3, <3>4, Received, Zenon
  <2>2. CASE UNCHANGED vars
    BY <2>2, Zenon DEF vars, Abstract!vars
  <2> QED BY <2>1, <2>2, Zenon DEF Next, ReceiveFrom
<1> QED BY <1>1, <1>2, Invariance, PTL DEF Spec, Assembles, Abstract!Spec

-----------------------------------------------------------------------------
(* No complete image is lost but by overflow.                              *)

\* A receiver has gone past the image without delivering it.
Doomed(id) == \E p \in Parts : id \notin delivered[p] /\ \E j \in delivered[p] : id < j

Settled(id) == id \in Range(published) \/ id \in overflowed \/ Doomed(id)

\* What becomes of an image that has begun to arrive.
Accounted ==
  \A id \in Images : Have(id) # {} =>
    \/ Settled(id)
    \/ id \in DOMAIN meta_cache /\ meta_cache[id] = Cardinality(Have(id))

\* An image that was dropped and begun again lacks the parts of before.
Short ==
  \A id \in overflowed :
    /\ Have(id) # {}
    /\ id \in DOMAIN meta_cache => meta_cache[id] < Cardinality(Have(id))

Before(q, a, b) == \E i, j \in DOMAIN q : i < j /\ q[i] = a /\ q[j] = b

\* An image queued behind a newer one can no longer become complete.
QueueOrder ==
  \A a, b \in Images :
    Before(image_id_queue, a, b) /\ b < a => Doomed(b) \/ b \in overflowed

SInv == IInv /\ Accounted /\ Short /\ QueueOrder

LEMMA DoomedStable ==
  ASSUME NEW p \in Parts, NEW id \in Images, Arrive(p, id), NEW i, Doomed(i),
         delivered \in [Parts -> SUBSET Images], i \in Images
  PROVE  Doomed(i)'
<1>1. PICK k \in Parts : i \notin delivered[k] /\ \E j \in delivered[k] : i < j
  BY Zenon DEF Doomed
<1>2. PICK j \in delivered[k] : i < j
  BY <1>1, Zenon
<1>3. /\ delivered' = [delivered EXCEPT ![p] = @ \cup {id}]
      /\ \A l \in delivered[p] : l < id
  BY Zenon DEF Arrive, MayDeliver
<1>4. j \in delivered'[k]
  BY <1>2, <1>3, Zenon
<1>5. i \notin delivered'[k]
  <2>1. i \in Nat /\ j \in Nat /\ id \in Nat
    BY <1>1, <1>2, ConstantsAssumption, Zenon
  <2>2. k = p => i # id
    BY <1>2, <1>3, <2>1
  <2> QED BY <1>1, <1>3, <2>2, Zenon
<1> QED BY <1>2, <1>4, <1>5, Zenon DEF Doomed

\* A push keeps the order of the queue and may put the new image at its end.
LEMMA PushedOrder ==
  ASSUME IInv, NEW id \in Images, NEW q, q = AfterPush(id).queue,
         NEW a, NEW b, Before(q, a, b)
  PROVE  \/ Before(image_id_queue, a, b)
         \/ b = id /\ is_new_image(id) /\ a \in Range(image_id_queue)
<1>1. CASE ~is_new_image(id)
  BY <1>1, Zenon DEF AfterPush, Unchanged
<1>2. CASE is_new_image(id)
  <2> DEFINE q0 == Append(image_id_queue, id)
  <2>1. image_id_queue \in Seq(Images) /\ Len(image_id_queue) \in Nat
    BY LenProperties, Zenon DEF IInv, TypeOK
  <2>2. /\ q0 \in Seq(Images) /\ Len(q0) = Len(image_id_queue) + 1
        /\ \A i \in 1 .. Len(image_id_queue) : q0[i] = image_id_queue[i]
        /\ q0[Len(q0)] = id
        /\ DOMAIN q0 = 1 .. Len(q0)
        /\ DOMAIN image_id_queue = 1 .. Len(image_id_queue)
    BY <2>1, AppendProperties, LenProperties
  <2> HIDE DEF q0
  <2>3. Before(q0, a, b)
    <3>1. q = q0 \/ q = Tail(q0)
      BY <1>2, Zenon DEF AfterPush, push_new_image_to_queue, q0
    <3>2. CASE q = Tail(q0)
      <4>1. Len(q0) \in Nat /\ Len(q0) >= 1 /\ q0 # << >>
        BY <2>1, <2>2
      <4>2. /\ Tail(q0) \in Seq(Images) /\ Len(Tail(q0)) = Len(q0) - 1
            /\ \A i \in 1 .. Len(Tail(q0)) : Tail(q0)[i] = q0[i + 1]
        BY <2>2, <4>1, HeadTailProperties, Zenon
      <4>3. DOMAIN q = 1 .. Len(q0) - 1 /\ \A i \in 1 .. Len(q0) - 1 : q[i] = q0[i + 1]
        BY <3>2, <4>2, LenProperties, Zenon
      <4>4. PICK i, j \in DOMAIN q : i < j /\ q[i] = a /\ q[j] = b
        BY Zenon DEF Before
      <4>5. i + 1 \in DOMAIN q0 /\ j + 1 \in DOMAIN q0 /\ i + 1 < j + 1
        BY <2>2, <4>1, <4>3, <4>4
      <4> QED BY <4>3, <4>4, <4>5, Zenon DEF Before
    <3> QED BY <3>1, <3>2, Zenon
  <2>4. PICK i, j \in DOMAIN q0 : i < j /\ q0[i] = a /\ q0[j] = b
    BY <2>3, Zenon DEF Before
  <2>5. i \in DOMAIN image_id_queue /\ image_id_queue[i] = a
    BY <2>1, <2>2, <2>4
  <2>6. CASE j \in DOMAIN image_id_queue
    BY <2>2, <2>4, <2>5, <2>6, Zenon DEF Before
  <2>7. CASE j \notin DOMAIN image_id_queue
    <3>1. j = Len(q0)
      BY <2>1, <2>2, <2>4, <2>7
    <3> QED BY <1>2, <2>2, <2>4, <2>5, <3>1, Zenon DEF Range
  <2> QED BY <2>6, <2>7, Zenon
<1> QED BY <1>1, <1>2, Zenon

\* A push only takes out the image it reports as dropped.
LEMMA PushedOut ==
  ASSUME IInv, NEW id \in Images, NEW c, c = AfterPush(id).cache
  PROVE  /\ \A i \in DOMAIN meta_cache : i \in DOMAIN c \/ i \in AfterPush(id).dropped
         /\ \A i \in AfterPush(id).dropped : i \in DOMAIN meta_cache /\ i \notin DOMAIN c
         /\ c[id] = IF is_new_image(id) THEN 0 ELSE meta_cache[id]
<1>1. CASE ~is_new_image(id)
  BY <1>1, Zenon DEF AfterPush, Unchanged
<1>2. CASE is_new_image(id)
  <2> DEFINE q0 == Append(image_id_queue, id)
  <2>1. image_id_queue \in Seq(Images) /\ Len(image_id_queue) \in Nat
    BY LenProperties, Zenon DEF IInv, TypeOK
  <2>2. /\ q0 \in Seq(Images) /\ Len(q0) = Len(image_id_queue) + 1
        /\ \A i \in 1 .. Len(image_id_queue) : q0[i] = image_id_queue[i]
    BY <2>1, AppendProperties
  <2> HIDE DEF q0
  <2>3. CASE ~is_queue_too_long(q0)
    BY <1>2, <2>3, Zenon DEF AfterPush, push_new_image_to_queue, Store, q0
  <2>4. CASE is_queue_too_long(q0)
    <3>1. c = Erase(Store(meta_cache, id, 0), {Head(q0)}) /\ AfterPush(id).dropped = {Head(q0)}
      BY <1>2, <2>4, Zenon DEF AfterPush, push_new_image_to_queue, q0
    <3>2. Len(q0) > 1
      BY <2>1, <2>2, <2>4, ConstantsAssumption, SMTT(40) DEF is_queue_too_long
    <3>3. q0 # << >> /\ Head(q0) = q0[1]
      BY <2>1, <2>2, <3>2, HeadTailProperties, SMTT(40)
    <3>4. 1 \in DOMAIN image_id_queue /\ Head(q0) = image_id_queue[1]
      BY <2>1, <2>2, <3>2, <3>3, LenProperties, SMTT(40)
    <3>5. Head(q0) \in Range(image_id_queue)
      BY <3>4, Zenon DEF Range
    <3>6. Head(q0) \in DOMAIN meta_cache
      BY <3>5, Zenon DEF IInv, Coherent
    <3> QED BY <1>2, <3>1, <3>6, Zenon DEF Erase, Store, is_new_image
  <2> QED BY <2>3, <2>4, Zenon
<1> QED BY <1>1, <1>2, Zenon
\* Taking out an image keeps the order of the rest and only takes out with it
\* the images before it.
LEMMA TakenOutOrder ==
  ASSUME NEW q \in Seq(Images), Distinct(q), NEW c, DOMAIN c = Range(q),
         NEW id \in Range(q), get_full_image(q, c, id)
  PROVE  /\ \A a, b : Before(image_id_queue', a, b) => Before(q, a, b)
         /\ \A i \in Range(q) : i \in DOMAIN meta_cache' \/ i = id \/ Before(q, i, id)
<1>1. Len(q) \in Nat /\ DOMAIN q = 1 .. Len(q)
  BY LenProperties, Zenon
<1>2. PICK n \in 0 .. Len(q) :
        /\ discard_stale_images(q, id, n)
        /\ image_id_queue' = SubSeq(q, n + 2, Len(q))
        /\ meta_cache' = Erase(c, IF n < Len(q) THEN {q[j] : j \in 1 .. n} \cup {id}
                                             ELSE {q[j] : j \in 1 .. n})
  BY Zenon DEF get_full_image
<1>3. n < Len(q) /\ q[n + 1] = id
  <2>1. PICK i \in 1 .. Len(q) : q[i] = id
    BY <1>1, Zenon DEF Range
  <2>2. i \notin 1 .. n
    BY <1>2, <2>1, Zenon DEF discard_stale_images
  <2> QED BY <1>1, <1>2, <2>2 DEF discard_stale_images
<1>4. ASSUME NEW a, NEW b, Before(image_id_queue', a, b) PROVE Before(q, a, b)
  <2>1. PICK i, j \in DOMAIN image_id_queue' :
          i < j /\ image_id_queue'[i] = a /\ image_id_queue'[j] = b
    BY <1>4, Zenon DEF Before
  <2>2. CASE n + 2 <= Len(q)
    <3>1. /\ DOMAIN image_id_queue' = 1 .. Len(q) - (n + 1)
          /\ \A k \in 1 .. Len(q) - (n + 1) : image_id_queue'[k] = q[k + (n + 1)]
      BY <1>1, <1>2, <2>2, SMTT(40)
    <3>2. /\ i + (n + 1) \in DOMAIN q /\ j + (n + 1) \in DOMAIN q
          /\ i + (n + 1) < j + (n + 1)
      BY <1>1, <2>1, <3>1
    <3> QED BY <2>1, <3>1, <3>2, Zenon DEF Before
  <2>3. CASE ~(n + 2 <= Len(q))
    <3>1. image_id_queue' = << >>
      BY <1>1, <1>2, <2>3, SubSeqEmpty
    <3> QED BY <2>1, <3>1
  <2> QED BY <2>2, <2>3, Zenon
<1>5. ASSUME NEW i \in Range(q), i \notin DOMAIN meta_cache', i # id PROVE Before(q, i, id)
  <2>1. PICK j \in 1 .. n : q[j] = i
    BY <1>2, <1>3, <1>5, Zenon DEF Erase
  <2>2. j \in DOMAIN q /\ n + 1 \in DOMAIN q /\ j < n + 1
    BY <1>1, <1>3
  <2> QED BY <1>3, <2>1, <2>2, Zenon DEF Before
<1> QED BY <1>4, <1>5, Zenon

\* After the push, and with the new part counted as delivered, an image that is
\* queued behind a newer one cannot become complete any more.
LEMMA OrderAfterPush ==
  ASSUME SInv, NEW p \in Parts, NEW id \in Images, receive(p, id),
         NEW a \in Images, NEW b \in Images, b < a, Before(AfterPush(id).queue, a, b)
  PROVE  Doomed(b)' \/ b \in overflowed'
<1>1. /\ Arrive(p, id) /\ overflowed \subseteq overflowed'
      /\ delivered \in [Parts -> SUBSET Images]
  BY Zenon DEF receive, process_image_metadata, SInv, IInv, TypeOK
<1>2. CASE Doomed(b) \/ b \in overflowed
  BY <1>1, <1>2, DoomedStable, Zenon
<1>3. CASE Before(image_id_queue, a, b)
  BY <1>2, <1>3, Zenon DEF SInv, QueueOrder
<1>4. CASE b = id /\ is_new_image(id) /\ a \in Range(image_id_queue)
  <2>1. PICK k \in Parts : a \in delivered[k]
    <3>1. a \in DOMAIN meta_cache
      BY <1>4, Zenon DEF SInv, IInv, Coherent
    <3>2. meta_cache[a] \in 1 .. n_parts - 1 /\ meta_cache[a] <= Cardinality(Have(a))
      BY <3>1, Zenon DEF SInv, IInv, TypeOK, Counted
    <3>3. Have(a) # {}
      BY <3>2, PartsPositive, HaveBound, FS_EmptySet
    <3> QED BY <3>3, Zenon DEF Have
  <2>2. CASE id \notin delivered[k]
    BY <1>2, <1>4, <2>1, <2>2, Zenon DEF Doomed
  <2>3. CASE id \in delivered[k]
    <3>1. Have(id) # {} /\ id \notin DOMAIN meta_cache
      BY <1>4, <2>3, Zenon DEF Have, is_new_image
    <3>2. Settled(id)
      BY <3>1, Zenon DEF SInv, Accounted
    <3>3. id \notin Range(published)
      <4>1. id \notin delivered[p]
        BY <1>1, ConstantsAssumption DEF Arrive, MayDeliver
      <4> QED BY <4>1, Zenon DEF SInv, IInv, PublishedComplete, Range
    <3> QED BY <1>2, <1>4, <3>2, <3>3, Zenon DEF Settled
  <2> QED BY <2>2, <2>3, Zenon
<1> QED BY <1>3, <1>4, PushedOrder, Zenon DEF SInv

\* One iteration of the loop accounts for every image it touches.
LEMMA Accounting ==
  ASSUME SInv, NEW p \in Parts, NEW id \in Images, receive(p, id)
  PROVE  SInv'
<1> DEFINE q == AfterPush(id).queue
           c == AfterPush(id).cache
           d == AfterPush(id).dropped
           count == c[id] + 1
<1>1. /\ q \in Seq(Images) /\ Distinct(q)
      /\ DOMAIN c = Range(q) /\ id \in DOMAIN c
      /\ c[id] \in 0 .. n_parts - 1
      /\ \A i \in DOMAIN c : i # id => i \in DOMAIN meta_cache /\ c[i] = meta_cache[i]
      /\ d \subseteq Images
  BY Pushed DEF SInv
<1>2. /\ \A i \in DOMAIN meta_cache : i \in DOMAIN c \/ i \in d
      /\ \A i \in d : i \in DOMAIN meta_cache /\ i \notin DOMAIN c
      /\ c[id] = IF is_new_image(id) THEN 0 ELSE meta_cache[id]
  BY PushedOut, Zenon DEF SInv
<1>3. /\ Arrive(p, id)
      /\ overflowed' = overflowed \cup d
      /\ \/ count = n_parts /\ get_full_image(q, Store(c, id, count), id)
         \/ /\ count # n_parts
            /\ image_id_queue' = q
            /\ meta_cache' = Store(c, id, count)
            /\ published' = published
  BY Zenon DEF receive, process_image_metadata
<1>4. \A a, b \in Images : Before(q, a, b) /\ b < a => Doomed(b)' \/ b \in overflowed'
  BY OrderAfterPush, Zenon
<1> HIDE DEF q, c, d
<1>5. /\ IInv' /\ IInv
      /\ \/ published' = published
         \/ /\ published' = Append(published, id)
            /\ \A k \in Parts : id \in delivered'[k]
  BY Received, Zenon DEF SInv
<1>6. /\ Cardinality(Have(id)') = Cardinality(Have(id)) + 1
      /\ \A i \in Images : i # id => Have(i)' = Have(i)
  BY <1>3, <1>5, HaveGrows, Zenon DEF IInv
<1>7. Cardinality(Have(id)) \in Nat /\ Cardinality(Have(id)') <= n_parts /\ n_parts \in Nat
  <2>1. IsFiniteSet(Parts) /\ Have(id)' \subseteq Parts
    BY ConstantsAssumption DEF Have
  <2> QED BY <2>1, FS_Subset, HaveBound, PartsPositive, Zenon DEF n_parts
<1>8. /\ DOMAIN Store(c, id, count) = DOMAIN c /\ Store(c, id, count)[id] = count
      /\ \A i \in DOMAIN c : i # id => Store(c, id, count)[i] = c[i]
  BY <1>1, Zenon DEF Store
<1>9. ASSUME NEW i \in Images, Settled(i) PROVE Settled(i)'
  <2>1. i \in Range(published) => i \in Range(published')
    BY <1>5, SMTT(30) DEF IInv, TypeOK, Range
  <2>2. Doomed(i) => Doomed(i)'
    BY <1>3, <1>5, DoomedStable, Zenon DEF IInv, TypeOK
  <2> QED BY <1>3, <1>9, <2>1, <2>2, Zenon DEF Settled
<1>10. \A i \in overflowed' : i \in Images /\ Have(i)' # {}
  <2>1. ASSUME NEW i \in overflowed' PROVE i \in Images /\ Have(i) # {}
    <3>1. CASE i \in overflowed
      BY <3>1, Zenon DEF SInv, Short, IInv, TypeOK
    <3>2. CASE i \in d
      <4>1. i \in Images /\ meta_cache[i] \in 1 .. n_parts - 1
            /\ meta_cache[i] <= Cardinality(Have(i))
        BY <1>1, <1>2, <1>5, <3>2, Zenon DEF IInv, TypeOK, Counted
      <4> QED BY <4>1, PartsPositive, HaveBound, FS_EmptySet
    <3> QED BY <1>3, <2>1, <3>1, <3>2, Zenon
  <2>2. Have(id)' # {}
    <3>1. Cardinality(Have(id)') # 0
      BY <1>6, <1>7
    <3> QED BY <3>1, FS_EmptySet, Zenon
  <2> QED BY <1>6, <2>1, <2>2, Zenon
<1>11. id \in overflowed' => c[id] < Cardinality(Have(id))
  <2>1. SUFFICES ASSUME id \in overflowed PROVE c[id] < Cardinality(Have(id))
    BY <1>1, <1>2, <1>3, Zenon
  <2>2. CASE is_new_image(id)
    <3>1. Have(id) # {} /\ IsFiniteSet(Have(id))
      BY <2>1, HaveBound, Zenon DEF SInv, Short
    <3>2. Cardinality(Have(id)) # 0
      BY <3>1, FS_EmptySet, Zenon
    <3> QED BY <1>2, <1>7, <2>2, <3>2, SMTT(40)
  <2>3. CASE ~is_new_image(id)
    BY <1>2, <2>1, <2>3, Zenon DEF SInv, Short, is_new_image
  <2> QED BY <2>2, <2>3, Zenon
<1>12. \A i \in DOMAIN c : i # id /\ i \in overflowed' => c[i] < Cardinality(Have(i)')
  BY <1>1, <1>2, <1>3, <1>6, <1>10, ZenonT(40) DEF SInv, Short
<1>13. \A i \in Images : i # id /\ Have(i)' # {} =>
         \/ Settled(i)'
         \/ i \in DOMAIN c /\ c[i] = Cardinality(Have(i)')
  <2> SUFFICES ASSUME NEW i \in Images, i # id, Have(i)' # {}, ~Settled(i)'
               PROVE  i \in DOMAIN c /\ c[i] = Cardinality(Have(i)')
    OBVIOUS
  <2>1. i \in DOMAIN meta_cache /\ meta_cache[i] = Cardinality(Have(i))
    BY <1>6, <1>9, Zenon DEF SInv, Accounted
  <2>2. i \notin d
    BY <1>3, Zenon DEF Settled
  <2> QED BY <1>1, <1>2, <1>6, <2>1, <2>2, ZenonT(40)
<1>14. CASE /\ count # n_parts
            /\ image_id_queue' = q
            /\ meta_cache' = Store(c, id, count)
            /\ published' = published
  <2>1. Settled(id)' \/ count = Cardinality(Have(id)')
    <3>1. CASE Settled(id)
      BY <1>9, <3>1, Zenon
    <3>2. CASE ~Settled(id) /\ is_new_image(id)
      <4>1. Have(id) = {}
        BY <3>2, Zenon DEF SInv, Accounted, is_new_image
      <4> QED BY <1>2, <1>6, <3>2, <4>1, FS_EmptySet, ZenonT(40)
    <3>3. CASE ~Settled(id) /\ ~is_new_image(id)
      <4>1. /\ meta_cache[id] \in 1 .. n_parts - 1
            /\ meta_cache[id] <= Cardinality(Have(id))
        BY <1>5, <3>3, Zenon DEF IInv, TypeOK, Counted, is_new_image
      <4>2. Have(id) # {}
        BY <1>7, <4>1, FS_EmptySet
      <4>3. meta_cache[id] = Cardinality(Have(id))
        BY <3>3, <4>2, Zenon DEF SInv, Accounted
      <4> QED BY <1>2, <1>6, <3>3, <4>3, Zenon
    <3> QED BY <3>1, <3>2, <3>3, Zenon
  <2>2. Accounted'
    BY <1>1, <1>8, <1>13, <1>14, <2>1, Zenon DEF Accounted
  <2>3. Short'
    <3>1. id \in overflowed' => count < Cardinality(Have(id)')
      BY <1>1, <1>6, <1>7, <1>11, SMTT(40)
    <3> QED BY <1>8, <1>10, <1>12, <1>14, <3>1, ZenonT(40) DEF Short
  <2>4. QueueOrder'
    BY <1>4, <1>14, Zenon DEF QueueOrder
  <2> QED BY <1>5, <2>2, <2>3, <2>4, Zenon DEF SInv
<1>15. CASE count = n_parts /\ get_full_image(q, Store(c, id, count), id)
  <2>1. /\ \A i \in DOMAIN meta_cache' :
             i # id /\ i \in DOMAIN c /\ meta_cache'[i] = Store(c, id, count)[i]
        /\ published' = Append(published, id)
    BY <1>1, <1>8, <1>15, TakenOut, SMTT(40)
  <2>2. /\ \A a, b : Before(image_id_queue', a, b) => Before(q, a, b)
        /\ \A i \in Range(q) : i \in DOMAIN meta_cache' \/ i = id \/ Before(q, i, id)
    BY <1>1, <1>8, <1>15, TakenOutOrder, Zenon
  <2>3. \A k \in Parts : id \in delivered'[k]
    <3>1. published \in Seq(Images) /\ Len(published) \in Nat
      BY <1>5, LenProperties, Zenon DEF IInv, TypeOK
    <3>2. Len(Append(published, id)) = Len(published) + 1
      BY <3>1, AppendProperties, Zenon
    <3>3. published' # published
      BY <2>1, <3>1, <3>2, SMTT(40)
    <3> QED BY <1>5, <3>3, Zenon
  <2>4. id \notin overflowed'
    BY <1>1, <1>6, <1>7, <1>11, <1>15, SMTT(40)
  <2>5. ~Doomed(id)'
    BY <2>3, Zenon DEF Doomed
  <2>6. id \in Range(published')
    <3>1. published \in Seq(Images)
      BY <1>5, Zenon DEF IInv, TypeOK
    <3>2. Len(published') \in DOMAIN published' /\ published'[Len(published')] = id
      BY <2>1, <3>1, AppendProperties, LenProperties, SMTT(40)
    <3> QED BY <3>2, Zenon DEF Range
  <2>7. ASSUME NEW i \in Images, i # id, i \in DOMAIN c, i \notin DOMAIN meta_cache',
               c[i] = Cardinality(Have(i)')
        PROVE  Doomed(i)'
    <3>1. i \in Nat /\ id \in Nat
      BY ConstantsAssumption, Zenon
    <3>2. Before(q, i, id)
      BY <1>1, <2>2, <2>7, Zenon
    <3>3. i < id
      BY <1>4, <2>4, <2>5, <2>7, <3>1, <3>2, SMTT(40)
    <3>4. Cardinality(Have(i)') # n_parts
      BY <1>1, <1>5, <2>7, PartsPositive, SMTT(40) DEF IInv, TypeOK
    <3>5. PICK k \in Parts : k \notin Have(i)'
      <4>1. Have(i)' # Parts
        BY <3>4, Zenon DEF n_parts
      <4> QED BY <4>1, Zenon DEF Have
    <3> QED BY <2>3, <3>3, <3>5, Zenon DEF Doomed, Have
  <2>8. Accounted'
    <3> SUFFICES ASSUME NEW i \in Images, Have(i)' # {}, ~Settled(i)'
                 PROVE  i \in DOMAIN meta_cache' /\ meta_cache'[i] = Cardinality(Have(i)')
      BY Zenon DEF Accounted
    <3>1. i # id /\ ~Doomed(i)'
      BY <2>6, Zenon DEF Settled
    <3> QED BY <1>8, <1>13, <2>1, <2>7, <3>1, ZenonT(40)
  <2>9. Short'
    BY <1>8, <1>10, <1>12, <2>1, Zenon DEF Short
  <2>10. QueueOrder'
    BY <1>4, <2>2, Zenon DEF QueueOrder
  <2> QED BY <1>5, <2>8, <2>9, <2>10, SMTT(40) DEF SInv
<1> QED BY <1>3, <1>14, <1>15, Zenon

\* Every image that all receivers have delivered is sent, or was dropped
\* because the queue was too long: process_image_metadata never discards an
\* image that a slow receiver would still have completed.
THEOREM NoCompleteImageIsLost == Spec => []CompleteIsSent
<1>1. Init => SInv
  <2> SUFFICES ASSUME Init PROVE SInv
    OBVIOUS
  <2>1. IInv
    BY IInvInit, Zenon
  <2>2. \A id \in Images : Have(id) = {}
    BY Zenon DEF Init, Have
  <2>3. QueueOrder
    BY DEF Init, QueueOrder, Before
  <2> QED BY <2>1, <2>2, <2>3, Zenon DEF SInv, Accounted, Short, Init
<1>2. SInv /\ [Next]_vars => SInv'
  <2> SUFFICES ASSUME SInv, [Next]_vars PROVE SInv'
    OBVIOUS
  <2>1. CASE Next
    BY <2>1, Accounting, Zenon DEF Next, ReceiveFrom
  <2>2. CASE UNCHANGED vars
    BY <2>2, ZenonT(40) DEF vars, SInv, IInv, TypeOK, Coherent, NeverThrows, Counted, PublishedComplete,
                Have, n_parts, Accounted, Short, QueueOrder, Settled, Doomed
  <2> QED BY <2>1, <2>2, Zenon
<1>3. SInv => CompleteIsSent
  <2> SUFFICES ASSUME SInv, NEW id \in Images, \A p \in Parts : id \in delivered[p]
               PROVE  id \in Range(published) \cup overflowed
    BY Zenon DEF CompleteIsSent
  <2>1. Have(id) = Parts /\ ~Doomed(id)
    BY Zenon DEF Have, Doomed
  <2>2. id \in DOMAIN meta_cache => meta_cache[id] # Cardinality(Have(id))
    BY <2>1, PartsPositive DEF SInv, IInv, TypeOK, n_parts
  <2> QED BY <2>1, <2>2, ConstantsAssumption, Zenon DEF SInv, Accounted, Settled
<1> QED BY <1>1, <1>2, <1>3, PTL DEF Spec

(***************************************************************************)
(* The circular buffer of the delay filter.                                *)
(***************************************************************************)

\* The number of images held back.
Held == Len(received) - Len(forwarded)

Wrap(i) == IF i < size THEN i ELSE i - size

\* The slot of the k-th held image, counted from 0.
Slot(k) == Wrap(begin_ + k)

\* Held images lie between begin_ and end_, in the order of their arrival, and
\* the buffer is never full between two iterations.
Ring ==
  /\ Held \in 0 .. size - 1
  /\ end_ = Slot(Held)
  /\ \A k \in 0 .. size - 1 :
       k < Held => buffer_[Slot(k)].id = received[Len(forwarded) + 1 + k]

FilterInv == FilterTypeOK /\ Ring /\ ForwardedInOrder

LEMMA SizeType == size \in Nat /\ size >= 2
BY FilterAssumption DEF size

\* Adding one modulo the size is adding one and wrapping around.
LEMMA IncrementWraps ==
  ASSUME NEW i \in 0 .. size - 1
  PROVE  increment(i) = Wrap(i + 1) /\ increment(i) \in 0 .. size - 1
<1>1. \A n, x \in Nat : n > 0 /\ x < n => x % n = x
  OBVIOUS
<1>2. \A n \in Nat : n > 0 => n % n = 0
  OBVIOUS
<1>3. i + 1 < size => (i + 1) % size = i + 1
  BY <1>1, SizeType
<1>4. i + 1 = size => (i + 1) % size = 0
  BY <1>2, SizeType
<1> QED BY <1>3, <1>4, SizeType DEF increment, Wrap

\* Different distances from begin_ are different slots.
LEMMA DistinctSlots ==
  ASSUME NEW f \in 0 .. size - 1
  PROVE  /\ \A k \in 0 .. size - 1 : Wrap(f + k) \in 0 .. size - 1
         /\ \A j, k \in 0 .. size - 1 : Wrap(f + j) = Wrap(f + k) => j = k
         /\ Wrap(f + 0) = f /\ Wrap(f + size) = f
         /\ \A k \in 0 .. size - 1 : Wrap(Wrap(f + k) + 1) = Wrap(f + (k + 1))
         /\ \A k \in 0 .. size - 1 : Wrap(Wrap(f + 1) + k) = Wrap(f + (k + 1))
BY SizeType DEF Wrap

LEMMA LastType == ASSUME FilterTypeOK PROVE Last(received \o inbox) \in Nat
<1>1. received \o inbox \in Seq(Nat)
  BY ConcatProperties, Zenon DEF FilterTypeOK
<1> QED BY <1>1, ElementOfSeq, LenProperties, SMTT(40) DEF Last, EmptyMeta

LEMMA PublishKeeps == ASSUME FilterInv, Publish PROVE FilterInv'
<1>1. PICK gap \in 1 .. MaxGap : inbox' = Append(inbox, Last(received \o inbox) + gap)
  BY Zenon DEF Publish
<1>2. inbox' \in Seq(Nat)
  BY <1>1, LastType, FilterAssumption DEF FilterInv, FilterTypeOK
<1> QED BY <1>2, Zenon DEF FilterInv, FilterTypeOK, Ring, Held, Slot, ForwardedInOrder, Publish, size, Wrap, Expired

LEMMA TickKeeps == ASSUME FilterInv, Tick PROVE FilterInv'
<1>1. /\ buffer_' \in [0 .. size - 1 -> [age : 0 .. Expired, id : Nat]]
      /\ \A i \in 0 .. size - 1 : buffer_'[i].id = buffer_[i].id
  <2>1. \A a \in 0 .. Expired : Older(a) \in 0 .. Expired
    BY FilterAssumption DEF Older, Expired
  <2>2. /\ buffer_ \in [0 .. size - 1 -> [age : 0 .. Expired, id : Nat]]
        /\ buffer_' = [i \in DOMAIN buffer_ |-> [buffer_[i] EXCEPT !.age = Older(@)]]
    BY Zenon DEF FilterInv, FilterTypeOK, Tick
  <2> QED BY <2>1, <2>2, Zenon
<1>2. UNCHANGED <<inbox, begin_, end_, received, forwarded>>
  BY Zenon DEF Tick
<1>3. FilterTypeOK'
  BY <1>1, <1>2, Zenon DEF FilterInv, FilterTypeOK, size, Expired
<1>4. \A k \in 0 .. size - 1 : Slot(k) \in 0 .. size - 1
  BY DistinctSlots, Zenon DEF FilterInv, FilterTypeOK, Slot
<1>5. Ring'
  BY <1>1, <1>2, <1>4, Zenon DEF FilterInv, Ring, Held, Slot, size, Wrap
<1> QED BY <1>2, <1>3, <1>5, Zenon DEF FilterInv, ForwardedInOrder

\* The buffer right after the push: one more image, at the end.
LEMMA PushedLast ==
  ASSUME FilterInv, inbox # << >>, NEW id, id = Head(inbox), NEW b, b = push(id)
  PROVE  /\ id \in Nat /\ Tail(inbox) \in Seq(Nat)
         /\ Append(received, id) \in Seq(Nat)
         /\ b \in [0 .. size - 1 -> [age : 0 .. Expired, id : Nat]]
         /\ increment(end_) = Slot(Held + 1) /\ increment(end_) \in 0 .. size - 1
         /\ \A k \in 0 .. size - 1 :
              k <= Held => b[Slot(k)].id = Append(received, id)[Len(forwarded) + 1 + k]
<1>1. id \in Nat /\ Tail(inbox) \in Seq(Nat)
  BY HeadTailProperties, Zenon DEF FilterInv, FilterTypeOK
<1>2. /\ received \in Seq(Nat) /\ Len(received) \in Nat /\ Len(forwarded) \in Nat
      /\ Append(received, id) \in Seq(Nat)
      /\ \A i \in 1 .. Len(received) : Append(received, id)[i] = received[i]
      /\ Append(received, id)[Len(received) + 1] = id
  BY <1>1, AppendProperties, LenProperties DEF FilterInv, FilterTypeOK
<1>3. b \in [0 .. size - 1 -> [age : 0 .. Expired, id : Nat]]
  BY <1>1, FilterAssumption DEF FilterInv, FilterTypeOK, push, Expired
<1>4. /\ begin_ \in 0 .. size - 1 /\ end_ \in 0 .. size - 1
      /\ Held \in 0 .. size - 1 /\ end_ = Wrap(begin_ + Held)
  BY Zenon DEF FilterInv, FilterTypeOK, Ring, Slot
<1>5. increment(end_) = Slot(Held + 1) /\ increment(end_) \in 0 .. size - 1
  BY <1>4, IncrementWraps, DistinctSlots DEF Slot
<1>6. ASSUME NEW k \in 0 .. size - 1, k <= Held
      PROVE  b[Slot(k)].id = Append(received, id)[Len(forwarded) + 1 + k]
  <2>1. Slot(k) \in 0 .. size - 1 /\ (Slot(k) = end_ => k = Held)
    BY <1>4, DistinctSlots DEF Slot
  <2>2. Len(received) = Len(forwarded) + Held
    BY <1>2 DEF Held
  <2>3. CASE k = Held
    <3>1. b[end_].id = id
      BY <1>4, Zenon DEF push, FilterInv, FilterTypeOK
    <3>2. Len(forwarded) + 1 + k = Len(received) + 1
      BY <1>2, <1>4, <2>2, <2>3
    <3> QED BY <1>2, <1>4, <2>3, <3>1, <3>2, Zenon DEF Slot
  <2>4. CASE k # Held
    <3>1. k < Held /\ Len(forwarded) + 1 + k \in 1 .. Len(received)
      <4>1. k \in Nat /\ Held \in Nat /\ k <= Held /\ k # Held
        BY <1>4, <1>6, <2>4, SizeType
      <4>2. Len(forwarded) \in Nat /\ Len(received) = Len(forwarded) + Held
        BY <1>2, <2>2, Zenon
      <4> HIDE DEF Held
      <4> QED BY <4>1, <4>2
    <3>2. b[Slot(k)] = buffer_[Slot(k)]
      BY <2>1, <2>4, Zenon DEF push, FilterInv, FilterTypeOK
    <3>3. buffer_[Slot(k)].id = received[Len(forwarded) + 1 + k]
      BY <3>1, Zenon DEF FilterInv, Ring
    <3> QED BY <1>2, <3>1, <3>2, <3>3, Zenon
  <2> QED BY <2>3, <2>4, Zenon
<1> QED BY <1>1, <1>2, <1>3, <1>5, <1>6, Zenon

\* What an iteration of the loop does to the images held back: without a pop
\* there is one more, with one the oldest leaves.
LEMMA ProcessKeeps ==
  ASSUME FilterInv, process
  PROVE  /\ FilterInv'
         /\ \/ forwarded' = forwarded
            \/ /\ forwarded' = Append(forwarded, [id |-> received'[Len(forwarded) + 1], newest |-> Head(inbox)])
               /\ Len(received') - Len(forwarded) <= size
               /\ Len(forwarded) < Len(received')
<1> DEFINE id == Head(inbox)
           b  == push(id)
           e  == increment(end_)
<1>0. PICK h \in 0 .. size - 1 : h = Held
  BY Zenon DEF FilterInv, Ring
<1>1. /\ inbox # << >> /\ inbox' = Tail(inbox)
      /\ received' = Append(received, id) /\ end_' = e
      /\ \/ MayPop(b, e) /\ forward(b, id)
         \/ MayKeep(b, e) /\ buffer_' = b /\ UNCHANGED <<begin_, forwarded>>
  BY Zenon DEF process
<1>2. /\ id \in Nat /\ inbox' \in Seq(Nat) /\ received' \in Seq(Nat)
      /\ b \in [0 .. size - 1 -> [age : 0 .. Expired, id : Nat]]
      /\ e = Slot(h + 1) /\ e \in 0 .. size - 1
      /\ \A k \in 0 .. size - 1 : k <= h => b[Slot(k)].id = received'[Len(forwarded) + 1 + k]
  BY <1>0, <1>1, PushedLast, Zenon
<1>3. /\ Len(received) \in Nat /\ Len(forwarded) \in Nat /\ Len(received) = Len(forwarded) + h
      /\ Len(received') = Len(received) + 1
      /\ \A i \in 1 .. Len(received) : received'[i] = received[i]
      /\ h \in Nat /\ h < size /\ begin_ \in 0 .. size - 1
      /\ forwarded \in Seq([id : Nat, newest : Nat])
  <2>1. received \in Seq(Nat) /\ forwarded \in Seq([id : Nat, newest : Nat])
    BY Zenon DEF FilterInv, FilterTypeOK
  <2>2. Len(received) \in Nat /\ Len(forwarded) \in Nat
    BY <2>1, LenProperties, Zenon
  <2>3. /\ Len(received') = Len(received) + 1
        /\ \A i \in 1 .. Len(received) : received'[i] = received[i]
    BY <1>1, <1>2, <2>1, AppendProperties
  <2>4. h \in Nat /\ h < size /\ begin_ \in 0 .. size - 1
    BY SizeType DEF FilterInv, FilterTypeOK
  <2> QED BY <1>0, <2>1, <2>2, <2>3, <2>4, SMTT(30) DEF Held
<1>4. \A k \in 1 .. Len(forwarded) : forwarded[k].id = received'[k]
  BY <1>3 DEF FilterInv, ForwardedInOrder
<1> HIDE DEF id, b, e
<1>5. CASE MayKeep(b, e) /\ buffer_' = b /\ UNCHANGED <<begin_, forwarded>>
  <2>1. h + 1 \in 0 .. size - 1
    <3>1. begin_ # Wrap(begin_ + (h + 1))
      BY <1>2, <1>5, Zenon DEF MayKeep, Slot
    <3>2. h + 1 # size
      BY <1>3, <3>1, DistinctSlots, Zenon
    <3> QED BY <1>3, <3>2, SizeType
  <2>2. Held' = h + 1
    BY <1>3, <1>5 DEF Held
  <2>3. FilterTypeOK'
    BY <1>1, <1>2, <1>5, Zenon DEF FilterInv, FilterTypeOK, size, Expired
  <2>4. \A k \in 0 .. size - 1 :
          k < h + 1 => buffer_'[Slot(k)].id = received'[Len(forwarded) + 1 + k]
    BY <1>2, <1>3, <1>5
  <2>5. Ring'
    BY <1>1, <1>2, <1>5, <2>1, <2>2, <2>4, ZenonT(40) DEF Ring, Slot, Wrap, size
  <2>6. ForwardedInOrder'
    BY <1>3, <1>4, <1>5 DEF FilterInv, ForwardedInOrder
  <2> QED BY <1>5, <2>3, <2>5, <2>6, Zenon DEF FilterInv
<1>6. CASE MayPop(b, e) /\ forward(b, id)
  <2> DEFINE m == [id |-> b[begin_].id, newest |-> id]
  <2>1. /\ begin_' = Wrap(begin_ + 1) /\ begin_' \in 0 .. size - 1
        /\ buffer_' = [b EXCEPT ![begin_].id = EmptyMeta]
        /\ forwarded' = Append(forwarded, m)
    BY <1>3, <1>6, IncrementWraps, Zenon DEF forward
  <2>2. b[begin_].id = received'[Len(forwarded) + 1]
    <3>1. 0 \in 0 .. size - 1 /\ 0 <= h /\ Len(forwarded) + 1 + 0 = Len(forwarded) + 1
      BY <1>3, SizeType
    <3>2. Slot(0) = begin_
      BY <1>3, DistinctSlots, Zenon DEF Slot
    <3>3. b[Slot(0)].id = received'[Len(forwarded) + 1 + 0]
      BY <1>2, <3>1, Zenon
    <3> QED BY <3>1, <3>2, <3>3, Zenon
  <2>3. m \in [id : Nat, newest : Nat]
    BY <1>2, <1>3, Zenon
  <2>4. /\ forwarded' \in Seq([id : Nat, newest : Nat]) /\ Len(forwarded') = Len(forwarded) + 1
        /\ \A k \in 1 .. Len(forwarded) : forwarded'[k] = forwarded[k]
        /\ forwarded'[Len(forwarded) + 1] = m
    BY <1>3, <2>1, <2>3, AppendProperties
  <2>5. buffer_' \in [0 .. size - 1 -> [age : 0 .. Expired, id : Nat]]
    BY <1>2, <1>3, <2>1, ZenonT(40) DEF EmptyMeta
  <2>6. FilterTypeOK'
    BY <1>1, <1>2, <2>1, <2>4, <2>5, Zenon DEF FilterTypeOK, size, Expired
  <2>7. Held' = h
    BY <1>3, <2>4 DEF Held
  <2>8. end_' = Wrap(begin_' + h)
    BY <1>1, <1>2, <1>3, <2>1, DistinctSlots, SMTT(40) DEF Slot
  <2>9. ASSUME NEW k \in 0 .. size - 1, k < h
        PROVE  buffer_'[Wrap(begin_' + k)].id = received'[Len(forwarded') + 1 + k]
    <3>1. Wrap(begin_' + k) = Slot(k + 1)
      BY <1>3, <2>1, DistinctSlots DEF Slot
    <3>2. k + 1 \in 0 .. size - 1 /\ k + 1 <= h /\ 0 \in 0 .. size - 1 /\ k + 1 # 0
      BY <1>3, <2>9, SizeType
    <3>3. Slot(k + 1) \in 0 .. size - 1 /\ Slot(k + 1) # begin_
      <4>1. Wrap(begin_ + (k + 1)) # Wrap(begin_ + 0)
        BY <1>3, <3>2, DistinctSlots
      <4> QED BY <1>3, <3>2, <4>1, DistinctSlots, Zenon DEF Slot
    <3>4. buffer_'[Slot(k + 1)].id = b[Slot(k + 1)].id
      BY <1>2, <2>1, <3>3, Zenon
    <3>5. Len(forwarded') + 1 + k = Len(forwarded) + 1 + (k + 1)
      BY <1>3, <2>4
    <3> QED BY <1>2, <3>1, <3>2, <3>4, <3>5, Zenon
  <2>10. Ring'
    <3>1. \A k : Slot(k)' = Wrap(begin_' + k)
      BY Zenon DEF Slot, Wrap, size
    <3>2. size' = size
      BY Zenon DEF size
    <3> QED BY <2>7, <2>8, <2>9, <3>1, <3>2, Zenon DEF Ring
  <2>11. ForwardedInOrder'
    <3>1. Len(forwarded') <= Len(received')
      BY <1>3, <2>4
    <3>2. ASSUME NEW k \in 1 .. Len(forwarded') PROVE forwarded'[k].id = received'[k]
      <4>1. CASE k \in 1 .. Len(forwarded)
        BY <1>4, <2>4, <4>1, Zenon
      <4>2. CASE k = Len(forwarded) + 1
        BY <2>2, <2>4, <4>2
      <4> QED BY <1>3, <2>4, <4>1, <4>2
    <3> QED BY <3>1, <3>2, Zenon DEF ForwardedInOrder
  <2>12. Len(received') - Len(forwarded) <= size /\ Len(forwarded) < Len(received')
    BY <1>3, SizeType
  <2>13. forwarded' = Append(forwarded, [id |-> received'[Len(forwarded) + 1], newest |-> Head(inbox)])
    BY <2>1, <2>2, Zenon DEF id
  <2> QED BY <2>6, <2>10, <2>11, <2>12, <2>13, Zenon DEF FilterInv
<1> QED BY <1>1, <1>5, <1>6, Zenon

LEMMA FilterInvInit == FilterInit => FilterInv
<1> SUFFICES ASSUME FilterInit PROVE FilterInv
  OBVIOUS
<1>1. FilterTypeOK
  BY SizeType, FilterAssumption DEF FilterInit, FilterTypeOK, Expired, EmptyMeta
<1>2. Ring
  BY SizeType DEF FilterInit, Ring, Held, Slot, Wrap
<1> QED BY <1>1, <1>2 DEF FilterInit, FilterInv, ForwardedInOrder

LEMMA FilterInvNext == FilterInv /\ [FilterNext]_filter_vars => FilterInv'
<1>1. ASSUME FilterInv, FilterNext PROVE FilterInv'
  BY <1>1, PublishKeeps, TickKeeps, ProcessKeeps, Zenon DEF FilterNext
<1>2. ASSUME FilterInv, UNCHANGED filter_vars PROVE FilterInv'
  BY <1>2, Zenon DEF filter_vars, FilterInv, FilterTypeOK, Ring, Held, Slot, Wrap, ForwardedInOrder, size, Expired
<1> QED BY <1>1, <1>2, Zenon

\* The indices of push and pop stay inside the circular buffer.
THEOREM FilterTypeCorrect == FilterSpec => []FilterTypeOK
<1>1. FilterInv => FilterTypeOK
  BY Zenon DEF FilterInv
<1> QED BY <1>1, FilterInvInit, FilterInvNext, PTL DEF FilterSpec

\* The delay filter loses, repeats and reorders nothing, whatever the sizes, the
\* delays and the moments at which it finds its buffer full.
THEOREM FilterKeepsOrder == FilterSpec => []ForwardedInOrder
<1>1. FilterInv => ForwardedInOrder
  BY Zenon DEF FilterInv
<1> QED BY <1>1, FilterInvInit, FilterInvNext, PTL DEF FilterSpec

-----------------------------------------------------------------------------
(* The ring buffer of the detector, when no image id is missing.           *)

\* The ids of the stream, read and unread, are consecutive.
Consecutive ==
  /\ \A i \in 1 .. Len(received) : received[i] = i
  /\ \A i \in 1 .. Len(inbox) : inbox[i] = Len(received) + i

RingInv == FilterInv /\ Consecutive /\ StillInRing

LEMMA PublishConsecutive ==
  ASSUME MaxGap = 1, RingInv, Publish PROVE Consecutive'
<1> DEFINE all == received \o inbox
<1>1. /\ received \in Seq(Nat) /\ Len(received) \in Nat
      /\ inbox \in Seq(Nat) /\ Len(inbox) \in Nat
      /\ received' = received
  BY LenProperties, Zenon DEF RingInv, FilterInv, FilterTypeOK, Publish
<1>2. PICK gap \in 1 .. MaxGap : inbox' = Append(inbox, Last(all) + gap)
  BY Zenon DEF Publish
<1>3. gap = 1
  BY <1>2
<1>4. Last(all) = Len(received) + Len(inbox)
  <2>1. /\ all \in Seq(Nat) /\ Len(all) = Len(received) + Len(inbox)
        /\ \A i \in 1 .. Len(received) + Len(inbox) :
             all[i] = IF i <= Len(received) THEN received[i] ELSE inbox[i - Len(received)]
    BY <1>1, ConcatProperties, Zenon
  <2> HIDE DEF all
  <2>2. CASE Len(all) = 0
    <3>1. all = << >>
      BY <2>1, <2>2, EmptySeq, Zenon
    <3> QED BY <2>1, <2>2, <3>1, Zenon DEF Last, EmptyMeta
  <2>3. CASE Len(all) # 0
    <3>1. all # << >> /\ Len(all) \in 1 .. Len(received) + Len(inbox)
      BY <1>1, <2>1, <2>3, EmptySeq, SMTT(40)
    <3>2. CASE Len(inbox) = 0
      BY <1>1, <2>1, <3>1, <3>2, SMTT(40) DEF Last, RingInv, Consecutive
    <3>3. CASE Len(inbox) # 0
      <4>1. /\ Len(inbox) \in 1 .. Len(inbox) /\ ~(Len(all) <= Len(received))
            /\ Len(all) - Len(received) = Len(inbox)
        BY <1>1, <2>1, <3>3, SMTT(40)
      <4>2. all[Len(all)] = inbox[Len(inbox)]
        BY <2>1, <3>1, <4>1, Zenon
      <4> QED BY <2>1, <3>1, <4>1, <4>2, ZenonT(40) DEF Last, RingInv, Consecutive
    <3> QED BY <3>2, <3>3, Zenon
  <2> QED BY <2>2, <2>3, Zenon
<1> HIDE DEF all
<1>5. Last(all) + gap \in Nat /\ Last(all) + gap = Len(received) + (Len(inbox) + 1)
  BY <1>1, <1>3, <1>4, SMTT(40)
<1>6. /\ Len(inbox') = Len(inbox) + 1
      /\ \A i \in 1 .. Len(inbox) : inbox'[i] = inbox[i]
      /\ inbox'[Len(inbox) + 1] = Len(received) + (Len(inbox) + 1)
  BY <1>1, <1>2, <1>5, AppendProperties, SMTT(40)
<1>7. ASSUME NEW i \in 1 .. Len(inbox') PROVE inbox'[i] = Len(received') + i
  <2>1. CASE i \in 1 .. Len(inbox)
    BY <1>1, <1>6, <2>1, Zenon DEF RingInv, Consecutive
  <2>2. CASE i = Len(inbox) + 1
    BY <1>1, <1>6, <2>2, Zenon
  <2> QED BY <1>1, <1>6, <2>1, <2>2, SMTT(40)
<1> QED BY <1>1, <1>7, Zenon DEF RingInv, Consecutive

LEMMA ProcessConsecutive == ASSUME RingInv, process PROVE Consecutive'
<1>1. /\ received \in Seq(Nat) /\ Len(received) \in Nat
      /\ inbox \in Seq(Nat) /\ inbox # << >>
      /\ inbox' = Tail(inbox) /\ received' = Append(received, Head(inbox))
  BY LenProperties, Zenon DEF RingInv, FilterInv, FilterTypeOK, process
<1>2. /\ Len(inbox) \in Nat \ {0} /\ Head(inbox) = inbox[1] /\ Head(inbox) \in Nat
      /\ Len(inbox') = Len(inbox) - 1
      /\ \A i \in 1 .. Len(inbox') : inbox'[i] = inbox[i + 1]
  BY <1>1, HeadTailProperties, EmptySeq, LenProperties
<1>3. /\ Len(received') = Len(received) + 1
      /\ \A i \in 1 .. Len(received) : received'[i] = received[i]
      /\ received'[Len(received) + 1] = Head(inbox)
  BY <1>1, <1>2, AppendProperties
<1>4. Head(inbox) = Len(received) + 1
  BY <1>2 DEF RingInv, Consecutive
<1>5. ASSUME NEW i \in 1 .. Len(received') PROVE received'[i] = i
  <2>1. CASE i \in 1 .. Len(received)
    BY <1>3, <2>1, Zenon DEF RingInv, Consecutive
  <2>2. CASE i = Len(received) + 1
    BY <1>3, <1>4, <2>2, Zenon
  <2> QED BY <1>1, <1>3, <2>1, <2>2, SMTT(30)
<1>6. ASSUME NEW i \in 1 .. Len(inbox') PROVE inbox'[i] = Len(received') + i
  <2>1. i + 1 \in 1 .. Len(inbox)
    BY <1>2
  <2>2. inbox[i + 1] = Len(received) + (i + 1)
    BY <2>1, Zenon DEF RingInv, Consecutive
  <2> QED BY <1>1, <1>2, <1>3, <2>2, SMTT(40)
<1> QED BY <1>5, <1>6, Zenon DEF Consecutive

LEMMA ProcessStillInRing == ASSUME RingInv, process PROVE StillInRing'
<1>1. FilterInv' /\ Consecutive'
  BY ProcessKeeps, ProcessConsecutive, Zenon DEF RingInv
<1>2. CASE forwarded' = forwarded
  BY <1>2, Zenon DEF RingInv, StillInRing
<1>3. CASE /\ forwarded' = Append(forwarded, [id |-> received'[Len(forwarded) + 1], newest |-> Head(inbox)])
           /\ Len(received') - Len(forwarded) <= size
           /\ Len(forwarded) < Len(received')
  <2> DEFINE m == [id |-> received'[Len(forwarded) + 1], newest |-> Head(inbox)]
  <2>1. /\ forwarded \in Seq([id : Nat, newest : Nat]) /\ Len(forwarded) \in Nat
        /\ received' \in Seq(Nat) /\ Len(received') \in Nat
    BY <1>1, LenProperties, Zenon DEF RingInv, FilterInv, FilterTypeOK
  <2>2. received'[Len(forwarded) + 1] = Len(forwarded) + 1
    BY <1>1, <1>3, <2>1, SMTT(40) DEF Consecutive
  <2>3. Head(inbox) = Len(received')
    <3>1. /\ received \in Seq(Nat) /\ inbox \in Seq(Nat) /\ inbox # << >>
          /\ received' = Append(received, Head(inbox))
      BY Zenon DEF RingInv, FilterInv, FilterTypeOK, process
    <3>2. /\ Head(inbox) \in Nat /\ Head(inbox) = inbox[1] /\ 1 \in 1 .. Len(inbox)
      BY <3>1, HeadTailProperties, EmptySeq, LenProperties, SMTT(40)
    <3>3. Len(received') = Len(received) + 1
      BY <3>1, <3>2, AppendProperties, ZenonT(40)
    <3> QED BY <3>2, <3>3, Zenon DEF RingInv, Consecutive
  <2>4. m \in [id : Nat, newest : Nat] /\ m.id = Len(forwarded) + 1 /\ m.newest = Len(received')
    BY <2>1, <2>2, <2>3, SMTT(40)
  <2>5. m.newest - m.id + min_history < slots
    BY <1>3, <2>1, <2>4, FilterAssumption, SMTT(30) DEF size
  <2>6. /\ Len(forwarded') = Len(forwarded) + 1
        /\ \A k \in 1 .. Len(forwarded) : forwarded'[k] = forwarded[k]
        /\ forwarded'[Len(forwarded) + 1] = m
    BY <1>3, <2>1, <2>4, AppendProperties
  <2> HIDE DEF m
  <2>7. ASSUME NEW k \in 1 .. Len(forwarded')
        PROVE  forwarded'[k].newest - forwarded'[k].id + min_history < slots
    <3>1. CASE k \in 1 .. Len(forwarded)
      BY <2>6, <3>1, Zenon DEF RingInv, StillInRing
    <3>2. CASE k = Len(forwarded) + 1
      BY <2>5, <2>6, <3>2, Zenon
    <3> QED BY <2>1, <2>6, <3>1, <3>2, SMTT(40)
  <2> QED BY <2>7, Zenon DEF StillInRing
<1> QED BY <1>2, <1>3, ProcessKeeps, Zenon DEF RingInv

\* As long as the stream has no gaps, a forwarded image is still in the ring
\* buffer of the detector, with min_history slots to spare for the writer.
THEOREM ForwardedIsStillInRing ==
  ASSUME MaxGap = 1 PROVE FilterSpec => []StillInRing
<1>1. FilterInit => RingInv
  BY FilterInvInit DEF FilterInit, RingInv, Consecutive, StillInRing
<1>2. RingInv /\ [FilterNext]_filter_vars => RingInv'
  <2> SUFFICES ASSUME RingInv, [FilterNext]_filter_vars PROVE Consecutive' /\ StillInRing'
    BY FilterInvNext, Zenon DEF RingInv
  <2>1. CASE Publish
    BY <2>1, PublishConsecutive, Zenon DEF Publish, RingInv, StillInRing
  <2>2. CASE Tick
    BY <2>2, Zenon DEF Tick, RingInv, Consecutive, StillInRing
  <2>3. CASE process
    BY <2>3, ProcessConsecutive, ProcessStillInRing, Zenon
  <2>4. CASE UNCHANGED filter_vars
    BY <2>4, Zenon DEF filter_vars, RingInv, Consecutive, StillInRing
  <2> QED BY <2>1, <2>2, <2>3, <2>4, Zenon DEF FilterNext
<1>3. RingInv => StillInRing
  BY Zenon DEF RingInv
<1> QED BY <1>1, <1>2, <1>3, PTL DEF FilterSpec
=============================================================================
