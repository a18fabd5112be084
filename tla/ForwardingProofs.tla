-------------------------- MODULE ForwardingProofs --------------------------
(***************************************************************************)
(* The second way of forwarding: the synchronizer of images and metadata,  *)
(* for any image ids, any number of waiting metadata and any interleaving  *)
(* of its three threads, and the senders and receivers in front of it, for *)
(* any number of pairs, slots and queued messages.                         *)
(***************************************************************************)
EXTENDS Forwarding, TLAPS, FiniteSetTheorems, SequenceTheorems, WellFoundedInduction

(***************************************************************************)
(* The synchronizer of images and metadata.                                *)
(***************************************************************************)

\* A queue of image ids that is not empty has a first element, and only one.
LEMMA FirstExists ==
  ASSUME NEW s, s \subseteq Nat, s # {}
  PROVE  \E i \in s : IsFirst(i, s) /\ First(s) = {i}
<1>1. \E i \in s : \A j \in s : ~(<<j, i>> \in OpToRel(<, Nat))
  BY NatLessThanWellFounded, WFMin, Zenon
<1>2. \A i, j \in s : ~(<<j, i>> \in OpToRel(<, Nat)) => i <= j
  BY DEF OpToRel
<1>3. PICK i \in s : IsFirst(i, s)
  BY <1>1, <1>2, Zenon DEF IsFirst
<1>4. \A j \in s : IsFirst(j, s) => j = i
  BY <1>3 DEF IsFirst
<1> QED BY <1>3, <1>4, Zenon DEF First

\* Metadata that is too much for the limit makes room by its oldest id.
LEMMA GrownFits ==
  ASSUME SyncTypeOK, NEW id \in Images, NEW gone,
         gone = IF Cardinality(metadata_cache \cup {id}) > n_images_buffer
                THEN First(metadata_cache \cup {id}) ELSE {}
  PROVE  LET rest == (metadata_cache \cup {id}) \ gone
         IN  /\ gone \subseteq metadata_cache \cup {id}
             /\ IsFiniteSet(rest)
             /\ Cardinality(rest) <= n_images_buffer
<1> DEFINE grown == metadata_cache \cup {id}
<1>1. /\ IsFiniteSet(grown) /\ Cardinality(grown) \in Nat
      /\ Cardinality(grown) <= n_images_buffer + 1
  <2>1. IsFiniteSet(metadata_cache) /\ Cardinality(metadata_cache) \in Nat
    BY FS_CardinalityType, Zenon DEF SyncTypeOK
  <2>2. /\ IsFiniteSet(grown)
        /\ \/ Cardinality(grown) = Cardinality(metadata_cache)
           \/ Cardinality(grown) = Cardinality(metadata_cache) + 1
    BY <2>1, FS_AddElement, Zenon
  <2> HIDE DEF grown
  <2> QED BY <2>1, <2>2, MetadataAssumption DEF SyncTypeOK
<1>2. grown \subseteq Nat /\ grown # {}
  BY MetadataAssumption, Zenon DEF SyncTypeOK
<1>3. CASE gone = {}
  <2>1. Cardinality(grown) <= n_images_buffer
    <3>1. First(grown) # {}
      BY <1>2, FirstExists, Zenon
    <3> HIDE DEF grown
    <3> QED BY <1>1, <1>3, <3>1, MetadataAssumption DEF grown
  <2>2. grown \ gone = grown
    BY <1>3, Zenon
  <2> QED BY <1>1, <1>3, <2>1, <2>2, Zenon
<1>4. CASE gone # {}
  <2>1. PICK i \in grown : gone = {i}
    BY <1>2, <1>4, FirstExists, Zenon
  <2>2. IsFiniteSet(grown \ {i}) /\ Cardinality(grown \ {i}) = Cardinality(grown) - 1
    BY <1>1, <2>1, FS_RemoveElement, Zenon
  <2> HIDE DEF grown
  <2>3. Cardinality(grown \ {i}) <= n_images_buffer
    BY <1>1, <2>2, MetadataAssumption
  <2> QED BY <2>1, <2>2, <2>3, Zenon DEF grown
<1> QED BY <1>3, <1>4, Zenon

-----------------------------------------------------------------------------
(* The inductive invariant.                                                *)

\* The queues hold only what has come, and all that was sent is older than the
\* metadata that waits.
Queues ==
  /\ metadata_cache \subseteq announced
  /\ received_images \subseteq arrived
  /\ Sent \subseteq announced \cap arrived
  /\ \A i \in Sent, j \in metadata_cache : i < j
  /\ \A i, j \in DOMAIN sent : i < j => sent[i] < sent[j]
  /\ adding.begin \in announced \cup {Header}

\* Metadata that has come was sent, waits or was dropped.
MetadataKept == announced \subseteq Sent \cup metadata_cache \cup evicted

\* An image whose metadata neither waits nor will ever come.
IsPast(i) == i \notin metadata_cache /\ \E j \in announced : i < j

\* An image that has come was sent, waits, was lost to the unlocked read, or
\* was rightly cleaned up.
ImagesKept == \A i \in arrived : i \in Sent \cup received_images \cup raced \/ IsPast(i)

SyncInv == SyncTypeOK /\ Queues /\ MetadataKept /\ ImagesKept

LEMMA SyncInvInit == SyncInit => SyncInv
<1> SUFFICES ASSUME SyncInit PROVE SyncInv
  OBVIOUS
<1>1. IsFiniteSet(metadata_cache) /\ Cardinality(metadata_cache) = 0
  BY FS_EmptySet, Zenon DEF SyncInit
<1>2. SyncTypeOK
  BY <1>1, MetadataAssumption, EmptySeq DEF SyncInit, SyncTypeOK, Idle
<1>3. DOMAIN sent = {} /\ Sent = {}
  BY DEF SyncInit, Sent
<1> QED BY <1>2, <1>3, Zenon DEF SyncInit, SyncInv, Queues, MetadataKept, ImagesKept, Idle

LEMMA AddMetadataKeeps ==
  ASSUME SyncInv, NEW id \in Images, \A i \in announced : i < id, add_metadata(id)
  PROVE  SyncInv'
<1> DEFINE grown == metadata_cache \cup {id}
<1>1. PICK gone : /\ gone = IF Cardinality(grown) > n_images_buffer THEN First(grown) ELSE {}
                  /\ metadata_cache' = grown \ gone
                  /\ announced' = announced \cup {id}
                  /\ evicted' = evicted \cup gone
                  /\ UNCHANGED <<received_images, adding, sent, arrived, raced>>
  BY Zenon DEF add_metadata
<1>2. /\ gone \subseteq grown
      /\ IsFiniteSet(grown \ gone)
      /\ Cardinality(grown \ gone) <= n_images_buffer
  BY <1>1, GrownFits, Zenon DEF SyncInv
<1>3. SyncTypeOK'
  <2>1. IsFiniteSet(metadata_cache') /\ Cardinality(metadata_cache') <= n_images_buffer
    BY <1>1, <1>2, Zenon
  <2> QED BY <1>1, <1>2, <2>1, Zenon DEF SyncInv, SyncTypeOK
<1>4. Sent' = Sent
  BY <1>1, Zenon DEF Sent
<1>5. Queues'
  BY <1>1, <1>4, Zenon DEF SyncInv, Queues
<1>6. MetadataKept'
  BY <1>1, <1>4, Zenon DEF SyncInv, MetadataKept
<1>7. ImagesKept'
  <2> SUFFICES ASSUME NEW i \in arrived', IsPast(i) PROVE IsPast(i)'
    BY <1>1, <1>4, Zenon DEF SyncInv, ImagesKept
  <2>1. PICK j \in announced : i < j
    BY Zenon DEF IsPast
  <2>2. i # id
    BY <1>1, <2>1, MetadataAssumption DEF SyncInv, SyncTypeOK
  <2> QED BY <1>1, <2>1, <2>2, Zenon DEF IsPast
<1> QED BY <1>3, <1>5, <1>6, <1>7, Zenon DEF SyncInv

LEMMA AddImageKeeps ==
  ASSUME SyncInv, NEW id \in Images, add_received_image(id)
  PROVE  SyncInv'
<1>1. PICK b : /\ b \in metadata_cache \cup {Header}
               /\ adding' = [id |-> id, begin |-> b]
  BY Zenon DEF add_received_image, First
<1>2. /\ received_images' = received_images \cup {id}
      /\ arrived' = arrived \cup {id}
      /\ UNCHANGED <<metadata_cache, sent, announced, evicted, raced>>
  BY Zenon DEF add_received_image
<1>3. Sent' = Sent
  BY <1>2, Zenon DEF Sent
<1>4. SyncTypeOK'
  BY <1>1, <1>2, Zenon DEF SyncInv, SyncTypeOK
<1>5. Queues'
  BY <1>1, <1>2, <1>3, Zenon DEF SyncInv, Queues
<1>6. MetadataKept' /\ ImagesKept'
  BY <1>2, <1>3, Zenon DEF SyncInv, MetadataKept, ImagesKept, IsPast
<1> QED BY <1>4, <1>5, <1>6, Zenon DEF SyncInv

\* What the clean-up discards without being misled by a stale read belongs to
\* no metadata that waits, now or later.
LEMMA DiscardedIsPast ==
  ASSUME SyncInv, adding # Idle, NEW key \in FirstKey, NEW i \in received_images, i < key,
         \A j \in metadata_cache : ~(j <= i)
  PROVE  IsPast(i)
<1>1. i \in Nat /\ metadata_cache \subseteq Nat /\ announced \subseteq Nat
  BY MetadataAssumption, Zenon DEF SyncInv, SyncTypeOK
<1>2. i \notin metadata_cache
  BY <1>1
<1>3. CASE \E j \in metadata_cache : TRUE
  BY <1>1, <1>2, <1>3 DEF SyncInv, Queues, IsPast
<1>4. CASE metadata_cache = {}
  <2>1. Cardinality(metadata_cache) = 0
    BY <1>4, FS_EmptySet, Zenon
  <2>2. key = adding.begin /\ adding.begin # Header
    BY <1>1, <1>4, <2>1 DEF FirstKey
  <2> QED BY <1>2, <2>2, Zenon DEF SyncInv, Queues, IsPast
<1> QED BY <1>3, <1>4, Zenon

LEMMA EraseKeeps == ASSUME SyncInv, erase_older_images PROVE SyncInv'
<1>1. PICK key \in FirstKey :
        LET gone == {i \in received_images : i < key}
        IN  /\ received_images' = received_images \ gone
            /\ raced' = raced \cup {i \in gone : \E j \in metadata_cache : j <= i}
  BY Zenon DEF erase_older_images
<1>2. /\ adding # Idle /\ adding' = Idle
      /\ UNCHANGED <<metadata_cache, sent, announced, arrived, evicted>>
  BY Zenon DEF erase_older_images
<1>3. Sent' = Sent
  BY <1>2, Zenon DEF Sent
<1>4. SyncTypeOK'
  BY <1>1, <1>2, Zenon DEF SyncInv, SyncTypeOK
<1>5. Queues'
  BY <1>1, <1>2, <1>3, Zenon DEF SyncInv, Queues, Idle
<1>6. MetadataKept'
  BY <1>2, <1>3, Zenon DEF SyncInv, MetadataKept
<1>7. ImagesKept'
  <2> SUFFICES ASSUME NEW i \in arrived', i \notin Sent', i \notin received_images', i \notin raced'
               PROVE  IsPast(i)'
    BY Zenon DEF ImagesKept
  <2>1. IsPast(i)' <=> IsPast(i)
    BY <1>2, Zenon DEF IsPast
  <2>2. CASE i \in received_images
    <3>1. i < key /\ \A j \in metadata_cache : ~(j <= i)
      BY <1>1, <2>2, Zenon
    <3> QED BY <1>2, <2>1, <2>2, <3>1, DiscardedIsPast, Zenon
  <2>3. CASE i \notin received_images
    BY <1>1, <1>2, <1>3, <2>1, <2>3 DEF SyncInv, ImagesKept
  <2> QED BY <2>2, <2>3, Zenon
<1> QED BY <1>4, <1>5, <1>6, <1>7, Zenon DEF SyncInv

LEMMA GetKeeps ==
  ASSUME SyncInv, NEW id \in Images, get_next_received_image(id)
  PROVE  SyncInv'
<1>1. /\ adding = Idle /\ IsFirst(id, metadata_cache) /\ IsFirst(id, received_images)
      /\ metadata_cache' = metadata_cache \ {id}
      /\ received_images' = received_images \ {id}
      /\ sent' = Append(sent, id)
      /\ UNCHANGED <<adding, announced, arrived, evicted, raced>>
  BY Zenon DEF get_next_received_image
<1>2. /\ sent \in Seq(Images) /\ Len(sent) \in Nat /\ DOMAIN sent = 1 .. Len(sent)
      /\ sent' \in Seq(Images) /\ DOMAIN sent' = 1 .. Len(sent) + 1
      /\ \A i \in 1 .. Len(sent) : sent'[i] = sent[i]
      /\ sent'[Len(sent) + 1] = id
  <2>1. sent \in Seq(Images) /\ Len(sent) \in Nat /\ DOMAIN sent = 1 .. Len(sent)
    BY LenProperties, Zenon DEF SyncInv, SyncTypeOK
  <2>2. /\ sent' \in Seq(Images) /\ Len(sent') = Len(sent) + 1
        /\ \A i \in 1 .. Len(sent) : sent'[i] = sent[i]
        /\ sent'[Len(sent) + 1] = id
    BY <1>1, <2>1, AppendProperties
  <2> QED BY <2>1, <2>2, LenProperties, Zenon
<1>3. Sent' = Sent \cup {id}
  <2>1. 1 .. Len(sent) + 1 = (1 .. Len(sent)) \cup {Len(sent) + 1}
    BY <1>2
  <2> QED BY <1>2, <2>1 DEF Sent
<1>4. SyncTypeOK'
  <2>1. /\ IsFiniteSet(metadata_cache \ {id})
        /\ Cardinality(metadata_cache \ {id}) = Cardinality(metadata_cache) - 1
        /\ Cardinality(metadata_cache) \in Nat
    BY <1>1, FS_RemoveElement, FS_CardinalityType, Zenon DEF SyncInv, SyncTypeOK, IsFirst
  <2>2. Cardinality(metadata_cache \ {id}) <= n_images_buffer
    BY <2>1, MetadataAssumption DEF SyncInv, SyncTypeOK
  <2> QED BY <1>1, <1>2, <2>1, <2>2, Zenon DEF SyncInv, SyncTypeOK
<1>5. Queues'
  <2>1. \A j \in metadata_cache' : id < j
    BY <1>1, MetadataAssumption DEF SyncInv, SyncTypeOK, IsFirst
  <2>2. \A i \in Sent : i < id
    BY <1>1, Zenon DEF SyncInv, Queues, IsFirst
  <2>3. ASSUME NEW i \in DOMAIN sent', NEW j \in DOMAIN sent', i < j
        PROVE  sent'[i] < sent'[j]
    <3>1. CASE j \in 1 .. Len(sent)
      <4>1. i \in DOMAIN sent /\ j \in DOMAIN sent
        BY <1>2, <2>3, <3>1
      <4> QED BY <1>2, <2>3, <4>1, Zenon DEF SyncInv, Queues
    <3>2. CASE j = Len(sent) + 1
      <4>1. i \in DOMAIN sent
        BY <1>2, <2>3, <3>2
      <4> QED BY <1>2, <2>2, <3>2, <4>1, Zenon DEF Sent
    <3> QED BY <1>2, <3>1, <3>2
  <2>4. id \in announced \cap arrived
    BY <1>1, Zenon DEF SyncInv, Queues, IsFirst
  <2>5. \A i \in Sent', j \in metadata_cache' : i < j
    BY <1>1, <1>3, <2>1, Zenon DEF SyncInv, Queues
  <2> QED BY <1>1, <1>3, <2>3, <2>4, <2>5, Zenon DEF SyncInv, Queues
<1>6. MetadataKept' /\ ImagesKept'
  BY <1>1, <1>3, Zenon DEF SyncInv, MetadataKept, ImagesKept, IsPast
<1> QED BY <1>4, <1>5, <1>6 DEF SyncInv

LEMMA SyncInvNext == SyncInv /\ [SyncNext]_sync_vars => SyncInv'
<1>1. ASSUME SyncInv, SyncNext PROVE SyncInv'
  BY <1>1, AddMetadataKeeps, AddImageKeeps, EraseKeeps, GetKeeps, SMTT(40) DEF SyncNext
<1>2. ASSUME SyncInv, UNCHANGED sync_vars PROVE SyncInv'
  BY <1>2 DEF sync_vars, SyncInv, SyncTypeOK, Queues, MetadataKept, ImagesKept, IsPast, Sent
<1> QED BY <1>1, <1>2, Zenon

LEMMA SyncInvariance == SyncSpec => []SyncInv
BY SyncInvInit, SyncInvNext, PTL DEF SyncSpec

\* Whatever order the connections deliver in, get_next_received_image sends an
\* image once, after all older ones, when metadata and data have come.
THEOREM SentInStrictOrder == SyncSpec => []StrictOrder
<1>1. SyncInv => StrictOrder
  BY Zenon DEF SyncInv, Queues, StrictOrder
<1> QED BY <1>1, SyncInvariance, PTL

\* The clean-up of add_received_image discards only images that no waiting
\* metadata needs, unless its unlocked read of metadata_cache is stale.
THEOREM CleanUpMislaysNothing == SyncSpec => []NothingMislaid
<1>1. SyncInv => NothingMislaid
  BY Zenon DEF SyncInv, MetadataKept, ImagesKept, IsPast, NothingMislaid
<1> QED BY <1>1, SyncInvariance, PTL

\* The waiting metadata stays within n_images_buffer.
THEOREM SyncTypeCorrect == SyncSpec => []SyncTypeOK
<1>1. SyncInv => SyncTypeOK
  BY Zenon DEF SyncInv
<1> QED BY <1>1, SyncInvariance, PTL

(***************************************************************************)
(* The services in front of the synchronizer.                              *)
(***************************************************************************)

\* Queues of ids, and of messages between the servers.
Members(q) == {q[i] : i \in DOMAIN q}

Rising(q) == \A i, j \in DOMAIN q : i < j => q[i] < q[j]

Message == [id : Images, data : Images \cup {Header}]

Ids(q) == {m.id : m \in Members(q)}

IdsRise(q) == \A i, j \in DOMAIN q : i < j => q[i].id < q[j].id

Before(S, T) == \A x \in S, y \in T : x < y

\* The connections of the sending server.
Links == Parts \cup {META}

\* What pair p has brought to the synchronizer, and what is about to come.
Came(p) == {i \in arrived : i % n_forwarders = p}

Received(p) == Came(p) \cup Members(to_sync[p])

LinkTypes ==
  /\ source \subseteq Images
  /\ source_ring \in [Slots -> Images \cup {Header}]
  /\ image_ring \in [Slots -> Images \cup {Header}]
  /\ stream \in [Links -> Seq(Images)]
  /\ tcp \in [Links -> Seq(Message)]
  /\ to_sync \in [Parts -> Seq(Images)]
  /\ announced \subseteq source
  /\ arrived \subseteq source
  /\ received_images \subseteq arrived

\* Every connection keeps the order of the image ids.
LinksInOrder ==
  \A s \in Links :
    /\ Rising(stream[s]) /\ Members(stream[s]) \subseteq source
    /\ IdsRise(tcp[s]) /\ Ids(tcp[s]) \subseteq source
    /\ Before(Ids(tcp[s]), Members(stream[s]))

\* The metadata that is still to come is newer than all that has come.
MetadataInOrder ==
  Before(announced, Ids(tcp[META])) /\ Before(announced, Members(stream[META]))

\* Of the images of a pair, those still to come are newer than those that have
\* come; across pairs there is no order.
ImagesInOrder ==
  \A p \in Parts :
    /\ Rising(to_sync[p]) /\ Members(to_sync[p]) \subseteq source
    /\ \A i \in Ids(tcp[p]) \cup Members(to_sync[p]) : i % n_forwarders = p
    /\ Before(Came(p), Members(to_sync[p]))
    /\ Before(Received(p), Ids(tcp[p])) /\ Before(Received(p), Members(stream[p]))

\* The bytes on the way from ring to ring, as long as the sending server is not
\* a ring ahead: on the sending server, between the servers, and from the
\* moment a receiver has told the synchronizer.
SourceWhole ==
  \A id \in source : ~RingAhead(id) => source_ring[id % n_slots] = id

MessagesWhole ==
  \A p \in Parts : \A m \in Members(tcp[p]) : ~RingAhead(m.id) => m.data = m.id

ReceivedWhole ==
  \A p \in Parts : \A id \in Received(p) :
    ~RingAhead(id) /\ ~SharedSlot(id) => image_ring[id % n_slots] = id

ForwardingInv ==
  /\ LinkTypes /\ LinksInOrder /\ MetadataInOrder /\ ImagesInOrder
  /\ SourceWhole /\ MessagesWhole /\ ReceivedWhole

-----------------------------------------------------------------------------

\* Two ids of the same slot are a ring apart.
LEMMA RingApart ==
  ASSUME NEW a \in Nat, NEW b \in Nat, NEW n \in Nat \ {0}, a < b, a % n = b % n
  PROVE  b >= a + n
<1> DEFINE x == a \div n
           y == b \div n
<1>1. x \in Nat /\ y \in Nat /\ a = n * x + (a % n) /\ b = n * y + (b % n)
  OBVIOUS
<1>2. a % n \in Nat /\ b % n \in Nat
  OBVIOUS
<1> HIDE DEF x, y
<1>3. n * x < n * y
  BY <1>1, <1>2
<1>4. x < y
  <2>1. SUFFICES ASSUME y <= x PROVE FALSE
    BY <1>1
  <2>2. PICK d \in Nat : x = y + d
    <3>1. x - y \in Nat /\ x = y + (x - y)
      BY <1>1, <2>1
    <3> QED BY <3>1
  <2>3. n * x = n * y + n * d /\ n * d >= 0 /\ n * y \in Nat /\ n * d \in Nat
    BY <1>1, <2>2
  <2> QED BY <1>3, <2>3
<1>5. PICK d \in Nat : y = x + 1 + d
  <2>1. y - x - 1 \in Nat /\ y = x + 1 + (y - x - 1)
    BY <1>1, <1>4
  <2> QED BY <2>1
<1>6. n * y = n * x + n + n * d /\ n * d \in Nat /\ n * x \in Nat
  BY <1>1, <1>5
<1> QED BY <1>1, <1>2, <1>6

\* Taking the oldest element out of a queue.
LEMMA TakeFirst ==
  ASSUME NEW T, NEW q \in Seq(T), q # << >>
  PROVE  /\ Head(q) \in T /\ Tail(q) \in Seq(T)
         /\ Head(q) \in Members(q) /\ Members(Tail(q)) \subseteq Members(q)
         /\ Rising(q) => Rising(Tail(q)) /\ Before({Head(q)}, Members(Tail(q)))
         /\ IdsRise(q) => IdsRise(Tail(q)) /\ Before({Head(q).id}, Ids(Tail(q)))
<1>1. /\ Head(q) \in T /\ Tail(q) \in Seq(T) /\ Len(q) \in Nat \ {0}
      /\ Head(q) = q[1] /\ DOMAIN q = 1 .. Len(q) /\ DOMAIN Tail(q) = 1 .. Len(q) - 1
      /\ \A i \in 1 .. Len(q) - 1 : Tail(q)[i] = q[i + 1]
  OBVIOUS
<1>2. /\ 1 \in DOMAIN q
      /\ \A i \in DOMAIN Tail(q) : i + 1 \in DOMAIN q /\ 1 < i + 1 /\ Tail(q)[i] = q[i + 1]
      /\ \A i, j \in DOMAIN Tail(q) : i < j => i + 1 < j + 1
  BY <1>1
<1>3. Head(q) \in Members(q) /\ Members(Tail(q)) \subseteq Members(q)
  BY <1>1, <1>2, Zenon DEF Members
<1>4. Rising(q) => Rising(Tail(q)) /\ Before({Head(q)}, Members(Tail(q)))
  BY <1>1, <1>2, Zenon DEF Members, Rising, Before
<1>5. IdsRise(q) => IdsRise(Tail(q)) /\ Before({Head(q).id}, Ids(Tail(q)))
  BY <1>1, <1>2, ZenonT(40) DEF Members, IdsRise, Ids, Before
<1> QED BY <1>1, <1>3, <1>4, <1>5, Zenon

\* Adding an element to a queue.
LEMMA AddLast ==
  ASSUME NEW T, NEW q \in Seq(T), NEW x \in T
  PROVE  /\ Append(q, x) \in Seq(T)
         /\ \A y : y \in Members(Append(q, x)) <=> y \in Members(q) \/ y = x
         /\ Rising(q) /\ Before(Members(q), {x}) => Rising(Append(q, x))
         /\ IdsRise(q) /\ Before(Ids(q), {x.id}) => IdsRise(Append(q, x))
<1> DEFINE r == Append(q, x)
           n == Len(q) + 1
<1>1. /\ r \in Seq(T) /\ Len(q) \in Nat /\ n \in DOMAIN r /\ r[n] = x
      /\ \A i \in DOMAIN q : i \in DOMAIN r /\ r[i] = q[i] /\ i < n
      /\ \A i \in DOMAIN r : i \in DOMAIN q \/ i = n
      /\ \A i \in DOMAIN r : ~(n < i)
      /\ ~(n < n)
  OBVIOUS
<1> HIDE DEF r, n
<1>2. \A y : y \in Members(r) <=> y \in Members(q) \/ y = x
  BY <1>1, Zenon DEF Members
<1>3. Rising(q) /\ Before(Members(q), {x}) => Rising(r)
  BY <1>1, Zenon DEF Members, Rising, Before
<1>4. IdsRise(q) /\ Before(Ids(q), {x.id}) => IdsRise(r)
  BY <1>1, Zenon DEF Members, IdsRise, Ids, Before
<1> QED BY <1>1, <1>2, <1>3, <1>4, Zenon DEF r

\* The same for ids.
LEMMA AddId ==
  ASSUME NEW q \in Seq(Images), NEW x \in Images, Rising(q), Before(Members(q), {x})
  PROVE  /\ Append(q, x) \in Seq(Images) /\ Rising(Append(q, x))
         /\ Members(Append(q, x)) = Members(q) \cup {x}
<1>1. Append(q, x) \in Seq(Images)
  OBVIOUS
<1>2. Rising(Append(q, x))
  BY AddLast, Zenon
<1>3. \A y : y \in Members(Append(q, x)) <=> y \in Members(q) \/ y = x
  BY AddLast, Zenon
<1> QED BY <1>1, <1>2, <1>3, Zenon

\* The same for a queue that drops what it has no room for.
LEMMA MayAddLast ==
  ASSUME NEW T, NEW q \in Seq(T), NEW x \in T
  PROVE  /\ Queued(q, x) \in Seq(T)
         /\ Members(Queued(q, x)) \subseteq Members(q) \cup {x}
         /\ Rising(q) /\ Before(Members(q), {x}) => Rising(Queued(q, x))
         /\ IdsRise(q) /\ Before(Ids(q), {x.id}) => IdsRise(Queued(q, x))
<1>1. CASE Len(q) < Hwm
  <2>1. Queued(q, x) = Append(q, x)
    BY <1>1, Zenon DEF Queued
  <2>2. /\ Append(q, x) \in Seq(T)
        /\ Members(Append(q, x)) \subseteq Members(q) \cup {x}
        /\ Rising(q) /\ Before(Members(q), {x}) => Rising(Append(q, x))
        /\ IdsRise(q) /\ Before(Ids(q), {x.id}) => IdsRise(Append(q, x))
    BY AddLast, ZenonT(40)
  <2> QED BY <2>1, <2>2, SMT
<1>2. CASE ~(Len(q) < Hwm)
  <2>1. Queued(q, x) = q
    BY <1>2, Zenon DEF Queued
  <2> QED BY <2>1, Zenon
<1> QED BY <1>1, <1>2, Zenon

LEMMA Constants ==
  /\ Images \subseteq Nat /\ n_slots \in Nat \ {0} /\ n_forwarders \in Nat \ {0}
  /\ META \notin Parts
  /\ \A i \in Nat : i % n_slots \in Slots /\ i % n_forwarders \in Parts
BY MetadataAssumption, ForwardingAssumption DEF META, Parts, Slots

\* The invariant after a step, with the primes where the variables are.
LEMMA LinksAfter ==
  ASSUME \A s \in Links :
           /\ Rising(stream'[s]) /\ Members(stream'[s]) \subseteq source'
           /\ IdsRise(tcp'[s]) /\ Ids(tcp'[s]) \subseteq source'
           /\ Before(Ids(tcp'[s]), Members(stream'[s]))
  PROVE  LinksInOrder'
BY Zenon DEF LinksInOrder, Rising, Members, IdsRise, Ids, Before

LEMMA MetadataAfter ==
  ASSUME Before(announced', Ids(tcp'[META])), Before(announced', Members(stream'[META]))
  PROVE  MetadataInOrder'
BY Zenon DEF MetadataInOrder, Before, Members, Ids, META

LEMMA ImagesAfter ==
  ASSUME \A p \in Parts :
           /\ Rising(to_sync'[p]) /\ Members(to_sync'[p]) \subseteq source'
           /\ \A i \in Ids(tcp'[p]) \cup Members(to_sync'[p]) : i % n_forwarders = p
           /\ Before(Came(p)', Members(to_sync'[p]))
           /\ Before(Received(p)', Ids(tcp'[p])) /\ Before(Received(p)', Members(stream'[p]))
  PROVE  ImagesInOrder'
BY Zenon DEF ImagesInOrder, Rising, Members, Ids, Before, Parts

\* What a pair has brought, after a step.
LEMMA ReceivedAfter ==
  ASSUME NEW p
  PROVE  /\ Came(p)' = {i \in arrived' : i % n_forwarders = p}
         /\ Received(p)' = Came(p)' \cup Members(to_sync'[p])
BY Zenon DEF Came, Received, Members

\* A new image is newer than all that is on its way; the slot it takes is that
\* of images a ring older.
LEMMA PublishImageKeeps ==
  ASSUME ForwardingInv, NEW id \in Images, publish_image(id)
  PROVE  ForwardingInv'
<1>1. /\ \A i \in source : i < id
      /\ source' = source \cup {id}
      /\ source_ring' = [source_ring EXCEPT ![id % n_slots] = id]
      /\ stream' = [s \in Links |-> Queued(stream[s], id)]
      /\ UNCHANGED <<announced, arrived, received_images, tcp, image_ring, to_sync>>
  BY Zenon DEF ForwardingInv, LinkTypes, publish_image, sync_vars
<1>2. /\ source \subseteq Images /\ announced \subseteq source /\ arrived \subseteq source
      /\ received_images \subseteq arrived
      /\ source_ring \in [Slots -> Images \cup {Header}]
  BY Zenon DEF ForwardingInv, LinkTypes
<1>3. ASSUME NEW s \in Links
      PROVE  /\ stream'[s] = Queued(stream[s], id)
             /\ stream'[s] \in Seq(Images) /\ Rising(stream'[s])
             /\ Members(stream'[s]) \subseteq Members(stream[s]) \cup {id}
             /\ Members(stream'[s]) \subseteq source'
             /\ \A S : S \subseteq source /\ Before(S, Members(stream[s]))
                         => Before(S, Members(stream'[s]))
  <2>1. /\ stream[s] \in Seq(Images) /\ Rising(stream[s])
        /\ Members(stream[s]) \subseteq source
    BY Zenon DEF ForwardingInv, LinkTypes, LinksInOrder
  <2>2. Before(Members(stream[s]), {id})
    BY <1>1, <2>1, Zenon DEF Before
  <2>3. PICK r : r = Queued(stream[s], id)
    BY Zenon
  <2>4. /\ r \in Seq(Images) /\ Rising(r) /\ Members(r) \subseteq Members(stream[s]) \cup {id}
    BY <2>1, <2>2, <2>3, MayAddLast, Zenon
  <2>5. stream'[s] = r
    BY <1>1, <2>3, Zenon
  <2>6. \A S : S \subseteq source /\ Before(S, Members(stream[s])) => Before(S, Members(r))
    BY <1>1, <2>4, Zenon DEF Before
  <2> QED BY <1>1, <2>1, <2>3, <2>4, <2>5, <2>6, Zenon
<1>4. LinkTypes'
  <2>1. stream' \in [Links -> Seq(Images)]
    BY <1>1, <1>3, Zenon
  <2>2. source_ring' \in [Slots -> Images \cup {Header}]
    BY <1>1, <1>2, Zenon
  <2> QED BY <1>1, <1>2, <2>1, <2>2, Zenon DEF ForwardingInv, LinkTypes
<1>5. LinksInOrder'
  <2> SUFFICES ASSUME NEW s \in Links
               PROVE  /\ Rising(stream'[s]) /\ Members(stream'[s]) \subseteq source'
                      /\ IdsRise(tcp'[s]) /\ Ids(tcp'[s]) \subseteq source'
                      /\ Before(Ids(tcp'[s]), Members(stream'[s]))
    BY LinksAfter, Zenon
  <2>1. /\ IdsRise(tcp[s]) /\ Ids(tcp[s]) \subseteq source
        /\ Before(Ids(tcp[s]), Members(stream[s]))
    BY Zenon DEF ForwardingInv, LinksInOrder
  <2> QED BY <1>1, <1>3, <2>1, Zenon
<1>6. MetadataInOrder'
  <2>1. Before(announced, Ids(tcp[META])) /\ Before(announced, Members(stream[META]))
    BY Zenon DEF ForwardingInv, MetadataInOrder
  <2>2. Before(announced, Members(stream'[META]))
    BY <1>2, <1>3, <2>1, Zenon DEF Links
  <2>3. Before(announced', Ids(tcp'[META])) /\ Before(announced', Members(stream'[META]))
    BY <1>1, <2>1, <2>2, Zenon
  <2> QED BY <2>3, MetadataAfter, Zenon
<1>7. ImagesInOrder'
  <2> SUFFICES ASSUME NEW p \in Parts
               PROVE  /\ Rising(to_sync'[p]) /\ Members(to_sync'[p]) \subseteq source'
                      /\ \A i \in Ids(tcp'[p]) \cup Members(to_sync'[p]) : i % n_forwarders = p
                      /\ Before(Came(p)', Members(to_sync'[p]))
                      /\ Before(Received(p)', Ids(tcp'[p])) /\ Before(Received(p)', Members(stream'[p]))
    BY ImagesAfter, Zenon
  <2>1. /\ Rising(to_sync[p]) /\ Members(to_sync[p]) \subseteq source
        /\ \A i \in Ids(tcp[p]) \cup Members(to_sync[p]) : i % n_forwarders = p
        /\ Before(Came(p), Members(to_sync[p]))
        /\ Before(Received(p), Ids(tcp[p])) /\ Before(Received(p), Members(stream[p]))
    BY Zenon DEF ForwardingInv, ImagesInOrder
  <2>2. Received(p) \subseteq source
    BY <1>2, <2>1, Zenon DEF Received, Came
  <2>3. Came(p)' = Came(p) /\ Received(p)' = Received(p)
    BY <1>1, ReceivedAfter, Zenon DEF Received, Came
  <2> QED BY <1>1, <1>3, <2>1, <2>2, <2>3, Zenon DEF Links
<1>8. \A i : ~RingAhead(i)' => ~RingAhead(i) /\ ~(id >= i + n_slots)
  BY <1>1, Zenon DEF RingAhead
<1>9. \A i : ~SharedSlot(i)' => ~SharedSlot(i)
  BY <1>1, Zenon DEF SharedSlot
<1>10. SourceWhole'
  <2> SUFFICES ASSUME NEW i \in source', ~RingAhead(i)'
               PROVE  source_ring'[i % n_slots] = i
    BY Zenon DEF SourceWhole, RingAhead
  <2>1. id \in Nat /\ i \in Nat /\ id % n_slots \in Slots /\ i % n_slots \in Slots
    BY <1>1, <1>2, Constants, Zenon
  <2>2. CASE i = id
    BY <1>1, <1>2, <2>1, <2>2, Zenon
  <2>3. CASE i # id
    <3>1. i \in source /\ i < id
      BY <1>1, <2>3, Zenon
    <3>2. i % n_slots # id % n_slots
      BY <1>8, <2>1, <3>1, RingApart, Constants, Zenon
    <3>3. source_ring[i % n_slots] = i
      BY <1>8, <3>1, Zenon DEF ForwardingInv, SourceWhole
    <3> QED BY <1>1, <1>2, <2>1, <3>2, <3>3, Zenon
  <2> QED BY <2>2, <2>3, Zenon
<1>11. MessagesWhole'
  BY <1>1, <1>8, Zenon DEF ForwardingInv, MessagesWhole, Members, Parts
<1>12. ReceivedWhole'
  BY <1>1, <1>8, <1>9, ZenonT(40) DEF ForwardingInv, ReceivedWhole, Members, Parts, Received, Came
<1> QED BY <1>4, <1>5, <1>6, <1>7, <1>10, <1>11, <1>12, Zenon DEF ForwardingInv

\* A sender takes the oldest id of its stream and may pass it on.
LEMMA SendKeeps ==
  ASSUME ForwardingInv, NEW s \in Links, stream[s] # << >>,
         NEW m \in Message, m.id = Head(stream[s]),
         stream' = [stream EXCEPT ![s] = Tail(@)],
         \/ tcp' = tcp
         \/ /\ tcp' = [tcp EXCEPT ![s] = Queued(@, m)]
            /\ s \in Parts => /\ m.id % n_forwarders = s
                              /\ ~RingAhead(m.id) => m.data = m.id,
         UNCHANGED <<sync_vars, source, source_ring, image_ring, to_sync>>
  PROVE  ForwardingInv'
<1>1. /\ source \subseteq Images /\ stream \in [Links -> Seq(Images)]
      /\ tcp \in [Links -> Seq(Message)]
      /\ UNCHANGED <<announced, arrived, received_images, source, source_ring, image_ring, to_sync>>
  BY Zenon DEF ForwardingInv, LinkTypes, sync_vars
<1>2. ASSUME NEW t \in Links
      PROVE  /\ stream'[t] \in Seq(Images) /\ Rising(stream'[t])
             /\ Members(stream'[t]) \subseteq Members(stream[t])
             /\ t = s => m.id \in Members(stream[t]) /\ Before({m.id}, Members(stream'[t]))
  <2>1. stream[t] \in Seq(Images) /\ Rising(stream[t])
    BY <1>1, Zenon DEF ForwardingInv, LinksInOrder
  <2>2. CASE t # s
    <3>1. stream'[t] = stream[t]
      BY <1>1, <2>2, Zenon
    <3> QED BY <2>1, <2>2, <3>1, Zenon
  <2>3. CASE t = s
    <3>1. PICK q : q = stream[s]
      BY Zenon
    <3>2. q \in Seq(Images) /\ Rising(q) /\ q # << >> /\ stream'[t] = Tail(q) /\ m.id = Head(q)
      BY <1>1, <2>1, <2>3, <3>1, Zenon
    <3>3. /\ Tail(q) \in Seq(Images) /\ Rising(Tail(q)) /\ Members(Tail(q)) \subseteq Members(q)
          /\ Head(q) \in Members(q) /\ Before({Head(q)}, Members(Tail(q)))
      BY <3>2, TakeFirst, Zenon
    <3> QED BY <2>3, <3>1, <3>2, <3>3, Zenon
  <2> QED BY <2>2, <2>3, Zenon
<1>3. ASSUME NEW t \in Links
      PROVE  /\ tcp'[t] \in Seq(Message) /\ IdsRise(tcp'[t])
             /\ \/ Members(tcp'[t]) \subseteq Members(tcp[t])
                \/ /\ t = s /\ Members(tcp'[t]) \subseteq Members(tcp[t]) \cup {m}
                   /\ s \in Parts => /\ m.id % n_forwarders = s
                                     /\ ~RingAhead(m.id) => m.data = m.id
  <2>1. /\ tcp[t] \in Seq(Message) /\ IdsRise(tcp[t])
        /\ Before(Ids(tcp[t]), Members(stream[t]))
    BY <1>1, Zenon DEF ForwardingInv, LinksInOrder
  <2>2. CASE tcp'[t] = tcp[t]
    BY <2>1, <2>2, Zenon
  <2>3. CASE tcp'[t] # tcp[t]
    <3>1. PICK q, r : q = tcp[t] /\ r = Queued(q, m)
      BY Zenon
    <3>2. /\ t = s /\ tcp'[t] = r
          /\ s \in Parts => /\ m.id % n_forwarders = s
                            /\ ~RingAhead(m.id) => m.data = m.id
      BY <1>1, <2>3, <3>1, Zenon
    <3>3. Before(Ids(q), {m.id})
      BY <1>2, <2>1, <3>1, <3>2, Zenon DEF Before
    <3>4. r \in Seq(Message) /\ IdsRise(r) /\ Members(r) \subseteq Members(q) \cup {m}
      BY <2>1, <3>1, <3>3, MayAddLast, Zenon
    <3> QED BY <3>1, <3>2, <3>4, Zenon
  <2> QED BY <2>2, <2>3, Zenon
<1>4. ASSUME NEW t \in Links
      PROVE  /\ Ids(tcp'[t]) \subseteq Ids(tcp[t]) \cup Members(stream[t])
             /\ Before(Ids(tcp'[t]), Members(stream'[t]))
  <2>1. Before(Ids(tcp[t]), Members(stream[t]))
    BY Zenon DEF ForwardingInv, LinksInOrder
  <2>2. \A i \in Ids(tcp'[t]) : i \in Ids(tcp[t]) \/ (t = s /\ i = m.id)
    BY <1>3, Zenon DEF Ids
  <2> QED BY <1>2, <2>1, <2>2, Zenon DEF Before
<1>5. LinkTypes'
  <2>1. stream' \in [Links -> Seq(Images)] /\ tcp' \in [Links -> Seq(Message)]
    BY <1>1, <1>2, <1>3, Zenon
  <2> QED BY <1>1, <2>1, Zenon DEF ForwardingInv, LinkTypes
<1>6. LinksInOrder'
  <2> SUFFICES ASSUME NEW t \in Links
               PROVE  /\ Rising(stream'[t]) /\ Members(stream'[t]) \subseteq source'
                      /\ IdsRise(tcp'[t]) /\ Ids(tcp'[t]) \subseteq source'
                      /\ Before(Ids(tcp'[t]), Members(stream'[t]))
    BY LinksAfter, Zenon
  <2>1. Members(stream[t]) \subseteq source /\ Ids(tcp[t]) \subseteq source
    BY Zenon DEF ForwardingInv, LinksInOrder
  <2> QED BY <1>1, <1>2, <1>3, <1>4, <2>1, Zenon
<1>7. MetadataInOrder'
  <2>1. META \in Links
    BY Zenon DEF Links
  <2>2. Before(announced, Ids(tcp[META])) /\ Before(announced, Members(stream[META]))
    BY Zenon DEF ForwardingInv, MetadataInOrder
  <2>3. Before(announced', Ids(tcp'[META])) /\ Before(announced', Members(stream'[META]))
    BY <1>1, <1>2, <1>4, <2>1, <2>2, Zenon DEF Before
  <2> QED BY <2>3, MetadataAfter, Zenon
<1>8. ImagesInOrder'
  <2> SUFFICES ASSUME NEW p \in Parts
               PROVE  /\ Rising(to_sync'[p]) /\ Members(to_sync'[p]) \subseteq source'
                      /\ \A i \in Ids(tcp'[p]) \cup Members(to_sync'[p]) : i % n_forwarders = p
                      /\ Before(Came(p)', Members(to_sync'[p]))
                      /\ Before(Received(p)', Ids(tcp'[p])) /\ Before(Received(p)', Members(stream'[p]))
    BY ImagesAfter, Zenon
  <2>1. /\ Rising(to_sync[p]) /\ Members(to_sync[p]) \subseteq source
        /\ \A i \in Ids(tcp[p]) \cup Members(to_sync[p]) : i % n_forwarders = p
        /\ Before(Came(p), Members(to_sync[p]))
        /\ Before(Received(p), Ids(tcp[p])) /\ Before(Received(p), Members(stream[p]))
    BY Zenon DEF ForwardingInv, ImagesInOrder
  <2>2. Came(p)' = Came(p) /\ Received(p)' = Received(p)
    BY <1>1, ReceivedAfter, Zenon DEF Received, Came
  <2>3. p \in Links
    BY Zenon DEF Links
  <2>4. \A i \in Ids(tcp'[p]) : i % n_forwarders = p
    BY <1>3, <2>1, <2>3, Zenon DEF Ids
  <2>5. Before(Received(p), Ids(tcp'[p])) /\ Before(Received(p), Members(stream'[p]))
    BY <1>2, <1>4, <2>1, <2>3, Zenon DEF Before
  <2> QED BY <1>1, <2>1, <2>2, <2>4, <2>5, Zenon
<1>9. \A i : (RingAhead(i)' <=> RingAhead(i)) /\ (SharedSlot(i)' <=> SharedSlot(i))
  BY <1>1, Zenon DEF RingAhead, SharedSlot
<1>10. SourceWhole'
  BY <1>1, <1>9, Zenon DEF ForwardingInv, SourceWhole
<1>11. MessagesWhole'
  <2> SUFFICES ASSUME NEW p \in Parts, NEW x \in Members(tcp'[p]), ~RingAhead(x.id)
               PROVE  x.data = x.id
    BY <1>9, Zenon DEF MessagesWhole, Members, Parts
  <2>1. p \in Links
    BY Zenon DEF Links
  <2> QED BY <1>3, <2>1, Zenon DEF ForwardingInv, MessagesWhole
<1>12. ReceivedWhole'
  BY <1>1, <1>9, ZenonT(40) DEF ForwardingInv, ReceivedWhole, Members, Parts, Received, Came
<1> QED BY <1>5, <1>6, <1>7, <1>8, <1>10, <1>11, <1>12, Zenon DEF ForwardingInv

\* std_metadata_stream is one such sender.
LEMMA ForwardMetadataKeeps ==
  ASSUME ForwardingInv, forward_metadata
  PROVE  ForwardingInv'
<1> DEFINE id == Head(stream[META])
           m  == [id |-> id, data |-> id]
<1>1. /\ stream[META] # << >> /\ META \in Links /\ META \notin Parts
      /\ stream' = [stream EXCEPT ![META] = Tail(@)]
      /\ tcp' = [tcp EXCEPT ![META] = Queued(@, m)]
      /\ UNCHANGED <<sync_vars, source, source_ring, image_ring, to_sync>>
  BY Constants, Zenon DEF forward_metadata, Links
<1>2. stream[META] \in Seq(Images)
  BY <1>1, Zenon DEF ForwardingInv, LinkTypes
<1>3. id \in Images
  BY <1>1, <1>2, TakeFirst, Zenon
<1>4. m \in Message /\ m.id = id
  BY <1>3, Zenon DEF Message
<1> HIDE DEF m, id
<1>5. id = Head(stream[META])
  BY Zenon DEF id
<1> QED BY <1>1, <1>4, <1>5, SendKeeps, Zenon

\* std_stream_send is another: it passes on its own images only.
LEMMA StreamSendKeeps ==
  ASSUME ForwardingInv, NEW p \in Parts, stream_send(p)
  PROVE  ForwardingInv'
<1> DEFINE id == Head(stream[p])
           m  == [id |-> id, data |-> source_ring[id % n_slots]]
<1>1. /\ stream[p] # << >> /\ p \in Links
      /\ stream' = [stream EXCEPT ![p] = Tail(@)]
      /\ tcp' = IF id % n_forwarders = p THEN [tcp EXCEPT ![p] = Queued(@, m)] ELSE tcp
      /\ UNCHANGED <<sync_vars, source, source_ring, image_ring, to_sync>>
  BY Zenon DEF stream_send, Links
<1>2. /\ stream[p] \in Seq(Images) /\ Members(stream[p]) \subseteq source
      /\ source_ring \in [Slots -> Images \cup {Header}] /\ source \subseteq Images
  BY <1>1, Zenon DEF ForwardingInv, LinkTypes, LinksInOrder
<1>3. id \in source
  BY <1>1, <1>2, TakeFirst, Zenon
<1>4. id \in Images /\ source_ring[id % n_slots] \in Images \cup {Header}
  BY <1>2, <1>3, Constants, Zenon
<1>5. m \in Message /\ m.id = id /\ m.data = source_ring[id % n_slots]
  BY <1>4, Zenon DEF Message
<1>6. ~RingAhead(id) => source_ring[id % n_slots] = id
  BY <1>3, Zenon DEF ForwardingInv, SourceWhole
<1> HIDE DEF m, id
<1>7. id = Head(stream[p])
  BY Zenon DEF id
<1>8. ~RingAhead(m.id) => m.data = m.id
  BY <1>5, <1>6, Zenon
<1>9. \/ tcp' = tcp
      \/ tcp' = [tcp EXCEPT ![p] = Queued(@, m)] /\ m.id % n_forwarders = p
  BY <1>1, <1>5, Zenon
<1> QED BY <1>1, <1>5, <1>7, <1>8, <1>9, SendKeeps, Zenon

\* A receiver writes the data to its slot before it tells the synchronizer.
LEMMA StreamReceiveKeeps ==
  ASSUME ForwardingInv, NEW p \in Parts, stream_receive(p)
  PROVE  ForwardingInv'
<1> DEFINE m == Head(tcp[p])
<1>1. /\ tcp[p] # << >> /\ p \in Links
      /\ tcp' = [tcp EXCEPT ![p] = Tail(@)]
      /\ image_ring' = [image_ring EXCEPT ![m.id % n_slots] = m.data]
      /\ to_sync' = [to_sync EXCEPT ![p] = Append(@, m.id)]
      /\ UNCHANGED <<announced, arrived, received_images, source, source_ring, stream>>
  BY Zenon DEF stream_receive, Links, sync_vars
<1>2. /\ source \subseteq Images /\ stream \in [Links -> Seq(Images)]
      /\ tcp \in [Links -> Seq(Message)] /\ to_sync \in [Parts -> Seq(Images)]
      /\ image_ring \in [Slots -> Images \cup {Header}] /\ arrived \subseteq source
  BY Zenon DEF ForwardingInv, LinkTypes
<1>3. /\ IdsRise(tcp[p]) /\ Ids(tcp[p]) \subseteq source
      /\ Before(Ids(tcp[p]), Members(stream[p]))
  BY <1>1, Zenon DEF ForwardingInv, LinksInOrder
<1>4. /\ m \in Message /\ m \in Members(tcp[p]) /\ Tail(tcp[p]) \in Seq(Message)
      /\ Members(Tail(tcp[p])) \subseteq Members(tcp[p])
      /\ IdsRise(Tail(tcp[p])) /\ Before({m.id}, Ids(Tail(tcp[p])))
  <2>1. tcp[p] \in Seq(Message)
    BY <1>1, <1>2, Zenon
  <2> QED BY <1>1, <1>3, <2>1, TakeFirst, Zenon
<1>5. m.id \in Ids(tcp[p]) /\ m.id \in source /\ m.id \in Images /\ m.data \in Images \cup {Header}
  BY <1>2, <1>3, <1>4, Zenon DEF Ids, Message
<1>6. m.id \in Nat /\ m.id % n_slots \in Slots
  BY <1>5, Constants, Zenon
<1> HIDE DEF m
<1>7. ASSUME NEW t \in Links
      PROVE  /\ tcp'[t] \in Seq(Message) /\ IdsRise(tcp'[t])
             /\ Members(tcp'[t]) \subseteq Members(tcp[t])
             /\ Ids(tcp'[t]) \subseteq Ids(tcp[t])
             /\ t = p => Before({m.id}, Ids(tcp'[t]))
  <2>1. tcp[t] \in Seq(Message) /\ IdsRise(tcp[t])
    BY <1>2, Zenon DEF ForwardingInv, LinksInOrder
  <2>2. CASE t # p
    <3>1. tcp'[t] = tcp[t]
      BY <1>1, <1>2, <2>2, Zenon
    <3> QED BY <2>1, <2>2, <3>1, Zenon
  <2>3. CASE t = p
    <3>1. tcp'[t] = Tail(tcp[p])
      BY <1>1, <1>2, <2>3, Zenon
    <3> QED BY <1>4, <2>3, <3>1, Zenon DEF Ids
  <2> QED BY <2>2, <2>3, Zenon
<1>8. ASSUME NEW r \in Parts
      PROVE  /\ to_sync'[r] \in Seq(Images) /\ Rising(to_sync'[r])
             /\ Members(to_sync'[r]) = Members(to_sync[r]) \cup (IF r = p THEN {m.id} ELSE {})
  <2>1. to_sync[r] \in Seq(Images) /\ Rising(to_sync[r])
    BY <1>2, Zenon DEF ForwardingInv, ImagesInOrder
  <2>2. CASE r # p
    <3>1. to_sync'[r] = to_sync[r]
      BY <1>1, <1>2, <2>2, Zenon
    <3> QED BY <2>1, <2>2, <3>1
  <2>3. CASE r = p
    <3>1. PICK q, z : q = to_sync[p] /\ z = Append(q, m.id)
      BY Zenon
    <3>2. to_sync'[r] = z
      BY <1>1, <1>2, <2>3, <3>1, Zenon
    <3>3. Before(Members(q), {m.id})
      <4>1. Before(Received(p), Ids(tcp[p]))
        BY Zenon DEF ForwardingInv, ImagesInOrder
      <4>2. Members(q) \subseteq Received(p)
        BY <3>1, Zenon DEF Received
      <4> QED BY <1>5, <4>1, <4>2, Zenon DEF Before
    <3>4. z \in Seq(Images) /\ Rising(z) /\ Members(z) = Members(q) \cup {m.id}
      <4>1. q \in Seq(Images) /\ Rising(q) /\ m.id \in Images
        BY <1>5, <2>1, <2>3, <3>1, Zenon
      <4>2. PICK x \in Images : x = m.id /\ Before(Members(q), {x})
        BY <3>3, <4>1, Zenon
      <4>3. /\ Append(q, x) \in Seq(Images) /\ Rising(Append(q, x))
            /\ Members(Append(q, x)) = Members(q) \cup {x}
        BY <4>1, <4>2, AddId, Zenon
      <4> QED BY <3>1, <4>1, <4>2, <4>3, Zenon
    <3> QED BY <2>3, <3>1, <3>2, <3>4
  <2> QED BY <2>2, <2>3, Zenon
<1>9. LinkTypes'
  <2>1. tcp' \in [Links -> Seq(Message)] /\ to_sync' \in [Parts -> Seq(Images)]
    BY <1>1, <1>2, <1>7, <1>8, Zenon
  <2>2. image_ring' \in [Slots -> Images \cup {Header}]
    BY <1>1, <1>2, <1>5, Zenon
  <2> QED BY <1>1, <2>1, <2>2, Zenon DEF ForwardingInv, LinkTypes
<1>10. LinksInOrder'
  <2> SUFFICES ASSUME NEW t \in Links
               PROVE  /\ Rising(stream'[t]) /\ Members(stream'[t]) \subseteq source'
                      /\ IdsRise(tcp'[t]) /\ Ids(tcp'[t]) \subseteq source'
                      /\ Before(Ids(tcp'[t]), Members(stream'[t]))
    BY LinksAfter, Zenon
  <2>1. /\ Rising(stream[t]) /\ Members(stream[t]) \subseteq source
        /\ Ids(tcp[t]) \subseteq source /\ Before(Ids(tcp[t]), Members(stream[t]))
    BY Zenon DEF ForwardingInv, LinksInOrder
  <2>2. Before(Ids(tcp'[t]), Members(stream[t]))
    BY <1>7, <2>1, Zenon DEF Before
  <2> QED BY <1>1, <1>7, <2>1, <2>2, Zenon
<1>11. MetadataInOrder'
  <2>1. META \in Links
    BY Zenon DEF Links
  <2>2. Before(announced, Ids(tcp[META])) /\ Before(announced, Members(stream[META]))
    BY Zenon DEF ForwardingInv, MetadataInOrder
  <2>3. Before(announced', Ids(tcp'[META])) /\ Before(announced', Members(stream'[META]))
    BY <1>1, <1>7, <2>1, <2>2, Zenon DEF Before
  <2> QED BY <2>3, MetadataAfter, Zenon
<1>12. ASSUME NEW r \in Parts
       PROVE  /\ Came(r)' = Came(r)
              /\ Received(r)' = Received(r) \cup (IF r = p THEN {m.id} ELSE {})
  BY <1>1, <1>8, ReceivedAfter, ZenonT(40) DEF Received, Came
<1>13. ImagesInOrder'
  <2> SUFFICES ASSUME NEW r \in Parts
               PROVE  /\ Rising(to_sync'[r]) /\ Members(to_sync'[r]) \subseteq source'
                      /\ \A i \in Ids(tcp'[r]) \cup Members(to_sync'[r]) : i % n_forwarders = r
                      /\ Before(Came(r)', Members(to_sync'[r]))
                      /\ Before(Received(r)', Ids(tcp'[r])) /\ Before(Received(r)', Members(stream'[r]))
    BY ImagesAfter, Zenon
  <2>1. /\ Members(to_sync[r]) \subseteq source
        /\ \A i \in Ids(tcp[r]) \cup Members(to_sync[r]) : i % n_forwarders = r
        /\ Before(Came(r), Members(to_sync[r]))
        /\ Before(Received(r), Ids(tcp[r])) /\ Before(Received(r), Members(stream[r]))
    BY Zenon DEF ForwardingInv, ImagesInOrder
  <2>2. r \in Links
    BY Zenon DEF Links
  <2>3. \A i \in Members(to_sync'[r]) : i \in Members(to_sync[r]) \/ (r = p /\ i = m.id)
    BY <1>8
  <2>4. \A i \in Received(r)' : i \in Received(r) \/ (r = p /\ i = m.id)
    BY <1>12
  <2>5. Members(to_sync'[r]) \subseteq source'
    BY <1>1, <1>5, <2>1, <2>3, Zenon
  <2>6. \A i \in Ids(tcp'[r]) \cup Members(to_sync'[r]) : i % n_forwarders = r
    BY <1>5, <1>7, <2>1, <2>2, <2>3, Zenon
  <2>7. Before(Came(r)', Members(to_sync'[r]))
    BY <1>5, <1>12, <2>1, <2>3, Zenon DEF Before, Received
  <2>8. Before(Received(r)', Ids(tcp'[r])) /\ Before(Received(r)', Members(stream'[r]))
    BY <1>1, <1>3, <1>5, <1>7, <2>1, <2>2, <2>4, ZenonT(40) DEF Before
  <2> QED BY <1>8, <2>5, <2>6, <2>7, <2>8, Zenon
<1>14. \A i : (RingAhead(i)' <=> RingAhead(i)) /\ (SharedSlot(i)' <=> SharedSlot(i))
  BY <1>1, Zenon DEF RingAhead, SharedSlot
<1>15. SourceWhole'
  BY <1>1, <1>14, Zenon DEF ForwardingInv, SourceWhole
<1>16. MessagesWhole'
  <2> SUFFICES ASSUME NEW r \in Parts, NEW x \in Members(tcp'[r]), ~RingAhead(x.id)
               PROVE  x.data = x.id
    BY <1>14, Zenon DEF MessagesWhole, Members, Parts
  <2>1. r \in Links
    BY Zenon DEF Links
  <2> QED BY <1>7, <2>1, Zenon DEF ForwardingInv, MessagesWhole
<1>17. ReceivedWhole'
  <2> SUFFICES ASSUME NEW r \in Parts, NEW k \in Received(r)', ~RingAhead(k), ~SharedSlot(k)
               PROVE  image_ring'[k % n_slots] = k
    BY <1>14, Zenon DEF ReceivedWhole
  <2>1. k \in Received(r) \/ (r = p /\ k = m.id)
    BY <1>12
  <2>2. CASE k = m.id
    <3>1. m.data = m.id
      BY <1>4, <2>2, Zenon DEF ForwardingInv, MessagesWhole
    <3> QED BY <1>1, <1>2, <1>6, <2>2, <3>1, Zenon
  <2>3. CASE k # m.id
    <3>1. k \in Received(r) /\ k \in source /\ k \in Nat /\ k % n_forwarders = r
      BY <1>2, <2>1, <2>3, Constants, ZenonT(40) DEF ForwardingInv, ImagesInOrder, Received, Came
    <3>2. image_ring[k % n_slots] = k
      BY <3>1, Zenon DEF ForwardingInv, ReceivedWhole
    <3>3. ASSUME k % n_slots = m.id % n_slots PROVE FALSE
      <4>1. CASE k < m.id
        <5>1. m.id >= k + n_slots
          BY <1>6, <3>1, <3>3, <4>1, RingApart, Constants, ZenonT(40)
        <5> QED BY <1>5, <5>1, Zenon DEF RingAhead
      <4>2. CASE m.id < k
        <5>1. m.id % n_forwarders = r
          BY <1>5, <3>1, <3>3, <4>2, Zenon DEF SharedSlot
        <5>2. m.id % n_forwarders = p
          BY <1>5, Zenon DEF ForwardingInv, ImagesInOrder
        <5>3. k < m.id
          BY <1>5, <3>1, <5>1, <5>2, Zenon DEF ForwardingInv, ImagesInOrder, Before
        <5> QED BY <1>6, <3>1, <4>2, <5>3, SMTT(40)
      <4> QED BY <1>6, <2>3, <3>1, <4>1, <4>2, SMTT(40)
    <3>4. k % n_slots \in Slots
      BY <3>1, Constants, Zenon
    <3> QED BY <1>1, <1>2, <3>2, <3>3, <3>4, Zenon
  <2> QED BY <2>2, <2>3, Zenon
<1> QED BY <1>9, <1>10, <1>11, <1>13, <1>15, <1>16, <1>17, ZenonT(40) DEF ForwardingInv

\* The metadata that reaches the synchronizer is newer than all before.
LEMMA MetadataKeeps ==
  ASSUME ForwardingInv, process_incoming_metadata_stream
  PROVE  /\ ForwardingInv'
         /\ \E id \in Images : (\A i \in announced : i < id) /\ add_metadata(id)
<1> DEFINE id == Head(tcp[META]).id
<1>1. /\ tcp[META] # << >> /\ META \in Links /\ META \notin Parts
      /\ tcp' = [tcp EXCEPT ![META] = Tail(@)]
      /\ add_metadata(id) /\ announced' = announced \cup {id}
      /\ UNCHANGED <<arrived, received_images, source, source_ring, stream, image_ring, to_sync>>
  BY Constants, Zenon DEF process_incoming_metadata_stream, add_metadata, Links
<1>2. /\ source \subseteq Images /\ tcp \in [Links -> Seq(Message)]
      /\ announced \subseteq source
  BY Zenon DEF ForwardingInv, LinkTypes
<1>3. /\ IdsRise(tcp[META]) /\ Ids(tcp[META]) \subseteq source
      /\ Before(Ids(tcp[META]), Members(stream[META]))
      /\ Before(announced, Ids(tcp[META])) /\ Before(announced, Members(stream[META]))
  BY <1>1, Zenon DEF ForwardingInv, LinksInOrder, MetadataInOrder
<1>4. /\ Head(tcp[META]) \in Members(tcp[META]) /\ Tail(tcp[META]) \in Seq(Message)
      /\ Members(Tail(tcp[META])) \subseteq Members(tcp[META])
      /\ IdsRise(Tail(tcp[META])) /\ Before({id}, Ids(Tail(tcp[META])))
  <2>1. tcp[META] \in Seq(Message)
    BY <1>1, <1>2, Zenon
  <2> QED BY <1>1, <1>3, <2>1, TakeFirst, Zenon
<1>5. id \in Ids(tcp[META]) /\ id \in source /\ id \in Images
  BY <1>2, <1>3, <1>4, Zenon DEF Ids
<1> HIDE DEF id
<1>6. \A i \in announced : i < id
  BY <1>3, <1>5, Zenon DEF Before
<1>7. ASSUME NEW t \in Links
      PROVE  /\ tcp'[t] \in Seq(Message) /\ IdsRise(tcp'[t])
             /\ Members(tcp'[t]) \subseteq Members(tcp[t])
             /\ Ids(tcp'[t]) \subseteq Ids(tcp[t])
             /\ t = META => Before({id}, Ids(tcp'[t]))
  <2>1. tcp[t] \in Seq(Message) /\ IdsRise(tcp[t])
    BY <1>2, Zenon DEF ForwardingInv, LinksInOrder
  <2>2. CASE t # META
    <3>1. tcp'[t] = tcp[t]
      BY <1>1, <1>2, <2>2, Zenon
    <3> QED BY <2>1, <2>2, <3>1, Zenon
  <2>3. CASE t = META
    <3>1. tcp'[t] = Tail(tcp[META])
      BY <1>1, <1>2, <2>3, Zenon
    <3> QED BY <1>4, <2>3, <3>1, Zenon DEF Ids
  <2> QED BY <2>2, <2>3, Zenon
<1>8. LinkTypes'
  <2>1. tcp' \in [Links -> Seq(Message)]
    BY <1>1, <1>2, <1>7, Zenon
  <2> QED BY <1>1, <1>2, <1>5, <2>1, Zenon DEF ForwardingInv, LinkTypes
<1>9. LinksInOrder'
  <2> SUFFICES ASSUME NEW t \in Links
               PROVE  /\ Rising(stream'[t]) /\ Members(stream'[t]) \subseteq source'
                      /\ IdsRise(tcp'[t]) /\ Ids(tcp'[t]) \subseteq source'
                      /\ Before(Ids(tcp'[t]), Members(stream'[t]))
    BY LinksAfter, Zenon
  <2>1. /\ Rising(stream[t]) /\ Members(stream[t]) \subseteq source
        /\ Ids(tcp[t]) \subseteq source /\ Before(Ids(tcp[t]), Members(stream[t]))
    BY Zenon DEF ForwardingInv, LinksInOrder
  <2>2. Before(Ids(tcp'[t]), Members(stream[t]))
    BY <1>7, <2>1, Zenon DEF Before
  <2> QED BY <1>1, <1>7, <2>1, <2>2, Zenon
<1>10. MetadataInOrder'
  <2>1. Before(announced', Ids(tcp'[META])) /\ Before(announced', Members(stream'[META]))
    BY <1>1, <1>3, <1>5, <1>7, Zenon DEF Before
  <2> QED BY <2>1, MetadataAfter, Zenon
<1>11. ImagesInOrder'
  <2> SUFFICES ASSUME NEW p \in Parts
               PROVE  /\ Rising(to_sync'[p]) /\ Members(to_sync'[p]) \subseteq source'
                      /\ \A i \in Ids(tcp'[p]) \cup Members(to_sync'[p]) : i % n_forwarders = p
                      /\ Before(Came(p)', Members(to_sync'[p]))
                      /\ Before(Received(p)', Ids(tcp'[p])) /\ Before(Received(p)', Members(stream'[p]))
    BY ImagesAfter, Zenon
  <2>1. Came(p)' = Came(p) /\ Received(p)' = Received(p)
    BY <1>1, ReceivedAfter, Zenon DEF Received, Came
  <2>2. tcp'[p] = tcp[p]
    BY <1>1, <1>2, Zenon DEF Links
  <2> QED BY <1>1, <2>1, <2>2, Zenon DEF ForwardingInv, ImagesInOrder
<1>12. \A i : (RingAhead(i)' <=> RingAhead(i)) /\ (SharedSlot(i)' <=> SharedSlot(i))
  BY <1>1, Zenon DEF RingAhead, SharedSlot
<1>13. SourceWhole'
  BY <1>1, <1>12, Zenon DEF ForwardingInv, SourceWhole
<1>14. MessagesWhole'
  <2> SUFFICES ASSUME NEW r \in Parts, NEW x \in Members(tcp'[r]), ~RingAhead(x.id)
               PROVE  x.data = x.id
    BY <1>12, Zenon DEF MessagesWhole, Members, Parts
  <2>1. r \in Links
    BY Zenon DEF Links
  <2> QED BY <1>7, <2>1, Zenon DEF ForwardingInv, MessagesWhole
<1>15. ReceivedWhole'
  BY <1>1, <1>12, ZenonT(40) DEF ForwardingInv, ReceivedWhole, Members, Parts, Received, Came
<1>16. ForwardingInv'
  BY <1>8, <1>9, <1>10, <1>11, <1>13, <1>14, <1>15, Zenon DEF ForwardingInv
<1> QED BY <1>1, <1>5, <1>6, <1>16, Zenon

\* The image that reaches the synchronizer has not come before.
LEMMA ImageKeeps ==
  ASSUME ForwardingInv, NEW p \in Parts, process_incoming_image_stream(p)
  PROVE  /\ ForwardingInv'
         /\ \E id \in Images : id \notin arrived /\ add_received_image(id)
<1> DEFINE id == Head(to_sync[p])
<1>1. /\ to_sync[p] # << >>
      /\ to_sync' = [to_sync EXCEPT ![p] = Tail(@)]
      /\ add_received_image(id) /\ arrived' = arrived \cup {id}
      /\ received_images' = received_images \cup {id}
      /\ UNCHANGED <<announced, source, source_ring, stream, tcp, image_ring>>
  BY Zenon DEF process_incoming_image_stream, add_received_image
<1>2. /\ source \subseteq Images /\ to_sync \in [Parts -> Seq(Images)]
      /\ arrived \subseteq source /\ received_images \subseteq arrived
  BY Zenon DEF ForwardingInv, LinkTypes
<1>3. /\ Rising(to_sync[p]) /\ Members(to_sync[p]) \subseteq source
      /\ \A i \in Members(to_sync[p]) : i % n_forwarders = p
      /\ Before(Came(p), Members(to_sync[p]))
  BY Zenon DEF ForwardingInv, ImagesInOrder
<1>4. /\ id \in Members(to_sync[p]) /\ Tail(to_sync[p]) \in Seq(Images)
      /\ Members(Tail(to_sync[p])) \subseteq Members(to_sync[p])
      /\ Rising(Tail(to_sync[p])) /\ Before({id}, Members(Tail(to_sync[p])))
  <2>1. to_sync[p] \in Seq(Images)
    BY <1>2, Zenon
  <2> QED BY <1>1, <1>3, <2>1, TakeFirst, Zenon
<1> HIDE DEF id
<1>5. id \in source /\ id \in Images /\ id \in Nat /\ id % n_forwarders = p
  BY <1>2, <1>3, <1>4, Constants, Zenon
<1>6. id \notin arrived
  <2>1. SUFFICES ASSUME id \in arrived PROVE FALSE
    OBVIOUS
  <2>2. id < id
    BY <1>3, <1>4, <1>5, <2>1, Zenon DEF Came, Before
  <2> QED BY <1>5, <2>2
<1>7. ASSUME NEW r \in Parts
      PROVE  /\ to_sync'[r] \in Seq(Images) /\ Rising(to_sync'[r])
             /\ Members(to_sync'[r]) \subseteq Members(to_sync[r])
             /\ r = p => Before({id}, Members(to_sync'[r]))
             /\ \A i \in Came(r)' : i \in Came(r) \/ (r = p /\ i = id)
             /\ Received(r)' \subseteq Received(r)
  <2>1. to_sync[r] \in Seq(Images) /\ Rising(to_sync[r])
    BY <1>2, Zenon DEF ForwardingInv, ImagesInOrder
  <2>2. \A i \in Came(r)' : i \in Came(r) \/ (r = p /\ i = id)
    BY <1>1, <1>5, ReceivedAfter, Zenon DEF Came
  <2>3. CASE r # p
    <3>1. to_sync'[r] = to_sync[r]
      BY <1>1, <1>2, <2>3, Zenon
    <3>2. Received(r)' \subseteq Received(r)
      BY <2>2, <2>3, <3>1, ReceivedAfter, Zenon DEF Received
    <3> QED BY <2>1, <2>2, <2>3, <3>1, <3>2, Zenon
  <2>4. CASE r = p
    <3>1. to_sync'[r] = Tail(to_sync[p])
      BY <1>1, <1>2, <2>4, Zenon
    <3>2. Received(r)' \subseteq Received(r)
      BY <1>4, <2>2, <2>4, <3>1, ReceivedAfter, Zenon DEF Received
    <3> QED BY <1>4, <2>2, <2>4, <3>1, <3>2, Zenon
  <2> QED BY <2>3, <2>4, Zenon
<1>8. LinkTypes'
  <2>1. to_sync' \in [Parts -> Seq(Images)]
    BY <1>1, <1>2, <1>7, Zenon
  <2> QED BY <1>1, <1>2, <1>5, <2>1, Zenon DEF ForwardingInv, LinkTypes
<1>9. LinksInOrder' /\ MetadataInOrder'
  <2>1. LinksInOrder'
    <3> SUFFICES ASSUME NEW t \in Links
                 PROVE  /\ Rising(stream'[t]) /\ Members(stream'[t]) \subseteq source'
                        /\ IdsRise(tcp'[t]) /\ Ids(tcp'[t]) \subseteq source'
                        /\ Before(Ids(tcp'[t]), Members(stream'[t]))
      BY LinksAfter, Zenon
    <3> QED BY <1>1, Zenon DEF ForwardingInv, LinksInOrder
  <2>2. Before(announced', Ids(tcp'[META])) /\ Before(announced', Members(stream'[META]))
    BY <1>1, Zenon DEF ForwardingInv, MetadataInOrder
  <2> QED BY <2>1, <2>2, MetadataAfter, Zenon
<1>10. ImagesInOrder'
  <2> SUFFICES ASSUME NEW r \in Parts
               PROVE  /\ Rising(to_sync'[r]) /\ Members(to_sync'[r]) \subseteq source'
                      /\ \A i \in Ids(tcp'[r]) \cup Members(to_sync'[r]) : i % n_forwarders = r
                      /\ Before(Came(r)', Members(to_sync'[r]))
                      /\ Before(Received(r)', Ids(tcp'[r])) /\ Before(Received(r)', Members(stream'[r]))
    BY ImagesAfter, Zenon
  <2>1. /\ Members(to_sync[r]) \subseteq source
        /\ \A i \in Ids(tcp[r]) \cup Members(to_sync[r]) : i % n_forwarders = r
        /\ Before(Came(r), Members(to_sync[r]))
        /\ Before(Received(r), Ids(tcp[r])) /\ Before(Received(r), Members(stream[r]))
    BY Zenon DEF ForwardingInv, ImagesInOrder
  <2>2. Before(Came(r)', Members(to_sync'[r]))
    BY <1>7, <2>1, Zenon DEF Before
  <2>3. Before(Received(r)', Ids(tcp'[r])) /\ Before(Received(r)', Members(stream'[r]))
    BY <1>1, <1>7, <2>1, Zenon DEF Before
  <2> QED BY <1>1, <1>7, <2>1, <2>2, <2>3, ZenonT(40)
<1>11. \A i : (RingAhead(i)' <=> RingAhead(i)) /\ (SharedSlot(i)' <=> SharedSlot(i))
  BY <1>1, Zenon DEF RingAhead, SharedSlot
<1>12. SourceWhole' /\ MessagesWhole'
  BY <1>1, <1>11, ZenonT(40) DEF ForwardingInv, SourceWhole, MessagesWhole, Members, Parts
<1>13. ReceivedWhole'
  <2> SUFFICES ASSUME NEW r \in Parts, NEW k \in Received(r)', ~RingAhead(k), ~SharedSlot(k)
               PROVE  image_ring'[k % n_slots] = k
    BY <1>11, Zenon DEF ReceivedWhole
  <2> QED BY <1>1, <1>7, Zenon DEF ForwardingInv, ReceivedWhole
<1>14. ForwardingInv'
  BY <1>8, <1>9, <1>10, <1>12, <1>13, Zenon DEF ForwardingInv
<1> QED BY <1>1, <1>5, <1>6, <1>14, Zenon

\* The other steps of the synchronizer only take images out of its queues.
LEMMA SyncKeeps ==
  ASSUME ForwardingInv,
         UNCHANGED <<source, source_ring, stream, tcp, image_ring, to_sync, announced, arrived>>,
         received_images' \subseteq received_images
  PROVE  ForwardingInv'
<1>1. LinkTypes'
  BY Zenon DEF ForwardingInv, LinkTypes
<1>2. LinksInOrder'
  <2>1. ASSUME NEW t \in Links
        PROVE  /\ Rising(stream'[t]) /\ Members(stream'[t]) \subseteq source'
               /\ IdsRise(tcp'[t]) /\ Ids(tcp'[t]) \subseteq source'
               /\ Before(Ids(tcp'[t]), Members(stream'[t]))
    BY Zenon DEF ForwardingInv, LinksInOrder
  <2> QED BY <2>1, LinksAfter, Zenon
<1>3. MetadataInOrder'
  <2>1. Before(announced', Ids(tcp'[META])) /\ Before(announced', Members(stream'[META]))
    BY Zenon DEF ForwardingInv, MetadataInOrder
  <2> QED BY <2>1, MetadataAfter, Zenon
<1>4. \A p \in Parts : Came(p)' = Came(p) /\ Received(p)' = Received(p)
  BY ReceivedAfter, Zenon DEF Received, Came
<1>5. ImagesInOrder'
  <2>1. ASSUME NEW r \in Parts
        PROVE  /\ Rising(to_sync'[r]) /\ Members(to_sync'[r]) \subseteq source'
               /\ \A i \in Ids(tcp'[r]) \cup Members(to_sync'[r]) : i % n_forwarders = r
               /\ Before(Came(r)', Members(to_sync'[r]))
               /\ Before(Received(r)', Ids(tcp'[r])) /\ Before(Received(r)', Members(stream'[r]))
    BY <1>4, Zenon DEF ForwardingInv, ImagesInOrder
  <2> QED BY <2>1, ImagesAfter, Zenon
<1>6. \A i : (RingAhead(i)' <=> RingAhead(i)) /\ (SharedSlot(i)' <=> SharedSlot(i))
  BY Zenon DEF RingAhead, SharedSlot
<1>7. SourceWhole' /\ MessagesWhole' /\ ReceivedWhole'
  BY <1>4, <1>6, ZenonT(40) DEF ForwardingInv, SourceWhole, MessagesWhole, ReceivedWhole, Members, Parts
<1> QED BY <1>1, <1>2, <1>3, <1>5, <1>7, Zenon DEF ForwardingInv

\* The invariant is kept by every step.
LEMMA ForwardingStep == ForwardingInv /\ [Next]_vars => ForwardingInv'
<1> SUFFICES ASSUME ForwardingInv, [Next]_vars PROVE ForwardingInv'
  OBVIOUS
<1>1. CASE \E id \in Images : publish_image(id)
  BY <1>1, PublishImageKeeps, Zenon
<1>2. CASE forward_metadata
  BY <1>2, ForwardMetadataKeeps, Zenon
<1>3. CASE \E p \in Parts : stream_send(p) \/ stream_receive(p)
  BY <1>3, StreamSendKeeps, StreamReceiveKeeps, Zenon
<1>4. CASE process_incoming_metadata_stream
  BY <1>4, MetadataKeeps, Zenon
<1>5. CASE \E p \in Parts : process_incoming_image_stream(p)
  BY <1>5, ImageKeeps, Zenon
<1>6. CASE clean_up
  <2>1. /\ UNCHANGED <<source, source_ring, stream, tcp, image_ring, to_sync, announced, arrived>>
        /\ received_images' \subseteq received_images
    BY <1>6, Zenon DEF clean_up, erase_older_images
  <2> QED BY <2>1, SyncKeeps, Zenon
<1>7. CASE send_synchronized_images
  <2>1. /\ UNCHANGED <<source, source_ring, stream, tcp, image_ring, to_sync, announced, arrived>>
        /\ received_images' \subseteq received_images
    BY <1>7, Zenon DEF send_synchronized_images, get_next_received_image
  <2> QED BY <2>1, SyncKeeps, Zenon
<1>8. CASE UNCHANGED vars
  <2>1. /\ UNCHANGED <<source, source_ring, stream, tcp, image_ring, to_sync, announced, arrived>>
        /\ received_images' \subseteq received_images
    BY <1>8, Zenon DEF vars, sync_vars
  <2> QED BY <2>1, SyncKeeps, Zenon
<1> QED BY <1>1, <1>2, <1>3, <1>4, <1>5, <1>6, <1>7, <1>8, Zenon DEF Next, Services

LEMMA ForwardingStart == Init => ForwardingInv
<1> SUFFICES ASSUME Init PROVE ForwardingInv
  OBVIOUS
<1>1. /\ source = {} /\ announced = {} /\ arrived = {} /\ received_images = {}
      /\ source_ring = [s \in Slots |-> Header] /\ image_ring = [s \in Slots |-> Header]
      /\ stream = [s \in Links |-> << >>] /\ tcp = [s \in Links |-> << >>]
      /\ to_sync = [p \in Parts |-> << >>]
  BY Zenon DEF Init, SyncInit, Links
<1>2. /\ \A s \in Links : stream[s] = << >> /\ tcp[s] = << >>
      /\ \A p \in Parts : to_sync[p] = << >> /\ p \in Links
      /\ META \in Links
  BY <1>1, Zenon DEF Links
<1>3. Members(<< >>) = {}
  BY DEF Members
<1>4. Ids(<< >>) = {} /\ Rising(<< >>) /\ IdsRise(<< >>)
  <2>1. DOMAIN << >> = {}
    OBVIOUS
  <2> QED BY <1>3, <2>1, Zenon DEF Ids, Rising, IdsRise
<1>5. \A p \in Parts : Came(p) = {} /\ Received(p) = {}
  BY <1>1, <1>2, <1>3 DEF Came, Received
<1>6. LinkTypes
  <2>1. \A T : << >> \in Seq(T)
    OBVIOUS
  <2> QED BY <1>1, <2>1, Zenon DEF LinkTypes
<1>7. LinksInOrder /\ MetadataInOrder /\ ImagesInOrder
  BY <1>1, <1>2, <1>3, <1>4, <1>5, Zenon DEF LinksInOrder, MetadataInOrder, ImagesInOrder, Before
<1>8. SourceWhole /\ MessagesWhole /\ ReceivedWhole
  BY <1>1, <1>2, <1>3, <1>5, Zenon DEF SourceWhole, MessagesWhole, ReceivedWhole
<1> QED BY <1>6, <1>7, <1>8, Zenon DEF ForwardingInv

\* The synchronizer gets from the services in front of it what it relies on:
\* every step of the pipeline is a step of SyncSpec or leaves it alone, so that
\* what is proved of the synchronizer holds inside the pipeline.
THEOREM PipelineServesSynchronizer == Init /\ [][Next]_vars => ServesSynchronizer
<1>1. Init => SyncInit
  BY Zenon DEF Init
<1>2. ForwardingInv /\ [Next]_vars => [SyncNext]_sync_vars
  <2> SUFFICES ASSUME ForwardingInv, [Next]_vars PROVE [SyncNext]_sync_vars
    OBVIOUS
  <2>1. CASE \E id \in Images : publish_image(id)
    BY <2>1, Zenon DEF publish_image
  <2>2. CASE forward_metadata
    BY <2>2, Zenon DEF forward_metadata
  <2>3. CASE \E p \in Parts : stream_send(p) \/ stream_receive(p)
    BY <2>3, Zenon DEF stream_send, stream_receive
  <2>4. CASE process_incoming_metadata_stream
    BY <2>4, MetadataKeeps, Zenon DEF SyncNext
  <2>5. CASE \E p \in Parts : process_incoming_image_stream(p)
    BY <2>5, ImageKeeps, Zenon DEF SyncNext
  <2>6. CASE clean_up
    BY <2>6, Zenon DEF clean_up, SyncNext
  <2>7. CASE send_synchronized_images
    BY <2>7, Zenon DEF send_synchronized_images, SyncNext
  <2>8. CASE UNCHANGED vars
    BY <2>8, Zenon DEF vars
  <2> QED BY <2>1, <2>2, <2>3, <2>4, <2>5, <2>6, <2>7, <2>8, ZenonT(40) DEF Next, Services
<1> QED BY <1>1, <1>2, ForwardingStart, ForwardingStep, PTL DEF ServesSynchronizer, SyncSpec

\* What is proved of the synchronizer by itself holds at the end of the
\* pipeline: images leave it in strict order and none that is matched is
\* mislaid, whatever the connections drop and however the services interleave.
THEOREM PipelineKeepsOrder == Init /\ [][Next]_vars => [](StrictOrder /\ NothingMislaid)
BY PipelineServesSynchronizer, SentInStrictOrder, CleanUpMislaysNothing, PTL DEF ServesSynchronizer

\* An image is announced on the receiving server while its slot holds its own
\* bytes, for any number of pairs, slots and queued messages.
THEOREM ForwardedWithOwnBytes == Init /\ [][Next]_vars => ForwardedImageIsWhole
<1> DEFINE Whole == \A id \in Images :
                      sent' = Append(sent, id) /\ ~RingAhead(id) /\ ~SharedSlot(id)
                        => image_ring[id % n_slots] = id
<1>1. ForwardingInv /\ SyncTypeOK /\ [Next]_vars => [Whole]_vars
  <2> SUFFICES ASSUME ForwardingInv, SyncTypeOK, [Next]_vars, NEW id \in Images,
                      sent' = Append(sent, id), ~RingAhead(id), ~SharedSlot(id)
               PROVE  image_ring[id % n_slots] = id
    BY Zenon
  <2>1. sent \in Seq(Images)
    BY Zenon DEF SyncTypeOK
  <2>2. sent' # sent
    <3>1. Len(Append(sent, id)) = Len(sent) + 1 /\ Len(sent) \in Nat
      BY <2>1
    <3>2. Append(sent, id) # sent
      BY <3>1
    <3> QED BY <3>2
  <2>3. send_synchronized_images
    BY <2>2, Zenon DEF Next, Services, vars, sync_vars, publish_image, forward_metadata, stream_send,
       stream_receive, process_incoming_metadata_stream, add_metadata,
       process_incoming_image_stream, add_received_image, clean_up, erase_older_images
  <2>4. PICK k \in Images : k \in received_images /\ sent' = Append(sent, k)
    BY <2>3, Zenon DEF send_synchronized_images, get_next_received_image, IsFirst
  <2>5. k = id
    <3>1. Append(sent, k)[Len(sent) + 1] = k /\ Append(sent, id)[Len(sent) + 1] = id
      BY <2>1
    <3> QED BY <2>4, <3>1, Zenon
  <2>6. id \in arrived /\ id \in Nat
    BY <2>4, <2>5, Constants, Zenon DEF ForwardingInv, LinkTypes
  <2>7. id % n_forwarders \in Parts /\ id \in Received(id % n_forwarders)
    BY <2>6, Constants, Zenon DEF Received, Came
  <2> QED BY <2>7, Zenon DEF ForwardingInv, ReceivedWhole
<1> QED BY <1>1, ForwardingStart, ForwardingStep, PipelineServesSynchronizer, SyncTypeCorrect, PTL
        DEF ServesSynchronizer, ForwardedImageIsWhole
=============================================================================
