-------------------------- MODULE BufferStoreProofs --------------------------
(***************************************************************************)
(* What holds of the image buffer for any block and folder size, any image *)
(* ids and sizes, and any number of writes, crashes, expirations and new   *)
(* acquisitions: the metadata in Redis always leads to a file, the search  *)
(* over the folders finds what a search over all files would, and an image *)
(* stays readable at the place that Redis gives.                           *)
(***************************************************************************)
EXTENDS BufferStore, TLAPS, WellFoundedInduction

FileIds == {get_filename(i) : i \in Images}

\* The writer: the file it has open exists, and the image in hand, once it has
\* been written, is in that file.
WriterTypes ==
  /\ current \in [file : DOMAIN files \cup {None}, offset : Nat, buffered : Seq(Images)]
  /\ writing \in [id : Images \cup {None}, offset : Nat, size : Sizes \cup {0}]
  /\ writing # NotWriting => writing.id \in Images
  /\ writing.size # 0 => current.file = get_filename(writing.id)

\* The stores: every file is in its folder and has been opened.
StoreTypes ==
  /\ DOMAIN files \subseteq FileIds
  /\ \A f \in DOMAIN files : files[f] \in Seq(Images)
  /\ DOMAIN openings = DOMAIN files
  /\ \A f \in DOMAIN openings : openings[f] \in Nat \ {0}
  /\ DOMAIN folders \subseteq Nat
  /\ \A k \in DOMAIN folders :
       folders[k] = {f \in DOMAIN files : get_folder_path(f) = k}
  /\ \A f \in DOMAIN files : get_folder_path(f) \in DOMAIN folders

\* Redis: every entry is of an image of a file.
RedisTypes ==
  /\ DOMAIN redis \subseteq ids /\ ids \subseteq Images
  /\ \A i \in DOMAIN redis :
       /\ redis[i] \in [offset : Nat, size : Sizes, opening : Nat]
       /\ get_filename(i) \in DOMAIN files

\* n bytes of image i are in s behind the first k.
Holds(s, i, k, n) ==
  /\ k + n <= Len(s)
  /\ \A j \in 1 .. n : s[k + j] = i

InFile(i, offset, size) == Holds(files[get_filename(i)], i, offset, size)

\* The bytes are not in the file yet: behind what the file holds come those of
\* the buffer.
InBuffer(i, offset, size) ==
  /\ current.file = get_filename(i)
  /\ Len(files[current.file]) <= offset
  /\ Holds(current.buffered, i, offset - Len(files[current.file]), size)

Placed(i, offset, size) ==
  InFile(i, offset, size) \/ InBuffer(i, offset, size) \/ i \in lost

\* As long as a file has been opened only once, the writer's offset is the
\* length that the file will have.
OffsetIsLength ==
  current.file # None /\ openings[current.file] = 1
    => current.offset = Len(files[current.file]) + Len(current.buffered)

Places ==
  /\ \A i \in DOMAIN redis :
       redis[i].opening = 1 => Placed(i, redis[i].offset, redis[i].size)
  /\ writing.size # 0 /\ openings[current.file] = 1
       => Placed(writing.id, writing.offset, writing.size)

IInv == WriterTypes /\ StoreTypes /\ RedisTypes /\ OffsetIsLength /\ Places

-----------------------------------------------------------------------------
(* Division, as file and folder ids are computed.                          *)

LEMMA DivBounds ==
  ASSUME NEW n \in Nat, NEW d \in Nat \ {0}
  PROVE  /\ n \div d \in Nat
         /\ (n \div d) * d <= n
         /\ n < (n \div d) * d + d
OBVIOUS

LEMMA Gap ==
  ASSUME NEW a \in Int, NEW b \in Int, NEW d \in Nat \ {0}, a * d < b * d + d
  PROVE  a <= b
<1>1. SUFFICES ASSUME a >= b + 1 PROVE FALSE
  OBVIOUS
<1>2. a * d >= (b + 1) * d
  BY <1>1
<1>3. (b + 1) * d = b * d + d
  OBVIOUS
<1> QED BY <1>2, <1>3

LEMMA DivUnique ==
  ASSUME NEW n \in Nat, NEW d \in Nat \ {0}, NEW q \in Nat, q * d <= n, n < q * d + d
  PROVE  n \div d = q
<1> DEFINE p == n \div d
<1>1. p \in Nat /\ p * d <= n /\ n < p * d + d
  BY DivBounds
<1> HIDE DEF p
<1>2. p * d < q * d + d /\ q * d < p * d + d
  BY <1>1
<1>3. p <= q /\ q <= p
  BY <1>1, <1>2, Gap
<1> QED BY <1>1, <1>3 DEF p

\* A folder holds a whole number of files.
LEMMA FilesPerFolder ==
  /\ folder_size \div block_size \in Nat
  /\ folder_size = (folder_size \div block_size) * block_size
BY StoreAssumption

\* The file of an image lies in the folder of the image.
LEMMA FolderOfFile ==
  ASSUME NEW i \in Nat
  PROVE  get_folder_path(get_filename(i)) = get_folder_path(i)
<1> DEFINE q == i \div folder_size
           p == i \div block_size
           m == folder_size \div block_size
           b == block_size
<1>1. /\ b \in Nat \ {0} /\ folder_size \in Nat \ {0} /\ m \in Nat
      /\ folder_size = m * b
  BY StoreAssumption, FilesPerFolder
<1>2. q \in Nat /\ q * folder_size <= i /\ i < q * folder_size + folder_size
  BY <1>1, DivBounds
<1>3. p \in Nat /\ p * b <= i /\ i < p * b + b
  BY <1>1, DivBounds
<1>4. get_filename(i) = p * b /\ get_folder_path(i) = q * folder_size
  BY DEF get_filename, get_folder_path
<1> HIDE DEF q, p, m, b
<1>5. q * folder_size = (q * m) * b /\ q * m \in Nat
  BY <1>1, <1>2
<1>6. (q * m) * b < p * b + b
  BY <1>2, <1>3, <1>5, <1>1
<1>7. q * m <= p
  BY <1>1, <1>3, <1>5, <1>6, Gap
<1>8. (q * m) * b <= p * b
  BY <1>1, <1>3, <1>5, <1>7
<1> DEFINE g == p * b
<1>9. q * folder_size <= g /\ g < q * folder_size + folder_size /\ g \in Nat
  BY <1>1, <1>2, <1>3, <1>5, <1>8
<1> HIDE DEF g
<1>10. g \div folder_size = q
  BY <1>1, <1>2, <1>9, DivUnique, Zenon
<1> QED BY <1>4, <1>10 DEF g, get_folder_path

LEMMA PathsAreIds ==
  ASSUME NEW i \in Nat
  PROVE  /\ get_filename(i) \in Nat /\ get_filename(i) <= i
         /\ i <= get_filename(i) + block_size - 1
         /\ get_folder_path(i) \in Nat
         /\ get_folder_path(i) <= i /\ i < get_folder_path(i) + folder_size
<1>1. block_size \in Nat \ {0} /\ folder_size \in Nat \ {0}
  BY StoreAssumption
<1>2. /\ i \div block_size \in Nat /\ (i \div block_size) * block_size <= i
      /\ i < (i \div block_size) * block_size + block_size
  BY <1>1, DivBounds
<1>3. /\ i \div folder_size \in Nat /\ (i \div folder_size) * folder_size <= i
      /\ i < (i \div folder_size) * folder_size + folder_size
  BY <1>1, DivBounds
<1> QED BY <1>1, <1>2, <1>3 DEF get_filename, get_folder_path

\* A folder that comes later holds files that come later.
LEMMA FoldersInOrder ==
  ASSUME NEW f \in Nat, NEW g \in Nat, get_folder_path(f) < get_folder_path(g)
  PROVE  f < g
<1> DEFINE p == f \div folder_size
           q == g \div folder_size
           b == folder_size
<1>1. b \in Nat \ {0}
  BY StoreAssumption
<1>2. p \in Nat /\ f < p * b + b
  BY <1>1, DivBounds
<1>3. q \in Nat /\ q * b <= g
  BY <1>1, DivBounds
<1>4. p * b < q * b
  BY DEF get_folder_path
<1> HIDE DEF p, q, b
<1>5. ~ (q <= p)
  <2>1. SUFFICES ASSUME q <= p PROVE FALSE
    OBVIOUS
  <2>2. q * b <= p * b
    BY <1>1, <1>2, <1>3, <2>1
  <2> QED BY <1>1, <1>2, <1>3, <1>4, <2>2
<1>6. p + 1 <= q
  BY <1>2, <1>3, <1>5
<1>7. (p + 1) * b <= q * b /\ (p + 1) * b = p * b + b
  BY <1>1, <1>2, <1>3, <1>6
<1> QED BY <1>1, <1>2, <1>3, <1>7

-----------------------------------------------------------------------------
(* Bytes that are appended.                                                *)

LEMMA Joined ==
  ASSUME NEW S, NEW s \in Seq(S), NEW t \in Seq(S)
  PROVE  /\ s \o t \in Seq(S)
         /\ Len(s) \in Nat /\ Len(t) \in Nat
         /\ Len(s \o t) = Len(s) + Len(t)
         /\ \A k \in 1 .. Len(s) : (s \o t)[k] = s[k]
         /\ \A k \in 1 .. Len(t) : (s \o t)[Len(s) + k] = t[k]
OBVIOUS

LEMMA BytesFacts ==
  ASSUME NEW i \in Images, NEW n \in Nat
  PROVE  /\ Bytes(i, n) \in Seq(Images)
         /\ Len(Bytes(i, n)) = n
         /\ Holds(Bytes(i, n), i, 0, n)
BY DEF Bytes, Holds

\* What is appended leaves the bytes where they are.
LEMMA HoldsBefore ==
  ASSUME NEW s \in Seq(Images), NEW t \in Seq(Images), NEW i, NEW k \in Nat, NEW n \in Nat,
         Holds(s, i, k, n)
  PROVE  Holds(s \o t, i, k, n)
<1>1. /\ Len(s \o t) = Len(s) + Len(t) /\ Len(s) \in Nat /\ Len(t) \in Nat
      /\ \A j \in 1 .. Len(s) : (s \o t)[j] = s[j]
  BY Joined, Zenon
<1>2. k + n <= Len(s) /\ \A j \in 1 .. n : s[k + j] = i
  BY Zenon DEF Holds
<1>3. k + n <= Len(s \o t)
  BY <1>1, <1>2
<1>4. ASSUME NEW j \in 1 .. n PROVE (s \o t)[k + j] = i
  <2>1. k + j \in 1 .. Len(s)
    BY <1>1, <1>2, <1>4
  <2> QED BY <1>1, <1>2, <2>1, Zenon
<1> QED BY <1>3, <1>4, Zenon DEF Holds

\* The bytes that are appended are found behind those that were there.
LEMMA HoldsBehind ==
  ASSUME NEW s \in Seq(Images), NEW t \in Seq(Images), NEW i, NEW k \in Nat, NEW n \in Nat,
         Len(s) <= k, Holds(t, i, k - Len(s), n)
  PROVE  Holds(s \o t, i, k, n)
<1>1. /\ Len(s \o t) = Len(s) + Len(t) /\ Len(s) \in Nat /\ Len(t) \in Nat
      /\ \A j \in 1 .. Len(t) : (s \o t)[Len(s) + j] = t[j]
  BY Joined
<1>2. (k - Len(s)) + n <= Len(t) /\ \A j \in 1 .. n : t[(k - Len(s)) + j] = i
  BY Zenon DEF Holds
<1>3. k + n <= Len(s \o t)
  BY <1>1, <1>2
<1>4. ASSUME NEW j \in 1 .. n PROVE (s \o t)[k + j] = i
  <2> DEFINE l == (k - Len(s)) + j
  <2>1. l \in 1 .. Len(t) /\ Len(s) + l = k + j
    BY <1>1, <1>2, <1>4
  <2>2. t[l] = i
    BY <1>2, <1>4, Zenon
  <2> HIDE DEF l
  <2>3. (s \o t)[Len(s) + l] = t[l]
    BY <1>1, <2>1, Zenon
  <2> QED BY <2>1, <2>2, <2>3, Zenon
<1> QED BY <1>3, <1>4, Zenon DEF Holds

LEMMA HoldsOwn ==
  ASSUME NEW s \in Seq(Images), NEW i \in Images, NEW n \in Nat
  PROVE  Holds(s \o Bytes(i, n), i, Len(s), n)
<1>1. Len(s) \in Nat /\ Len(s) - Len(s) = 0 /\ Len(s) <= Len(s)
  OBVIOUS
<1>2. Holds(Bytes(i, n), i, Len(s) - Len(s), n)
  BY <1>1, BytesFacts, Zenon
<1> QED BY <1>1, <1>2, BytesFacts, HoldsBehind, Zenon

LEMMA ReadsBack ==
  ASSUME NEW s \in Seq(Images), NEW i \in Images, NEW k \in Nat, NEW n \in Nat,
         Holds(s, i, k, n)
  PROVE  k + n <= Len(s) /\ SubSeq(s, k + 1, k + n) = Bytes(i, n)
<1>1. k + n <= Len(s) /\ \A j \in 1 .. n : s[k + j] = i
  BY Zenon DEF Holds
<1>2. SubSeq(s, k + 1, k + n) = [j \in 1 .. n |-> s[k + j]]
  <2>1. SubSeq(s, k + 1, k + n) = [j \in 1 .. (k + n) - (k + 1) + 1 |-> s[j + (k + 1) - 1]]
    OBVIOUS
  <2>2. (k + n) - (k + 1) + 1 = n /\ \A j \in 1 .. n : j + (k + 1) - 1 = k + j
    OBVIOUS
  <2> QED BY <2>1, <2>2
<1> QED BY <1>1, <1>2, Zenon DEF Bytes

-----------------------------------------------------------------------------
(* Where the bytes of an image are while the writer goes on.               *)

\* The invariant's parts on which the lemmas below rest.
LEMMA Fields ==
  ASSUME IInv
  PROVE  /\ current.file \in DOMAIN files \cup {None}
         /\ current.offset \in Nat /\ current.buffered \in Seq(Images)
         /\ writing.size \in Sizes \cup {0}
         /\ writing.offset \in Nat
         /\ \A f \in DOMAIN files : f \in Nat /\ files[f] \in Seq(Images)
         /\ None \notin DOMAIN files
         /\ \A i \in DOMAIN redis :
              /\ i \in Images /\ get_filename(i) \in DOMAIN files
              /\ redis[i].offset \in Nat /\ redis[i].size \in Sizes
<1>1. current \in [file : DOMAIN files \cup {None}, offset : Nat, buffered : Seq(Images)]
  BY Zenon DEF IInv, WriterTypes
<1>2. writing \in [id : Images \cup {None}, offset : Nat, size : Sizes \cup {0}]
  BY Zenon DEF IInv, WriterTypes
<1>3. \A f \in DOMAIN files : f \in Nat
  <2>1. \A i \in Images : get_filename(i) \in Nat
    BY StoreAssumption, PathsAreIds
  <2> QED BY <2>1, Zenon DEF IInv, StoreTypes, FileIds
<1>4. None \notin Nat
  BY DEF None
<1>5. \A i \in DOMAIN redis :
        /\ i \in Images /\ get_filename(i) \in DOMAIN files
        /\ redis[i] \in [offset : Nat, size : Sizes, opening : Nat]
  BY Zenon DEF IInv, RedisTypes
<1>6. \A i \in DOMAIN redis : redis[i].offset \in Nat /\ redis[i].size \in Sizes
  BY <1>5
<1>7. \A f \in DOMAIN files : files[f] \in Seq(Images)
  BY Zenon DEF IInv, StoreTypes
<1>8. current.file \in DOMAIN files \cup {None} /\ current.offset \in Nat /\ current.buffered \in Seq(Images)
  BY <1>1
<1>9. writing.size \in Sizes \cup {0} /\ writing.offset \in Nat
  BY <1>2
<1> QED BY <1>3, <1>4, <1>5, <1>6, <1>7, <1>8, <1>9, Zenon

\* An image to be placed: one in a file, with at least one byte.
IsImage(i, offset, size) ==
  i \in Images /\ get_filename(i) \in DOMAIN files /\ offset \in Nat /\ size \in Nat \ {0}

\* The images whose places Places is about.
LEMMA ImagesInHand ==
  ASSUME IInv
  PROVE  /\ \A i \in DOMAIN redis : IsImage(i, redis[i].offset, redis[i].size)
         /\ writing.size # 0 =>
              /\ IsImage(writing.id, writing.offset, writing.size)
              /\ current.file = get_filename(writing.id)
<1>1. Sizes \subseteq Nat \ {0}
  BY StoreAssumption, Zenon
<1>2. \A i \in DOMAIN redis : IsImage(i, redis[i].offset, redis[i].size)
  BY <1>1, Fields, Zenon DEF IsImage
<1>3. ASSUME writing.size # 0
      PROVE  IsImage(writing.id, writing.offset, writing.size) /\ current.file = get_filename(writing.id)
  <2>1. writing # NotWriting
    BY <1>3 DEF NotWriting
  <2>2. writing.id \in Images /\ current.file = get_filename(writing.id)
    BY <1>3, <2>1, Zenon DEF IInv, WriterTypes
  <2>3. get_filename(writing.id) \in Nat /\ None \notin Nat
    <3>1. writing.id \in Nat
      BY <2>2, StoreAssumption, Zenon
    <3> QED BY <3>1, PathsAreIds DEF None
  <2>4. get_filename(writing.id) \in DOMAIN files
    BY <2>2, <2>3, Fields, Zenon
  <2> QED BY <1>1, <1>3, <2>2, <2>4, Fields, Zenon DEF IsImage
<1> QED BY <1>2, <1>3, Zenon

\* Nothing happens to the files, to the buffer or to what was lost.
LEMMA PlacedUnchanged ==
  ASSUME NEW i, NEW offset, NEW size,
         Placed(i, offset, size), UNCHANGED <<files, current, lost>>
  PROVE  Placed(i, offset, size)'
BY Zenon DEF Placed, InFile, InBuffer, Holds

\* What is in the buffer is among the images that a crash would take.
LEMMA InBufferIsBuffered ==
  ASSUME IInv, NEW i, NEW offset, NEW size,
         IsImage(i, offset, size), InBuffer(i, offset, size)
  PROVE  i \in Buffered
<1> DEFINE a == Len(files[current.file])
           c == Len(current.buffered)
           k == (offset - a) + 1
<1>1. files[current.file] \in Seq(Images) /\ current.buffered \in Seq(Images)
  BY Fields, Zenon DEF IsImage, InBuffer
<1>2. a \in Nat /\ c \in Nat /\ DOMAIN current.buffered = 1 .. c
  BY <1>1
<1>3. a <= offset /\ (offset - a) + size <= c
  BY Zenon DEF InBuffer, Holds
<1>4. \A j \in 1 .. size : current.buffered[(offset - a) + j] = i
  BY Zenon DEF InBuffer, Holds
<1>5. offset \in Nat /\ size \in Nat \ {0}
  BY Zenon DEF IsImage
<1> HIDE DEF a, c
<1>6. 1 \in 1 .. size /\ k \in 1 .. c
  BY <1>2, <1>3, <1>5
<1>7. current.buffered[k] = i
  BY <1>4, <1>6, Zenon
<1> HIDE DEF k
<1> QED BY <1>2, <1>6, <1>7, Zenon DEF Buffered

\* A crash turns the images of the buffer into lost ones.
LEMMA PlacedAfterCrash ==
  ASSUME IInv, crash, NEW i, NEW offset, NEW size,
         IsImage(i, offset, size), Placed(i, offset, size)
  PROVE  Placed(i, offset, size)'
<1>1. lost' = lost \cup Buffered /\ files' = files
  BY Zenon DEF crash, Buffered
<1>2. CASE InFile(i, offset, size)
  BY <1>1, <1>2, Zenon DEF InFile, Holds, Placed
<1>3. CASE InBuffer(i, offset, size)
  BY <1>1, <1>3, InBufferIsBuffered, Zenon DEF Placed
<1>4. CASE i \in lost
  BY <1>1, <1>4, Zenon DEF Placed
<1> QED BY <1>2, <1>3, <1>4, Zenon DEF Placed

\* The files after a step: some of the buffer, followed by t, was appended to
\* the open file, and the others are as they were.
Appended(t) ==
  /\ DOMAIN files \subseteq DOMAIN files'
  /\ \A f \in DOMAIN files :
       files'[f] = IF f = current.file THEN files[f] \o t ELSE files[f]

\* The buffer goes to the file, with or without further bytes behind it.
LEMMA PlacedAfterFlush ==
  ASSUME IInv, NEW i, NEW offset, NEW size, NEW t \in Seq(Images),
         IsImage(i, offset, size), Placed(i, offset, size),
         Appended(current.buffered \o t), lost' = lost
  PROVE  Placed(i, offset, size)'
<1>1. /\ i \in Images /\ get_filename(i) \in DOMAIN files
      /\ offset \in Nat /\ size \in Nat
  BY Zenon DEF IsImage
<1> DEFINE s == files[get_filename(i)]
           b == current.buffered
           u == b \o t
<1>2. s \in Seq(Images) /\ b \in Seq(Images)
  BY <1>1, Fields, Zenon
<1>3. u \in Seq(Images)
  BY <1>2, Joined, Zenon
<1>4. files'[get_filename(i)] = IF get_filename(i) = current.file THEN s \o u ELSE s
  BY <1>1, Zenon DEF Appended
<1>5. CASE InFile(i, offset, size)
  <2>1. Holds(s, i, offset, size)
    BY <1>5, Zenon DEF InFile
  <2> HIDE DEF s, u
  <2>2. Holds(s \o u, i, offset, size)
    BY <1>1, <1>2, <1>3, <2>1, HoldsBefore, Zenon
  <2>3. Holds(files'[get_filename(i)], i, offset, size)
    BY <1>4, <2>1, <2>2, Zenon
  <2> QED BY <2>3, Zenon DEF Placed, InFile, Holds, get_filename
<1>6. CASE InBuffer(i, offset, size)
  <2>1. current.file = get_filename(i) /\ Len(s) <= offset /\ Holds(b, i, offset - Len(s), size)
    BY <1>6, Zenon DEF InBuffer
  <2>2. offset - Len(s) \in Nat
    BY <1>1, <1>2, <2>1
  <2> HIDE DEF s, b
  <2>3. Holds(u, i, offset - Len(s), size)
    BY <1>1, <1>2, <2>1, <2>2, HoldsBefore, Zenon
  <2> HIDE DEF u
  <2>4. Holds(s \o u, i, offset, size)
    BY <1>1, <1>2, <1>3, <2>1, <2>3, HoldsBehind, Zenon
  <2>5. Holds(files'[get_filename(i)], i, offset, size)
    BY <1>4, <2>1, <2>4, Zenon
  <2> QED BY <2>5, Zenon DEF Placed, InFile, Holds, get_filename
<1>7. CASE i \in lost
  BY <1>7, Zenon DEF Placed
<1> QED BY <1>5, <1>6, <1>7, Zenon DEF Placed

\* Further bytes are added to the buffer.
LEMMA PlacedAfterBuffering ==
  ASSUME IInv, NEW i, NEW offset, NEW size, NEW t \in Seq(Images),
         IsImage(i, offset, size), Placed(i, offset, size),
         UNCHANGED <<files, lost>>, current'.file = current.file,
         current'.buffered = current.buffered \o t
  PROVE  Placed(i, offset, size)'
<1>1. /\ i \in Images /\ get_filename(i) \in DOMAIN files
      /\ offset \in Nat /\ size \in Nat
  BY Zenon DEF IsImage
<1>2. CASE InBuffer(i, offset, size)
  <2> DEFINE s == files[current.file]
             b == current.buffered
  <2>1. current.file = get_filename(i) /\ Len(s) <= offset /\ Holds(b, i, offset - Len(s), size)
    BY <1>2, Zenon DEF InBuffer
  <2>2. s \in Seq(Images) /\ b \in Seq(Images)
    BY <1>1, <2>1, Fields, Zenon
  <2>3. offset - Len(s) \in Nat
    BY <1>1, <2>1, <2>2
  <2> HIDE DEF s, b
  <2>4. Holds(b \o t, i, offset - Len(s), size)
    BY <1>1, <2>1, <2>2, <2>3, HoldsBefore, Zenon
  <2>5. InBuffer(i, offset, size)'
    BY <2>1, <2>4, Zenon DEF InBuffer, Holds, s, b
  <2> QED BY <2>5, Zenon DEF Placed
<1>3. CASE InFile(i, offset, size) \/ i \in lost
  BY <1>3, Zenon DEF Placed, InFile, Holds
<1> QED BY <1>2, <1>3, Zenon DEF Placed

-----------------------------------------------------------------------------
(* The steps, one after the other.                                         *)

LEMMA InitHolds == Init => IInv
<1> SUFFICES ASSUME Init PROVE IInv
  OBVIOUS
<1> USE DEF Init
<1>1. WriterTypes
  BY DEF WriterTypes, Closed, NotWriting, None
<1>2. StoreTypes
  BY DEF StoreTypes
<1>3. RedisTypes /\ OffsetIsLength /\ Places
  BY DEF RedisTypes, OffsetIsLength, Places, Closed, NotWriting
<1> QED BY <1>1, <1>2, <1>3, Zenon DEF IInv

\* Steps that leave the files, the folders and Redis alone.
LEMMA StoresUnchanged ==
  ASSUME IInv, UNCHANGED <<folders, files, redis, ids, openings>>
  PROVE  StoreTypes' /\ RedisTypes'
BY Zenon DEF IInv, StoreTypes, RedisTypes, get_filename, get_folder_path, FileIds

\* Steps that move nothing: what is placed stays placed.
LEMMA PlacesUnchanged ==
  ASSUME IInv, UNCHANGED <<files, current, lost, openings>>,
         \A i \in DOMAIN redis' : i \in DOMAIN redis /\ redis'[i] = redis[i],
         writing'.size # 0 => writing' = writing
  PROVE  OffsetIsLength' /\ Places'
<1>1. OffsetIsLength'
  BY Zenon DEF IInv, OffsetIsLength
<1>2. ASSUME NEW i \in DOMAIN redis', redis'[i].opening = 1
      PROVE  Placed(i, redis[i].offset, redis[i].size)'
  <2>1. PICK o, n : o = redis[i].offset /\ n = redis[i].size
    BY Zenon
  <2>2. Placed(i, o, n)
    BY <1>2, <2>1, Zenon DEF IInv, Places
  <2>3. Placed(i, o, n)'
    BY <2>2, PlacedUnchanged, Zenon
  <2> QED BY <1>2, <2>1, <2>3, Zenon
<1>3. ASSUME writing'.size # 0, openings'[current'.file] = 1
      PROVE  Placed(writing.id, writing.offset, writing.size)'
  <2>1. PICK i, o, n : i = writing.id /\ o = writing.offset /\ n = writing.size
    BY Zenon
  <2>2. Placed(i, o, n)
    BY <1>3, <2>1, Zenon DEF IInv, Places
  <2>3. Placed(i, o, n)'
    BY <2>2, PlacedUnchanged, Zenon
  <2> QED BY <1>3, <2>1, <2>3, Zenon
<1> QED BY <1>1, <1>2, <1>3, Zenon DEF Places

LEMMA ReceiveKeeps ==
  ASSUME IInv, NEW id \in Images, receive_meta(id)
  PROVE  IInv'
<1>1. /\ writing' = [id |-> id, offset |-> 0, size |-> 0]
      /\ UNCHANGED <<folders, files, redis, ids, current, openings, lost>>
  BY Zenon DEF receive_meta
<1>2. WriterTypes'
  <2>1. current' \in [file : DOMAIN files' \cup {None}, offset : Nat, buffered : Seq(Images)]
    BY <1>1, Zenon DEF IInv, WriterTypes
  <2>2. writing' \in [id : Images \cup {None}, offset : Nat, size : Sizes \cup {0}]
    BY <1>1
  <2>3. writing'.id \in Images /\ writing'.size = 0
    BY <1>1
  <2> QED BY <2>1, <2>2, <2>3, Zenon DEF WriterTypes
<1>3. StoreTypes' /\ RedisTypes'
  BY <1>1, StoresUnchanged, Zenon
<1>4. writing'.size = 0
  BY <1>1
<1>5. OffsetIsLength' /\ Places'
  BY <1>1, <1>4, PlacesUnchanged, Zenon
<1> QED BY <1>2, <1>3, <1>5, Zenon DEF IInv

LEMMA ExpireKeeps ==
  ASSUME IInv, NEW id \in Images, expire(id)
  PROVE  IInv'
<1>1. /\ redis' = [i \in DOMAIN redis \ {id} |-> redis[i]]
      /\ UNCHANGED <<folders, files, ids, current, writing, openings, lost>>
  BY Zenon DEF expire
<1>2. /\ DOMAIN redis' \subseteq DOMAIN redis
      /\ \A i \in DOMAIN redis' : i \in DOMAIN redis /\ redis'[i] = redis[i]
  BY <1>1, Zenon
<1>3. WriterTypes' /\ StoreTypes'
  BY <1>1, Zenon DEF IInv, WriterTypes, StoreTypes, NotWriting, get_filename, get_folder_path, FileIds
<1>4. RedisTypes'
  BY <1>1, <1>2, Zenon DEF IInv, RedisTypes, get_filename
<1>5. OffsetIsLength' /\ Places'
  BY <1>1, <1>2, PlacesUnchanged, Zenon
<1> QED BY <1>3, <1>4, <1>5, Zenon DEF IInv

LEMMA SendKeeps ==
  ASSUME IInv, send
  PROVE  IInv'
<1> DEFINE e == [offset |-> writing.offset, size |-> writing.size,
                 opening |-> openings[get_filename(writing.id)]]
<1>1. /\ writing.size # 0
      /\ redis' = Put(redis, writing.id, e)
      /\ ids' = ids \cup {writing.id}
      /\ writing' = NotWriting
      /\ UNCHANGED <<folders, files, current, openings, lost>>
  BY Zenon DEF send
<1>2. /\ IsImage(writing.id, writing.offset, writing.size)
      /\ current.file = get_filename(writing.id)
  BY <1>1, ImagesInHand, Zenon
<1>3. /\ writing.id \in Images /\ get_filename(writing.id) \in DOMAIN files
      /\ writing.size \in Sizes /\ writing.offset \in Nat
  BY <1>1, <1>2, Fields, Zenon DEF IsImage
<1>4. openings[get_filename(writing.id)] \in Nat
  BY <1>3, Zenon DEF IInv, StoreTypes
<1>5. e \in [offset : Nat, size : Sizes, opening : Nat]
  BY <1>3, <1>4
<1>6. /\ e.offset = writing.offset /\ e.size = writing.size
      /\ e.opening = openings[current.file]
  BY <1>2
<1> HIDE DEF e
<1>7. /\ DOMAIN redis' = DOMAIN redis \cup {writing.id}
      /\ redis'[writing.id] = e
      /\ \A i \in DOMAIN redis : i # writing.id => redis'[i] = redis[i]
  <2>1. redis' = Put(redis, writing.id, e)
    BY <1>1, Zenon
  <2> QED BY <2>1, Zenon DEF Put
<1>8. WriterTypes'
  <2>1. current' \in [file : DOMAIN files' \cup {None}, offset : Nat, buffered : Seq(Images)]
    BY <1>1, Zenon DEF IInv, WriterTypes
  <2>2. /\ writing' \in [id : Images \cup {None}, offset : Nat, size : Sizes \cup {0}]
        /\ writing'.size = 0
    BY <1>1 DEF NotWriting
  <2> QED BY <1>1, <2>1, <2>2, Zenon DEF WriterTypes, NotWriting
<1>9. StoreTypes'
  BY <1>1, Zenon DEF IInv, StoreTypes, get_filename, get_folder_path, FileIds
<1>10. RedisTypes'
  BY <1>1, <1>3, <1>5, <1>7, Zenon DEF IInv, RedisTypes, get_filename
<1>11. OffsetIsLength'
  BY <1>1, Zenon DEF IInv, OffsetIsLength
<1>12. ASSUME NEW i \in DOMAIN redis', redis'[i].opening = 1
       PROVE  Placed(i, redis[i].offset, redis[i].size)'
  <2>1. PICK o, n : o = redis'[i].offset /\ n = redis'[i].size
    BY Zenon
  <2>2. CASE i = writing.id
    <3>1. Placed(i, o, n)
      BY <1>1, <1>6, <1>7, <1>12, <2>1, <2>2, Zenon DEF IInv, Places
    <3>2. Placed(i, o, n)'
      BY <1>1, <3>1, PlacedUnchanged, Zenon
    <3> QED BY <2>1, <3>2, Zenon
  <2>3. CASE i # writing.id
    <3>1. Placed(i, o, n)
      BY <1>7, <1>12, <2>1, <2>3, Zenon DEF IInv, Places
    <3>2. Placed(i, o, n)'
      BY <1>1, <3>1, PlacedUnchanged, Zenon
    <3> QED BY <2>1, <3>2, Zenon
  <2> QED BY <2>2, <2>3, Zenon
<1>13. writing'.size = 0
  BY <1>1 DEF NotWriting
<1>14. Places'
  BY <1>12, <1>13, Zenon DEF Places
<1> QED BY <1>8, <1>9, <1>10, <1>11, <1>14, Zenon DEF IInv

LEMMA CrashKeeps ==
  ASSUME IInv, crash
  PROVE  IInv'
<1>1. /\ current' = Closed /\ writing' = NotWriting
      /\ UNCHANGED <<folders, files, redis, ids, openings>>
  BY Zenon DEF crash
<1>2. /\ current' \in [file : DOMAIN files' \cup {None}, offset : Nat, buffered : Seq(Images)]
      /\ writing' \in [id : Images \cup {None}, offset : Nat, size : Sizes \cup {0}]
      /\ writing'.size = 0 /\ current'.file = None
  BY <1>1 DEF Closed, NotWriting
<1>3. WriterTypes'
  BY <1>1, <1>2, Zenon DEF WriterTypes, NotWriting
<1>4. StoreTypes' /\ RedisTypes'
  BY <1>1, StoresUnchanged, Zenon
<1>5. OffsetIsLength'
  BY <1>2, Zenon DEF OffsetIsLength
<1>6. ASSUME NEW i \in DOMAIN redis', redis'[i].opening = 1
      PROVE  Placed(i, redis[i].offset, redis[i].size)'
  <2>1. PICK o, n : o = redis[i].offset /\ n = redis[i].size
    BY Zenon
  <2>2. Placed(i, o, n)
    BY <1>1, <1>6, <2>1, Zenon DEF IInv, Places
  <2>3. IsImage(i, o, n)
    BY <1>1, <2>1, ImagesInHand, Zenon
  <2>4. Placed(i, o, n)'
    BY <2>2, <2>3, PlacedAfterCrash, Zenon
  <2> QED BY <1>1, <2>1, <2>4, Zenon
<1>7. Places'
  BY <1>2, <1>6, Zenon DEF Places
<1> QED BY <1>3, <1>4, <1>5, <1>7, Zenon DEF IInv

LEMMA AcquisitionKeeps ==
  ASSUME IInv, new_acquisition \/ UNCHANGED vars
  PROVE  IInv'
<1>1. UNCHANGED <<folders, files, redis, ids, current, writing, openings, lost>>
  BY Zenon DEF new_acquisition, vars
<1>2. WriterTypes'
  BY <1>1, Zenon DEF IInv, WriterTypes, NotWriting, get_filename
<1>3. StoreTypes' /\ RedisTypes'
  BY <1>1, StoresUnchanged, Zenon
<1>4. OffsetIsLength' /\ Places'
  BY <1>1, PlacesUnchanged, Zenon
<1> QED BY <1>2, <1>3, <1>4, Zenon DEF IInv

LEMMA CreateKeeps ==
  ASSUME IInv, writing # NotWriting, create_directories(writing.id)
  PROVE  IInv'
<1> DEFINE k == get_folder_path(writing.id)
<1>1. /\ k \notin DOMAIN folders /\ folders' = Put(folders, k, {})
      /\ UNCHANGED <<files, redis, ids, current, writing, openings, lost>>
  BY Zenon DEF create_directories
<1>2. k \in Nat
  <2>1. writing.id \in Nat
    BY StoreAssumption, Zenon DEF IInv, WriterTypes
  <2> QED BY <2>1, PathsAreIds, Zenon
<1> HIDE DEF k
<1>3. /\ DOMAIN folders' = DOMAIN folders \cup {k}
      /\ folders'[k] = {}
      /\ \A x \in DOMAIN folders : x # k => folders'[x] = folders[x]
  <2>1. folders' = Put(folders, k, {})
    BY <1>1, Zenon
  <2> QED BY <2>1, Zenon DEF Put
<1>4. WriterTypes'
  BY <1>1, Zenon DEF IInv, WriterTypes, NotWriting, get_filename
<1>5. RedisTypes'
  BY <1>1, Zenon DEF IInv, RedisTypes, get_filename
<1>6. StoreTypes'
  <2>1. /\ DOMAIN files' \subseteq FileIds
        /\ \A f \in DOMAIN files' : files'[f] \in Seq(Images)
        /\ DOMAIN openings' = DOMAIN files'
        /\ \A f \in DOMAIN openings' : openings'[f] \in Nat \ {0}
    BY <1>1, Zenon DEF IInv, StoreTypes
  <2>2. DOMAIN folders' \subseteq Nat
    BY <1>2, <1>3, Zenon DEF IInv, StoreTypes
  <2>3. \A f \in DOMAIN files : get_folder_path(f) \in DOMAIN folders
    BY Zenon DEF IInv, StoreTypes
  <2>4. ASSUME NEW x \in DOMAIN folders'
        PROVE  folders'[x] = {f \in DOMAIN files' : get_folder_path(f) = x}
    <3>1. CASE x = k
      BY <1>1, <1>3, <2>3, <3>1, Zenon
    <3>2. CASE x # k
      BY <1>1, <1>3, <3>2, Zenon DEF IInv, StoreTypes
    <3> QED BY <3>1, <3>2, Zenon
  <2>5. \A f \in DOMAIN files' : get_folder_path(f) \in DOMAIN folders'
    BY <1>1, <1>3, <2>3, Zenon
  <2> QED BY <2>1, <2>2, <2>4, <2>5, Zenon DEF StoreTypes, FileIds, get_filename, get_folder_path
<1>7. OffsetIsLength' /\ Places'
  BY <1>1, PlacesUnchanged, Zenon
<1> QED BY <1>4, <1>5, <1>6, <1>7, Zenon DEF IInv

-----------------------------------------------------------------------------
(* A new file is opened.                                                   *)

\* What open_new_file does to the files: the buffer goes to the open one, and
\* the file to be opened is created if there is none.
LEMMA OpenedFiles ==
  ASSUME IInv, NEW id, open_new_file(id)
  PROVE  /\ DOMAIN files' = DOMAIN files \cup {get_filename(id)}
         /\ Appended(current.buffered)
         /\ get_filename(id) \notin DOMAIN files => files'[get_filename(id)] = << >>
<1> DEFINE file == get_filename(id)
           flushed == IF current.file = None THEN files
                      ELSE [files EXCEPT ![current.file] = files[current.file] \o current.buffered]
<1>1. files' = Put(flushed, file, Get(flushed, file, << >>))
  BY Zenon DEF open_new_file
<1>2. current.file \in DOMAIN files \cup {None} /\ None \notin DOMAIN files
  BY Fields, Zenon
<1>3. DOMAIN flushed = DOMAIN files
  BY Zenon
<1>4. \A f \in DOMAIN files :
        flushed[f] = IF f = current.file THEN files[f] \o current.buffered ELSE files[f]
  BY <1>2, Zenon
<1> HIDE DEF flushed, file
<1>5. /\ DOMAIN files' = DOMAIN flushed \cup {file}
      /\ files'[file] = Get(flushed, file, << >>)
      /\ \A f \in DOMAIN flushed : f # file => files'[f] = flushed[f]
  BY <1>1, Zenon DEF Put
<1>6. \A f \in DOMAIN files : files'[f] = flushed[f]
  BY <1>3, <1>5, Zenon DEF Get
<1>7. Appended(current.buffered)
  BY <1>3, <1>4, <1>5, <1>6, Zenon DEF Appended
<1>8. file \notin DOMAIN files => files'[file] = << >>
  BY <1>3, <1>5, Zenon DEF Get
<1> QED BY <1>3, <1>5, <1>7, <1>8, Zenon DEF file

LEMMA OpenKeeps ==
  ASSUME IInv, writing # NotWriting, writing.size = 0, open_new_file(writing.id)
  PROVE  IInv'
<1> DEFINE file == get_filename(writing.id)
           k == get_folder_path(writing.id)
<1>1. /\ k \in DOMAIN folders
      /\ folders' = [folders EXCEPT ![k] = folders[k] \cup {file}]
      /\ current' = [file |-> file, offset |-> 0, buffered |-> << >>]
      /\ openings' = Put(openings, file, Get(openings, file, 0) + 1)
      /\ UNCHANGED <<redis, ids, writing, lost>>
  BY Zenon DEF open_new_file
<1>2. writing.id \in Images /\ writing.id \in Nat
  BY StoreAssumption, Zenon DEF IInv, WriterTypes
<1>3. file \in FileIds /\ file \in Nat /\ k \in Nat /\ get_folder_path(file) = k
  BY <1>2, PathsAreIds, FolderOfFile, Zenon DEF FileIds
<1>4. /\ DOMAIN files' = DOMAIN files \cup {file}
      /\ Appended(current.buffered)
      /\ file \notin DOMAIN files => files'[file] = << >>
  BY OpenedFiles, Zenon
<1> HIDE DEF file, k
<1>5. /\ DOMAIN openings' = DOMAIN openings \cup {file}
      /\ openings'[file] = Get(openings, file, 0) + 1
      /\ \A f \in DOMAIN openings : f # file => openings'[f] = openings[f]
  <2>1. openings' = Put(openings, file, Get(openings, file, 0) + 1)
    BY <1>1, Zenon
  <2> QED BY <2>1, Zenon DEF Put
<1>6. /\ DOMAIN folders' = DOMAIN folders
      /\ folders'[k] = folders[k] \cup {file}
      /\ \A x \in DOMAIN folders : x # k => folders'[x] = folders[x]
  BY <1>1, Zenon
<1>7. /\ current' \in [file : DOMAIN files' \cup {None}, offset : Nat, buffered : Seq(Images)]
      /\ current'.file = file /\ current'.offset = 0 /\ current'.buffered = << >>
  BY <1>1, <1>4
<1>8. WriterTypes'
  BY <1>1, <1>7, Zenon DEF IInv, WriterTypes, NotWriting
<1>9. RedisTypes'
  BY <1>1, <1>4, Zenon DEF IInv, RedisTypes, get_filename
<1>10. \A f \in DOMAIN files : files[f] \in Seq(Images)
  BY Fields, Zenon
<1>11. current.buffered \in Seq(Images)
  BY Fields, Zenon
<1>12. \A f \in DOMAIN files' : files'[f] \in Seq(Images)
  <2>1. \A f \in DOMAIN files : files[f] \o current.buffered \in Seq(Images)
    BY <1>10, <1>11, Joined, Zenon
  <2>2. << >> \in Seq(Images)
    OBVIOUS
  <2> QED BY <1>4, <1>10, <2>1, <2>2, Zenon DEF Appended
<1>13. /\ \A f \in DOMAIN openings : openings[f] \in Nat \ {0}
       /\ DOMAIN openings = DOMAIN files
  BY Zenon DEF IInv, StoreTypes
<1>14. /\ openings'[file] \in Nat \ {0}
       /\ file \in DOMAIN files => openings'[file] # 1
  BY <1>5, <1>13 DEF Get
<1>15. StoreTypes'
  <2>1. DOMAIN files' \subseteq FileIds
    BY <1>3, <1>4, Zenon DEF IInv, StoreTypes
  <2>2. DOMAIN openings' = DOMAIN files'
    BY <1>4, <1>5, <1>13, Zenon
  <2>3. \A f \in DOMAIN openings' : openings'[f] \in Nat \ {0}
    BY <1>5, <1>13, <1>14, Zenon
  <2>4. DOMAIN folders' \subseteq Nat
    BY <1>6, Zenon DEF IInv, StoreTypes
  <2>5. ASSUME NEW x \in DOMAIN folders'
        PROVE  folders'[x] = {f \in DOMAIN files' : get_folder_path(f) = x}
    <3>1. folders[x] = {f \in DOMAIN files : get_folder_path(f) = x}
      BY <1>6, Zenon DEF IInv, StoreTypes
    <3>2. CASE x = k
      BY <1>3, <1>4, <1>6, <3>1, <3>2, Zenon
    <3>3. CASE x # k
      BY <1>3, <1>4, <1>6, <3>1, <3>3, Zenon
    <3> QED BY <3>2, <3>3, Zenon
  <2>6. \A f \in DOMAIN files' : get_folder_path(f) \in DOMAIN folders'
    BY <1>1, <1>3, <1>4, <1>6, Zenon DEF IInv, StoreTypes
  <2> QED BY <1>12, <2>1, <2>2, <2>3, <2>4, <2>5, <2>6, Zenon
          DEF StoreTypes, FileIds, get_filename, get_folder_path
<1>16. OffsetIsLength'
  <2>1. Len(<< >>) + Len(<< >>) = 0
    OBVIOUS
  <2>2. openings'[file] = 1 => files'[file] = << >>
    BY <1>4, <1>14, Zenon
  <2> QED BY <1>7, <2>1, <2>2, Zenon DEF OffsetIsLength
<1>17. ASSUME NEW i \in DOMAIN redis', redis'[i].opening = 1
       PROVE  Placed(i, redis[i].offset, redis[i].size)'
  <2>1. PICK o, n : o = redis[i].offset /\ n = redis[i].size
    BY Zenon
  <2>2. Placed(i, o, n)
    BY <1>1, <1>17, <2>1, Zenon DEF IInv, Places
  <2>3. IsImage(i, o, n)
    BY <1>1, <2>1, ImagesInHand, Zenon
  <2>4. << >> \in Seq(Images) /\ current.buffered \o << >> = current.buffered
    BY <1>11
  <2>5. Appended(current.buffered \o << >>)
    BY <1>4, <2>4, Zenon
  <2>6. Placed(i, o, n)'
    BY <1>1, <2>2, <2>3, <2>4, <2>5, PlacedAfterFlush, Zenon
  <2> QED BY <1>1, <2>1, <2>6, Zenon
<1>18. Places'
  BY <1>1, <1>17, Zenon DEF Places
<1> QED BY <1>8, <1>9, <1>15, <1>16, <1>18, Zenon DEF IInv

-----------------------------------------------------------------------------
(* An image is written.                                                    *)

\* The new image lies behind all that the open file will hold: with it, the
\* offset is again the length, and the image is where the writer says.
LEMMA WrittenAtOffset ==
  ASSUME IInv, NEW i \in Images, NEW n \in Nat, NEW o,
         current.file = get_filename(i), get_filename(i) \in DOMAIN files,
         o = Len(files[current.file]) + Len(current.buffered),
         current'.file = current.file,
         \/ /\ files'[current.file] = files[current.file] \o (current.buffered \o Bytes(i, n))
            /\ current'.buffered = << >>
         \/ /\ files'[current.file] = files[current.file]
            /\ current'.buffered = current.buffered \o Bytes(i, n)
  PROVE  /\ Placed(i, o, n)'
         /\ o + n = Len(files'[current.file]) + Len(current'.buffered)
<1> DEFINE s == files[current.file]
           b == current.buffered
           t == Bytes(i, n)
           u == b \o t
<1>1. s \in Seq(Images) /\ b \in Seq(Images)
  BY Fields, Zenon
<1>2. t \in Seq(Images) /\ Len(t) = n
  BY BytesFacts, Zenon
<1>3. /\ Holds(u, i, Len(b), n)
  BY <1>1, HoldsOwn, Zenon
<1>4. /\ o = Len(s) + Len(b)
      /\ \/ files'[current.file] = s \o u /\ current'.buffered = << >>
         \/ files'[current.file] = s /\ current'.buffered = u
  BY Zenon
<1> HIDE DEF s, b, t
<1>5. u \in Seq(Images) /\ Len(u) = Len(b) + Len(t) /\ Len(b) \in Nat
  BY <1>1, <1>2, Joined, ZenonT(40)
<1> HIDE DEF u
<1>6. Len(s \o u) = Len(s) + Len(u) /\ Len(s) \in Nat
  BY <1>1, <1>5, Joined, Zenon
<1> DEFINE ls == Len(s)  lb == Len(b)  lu == Len(u)
<1>7. /\ ls \in Nat /\ lb \in Nat /\ o = ls + lb /\ lu = lb + n
      /\ Len(s \o u) = ls + lu /\ Len(<< >>) = 0
  BY <1>2, <1>4, <1>5, <1>6
<1> HIDE DEF ls, lb, lu
<1>8. /\ o \in Nat /\ ls <= o /\ o - ls = lb /\ o + n = (ls + lu) + 0 /\ o + n = ls + lu
  BY <1>7
<1>9. o + n = Len(files'[current.file]) + Len(current'.buffered)
  BY <1>4, <1>7, <1>8, Zenon DEF ls, lu
<1>10. Holds(u, i, o - Len(s), n) /\ Len(s) <= o
  BY <1>3, <1>8, Zenon DEF ls, lb
<1>11. CASE files'[current.file] = s \o u
  <2>1. Holds(s \o u, i, o, n)
    BY <1>1, <1>5, <1>8, <1>10, HoldsBehind, Zenon
  <2> QED BY <1>9, <1>11, <2>1, Zenon DEF Placed, InFile, Holds, get_filename
<1>12. CASE files'[current.file] = s /\ current'.buffered = u
  BY <1>9, <1>10, <1>12, Zenon DEF Placed, InBuffer, Holds, get_filename
<1> QED BY <1>4, <1>11, <1>12, Zenon

LEMMA WriteKeeps ==
  ASSUME IInv, writing # NotWriting, NEW size \in Sizes, NEW spill \in BOOLEAN,
         write_data_and_update_offset(writing.id, size, spill)
  PROVE  IInv'
<1> DEFINE id == writing.id
           t == Bytes(id, size)
           all == current.buffered \o t
<1>1. /\ current.file = get_filename(id)
      /\ files' = IF spill THEN [files EXCEPT ![current.file] = files[current.file] \o all] ELSE files
      /\ current' = [current EXCEPT !.offset = current.offset + size,
                                    !.buffered = IF spill THEN << >> ELSE all]
      /\ writing' = [id |-> id, offset |-> current.offset, size |-> size]
      /\ UNCHANGED <<folders, redis, ids, openings, lost>>
  BY Zenon DEF write_data_and_update_offset
<1>2. id \in Images /\ id \in Nat /\ size \in Nat \ {0}
  BY StoreAssumption, Zenon DEF IInv, WriterTypes
<1>3. current.file \in DOMAIN files
  <2>1. get_filename(id) \in Nat /\ None \notin Nat
    BY <1>2, PathsAreIds DEF None
  <2> QED BY <1>1, <2>1, Fields, Zenon
<1>4. /\ \A f \in DOMAIN files : files[f] \in Seq(Images)
      /\ current.buffered \in Seq(Images) /\ current.offset \in Nat
  BY Fields, Zenon
<1>5. t \in Seq(Images)
  BY <1>2, BytesFacts, Zenon
<1>6. all \in Seq(Images)
  BY <1>4, <1>5, Joined, Zenon
<1>7. current \in [file : DOMAIN files \cup {None}, offset : Nat, buffered : Seq(Images)]
  BY Zenon DEF IInv, WriterTypes
<1> HIDE DEF t, all
<1>8. /\ current'.file = current.file /\ current'.offset = current.offset + size
      /\ current'.buffered = IF spill THEN << >> ELSE all
      /\ current' \in [file : DOMAIN files \cup {None}, offset : Nat, buffered : Seq(Images)]
  <2> DEFINE w == IF spill THEN << >> ELSE all
  <2>1. << >> \in Seq(Images)
    OBVIOUS
  <2>2. w \in Seq(Images)
    BY <1>6, <2>1, Zenon
  <2>3. current' = [current EXCEPT !.offset = current.offset + size, !.buffered = w]
    BY <1>1, Zenon
  <2>4. current.offset + size \in Nat
    BY <1>2, <1>4
  <2> HIDE DEF w
  <2>5. /\ current'.file = current.file /\ current'.offset = current.offset + size
        /\ current'.buffered = w
        /\ current' \in [file : DOMAIN files \cup {None}, offset : Nat, buffered : Seq(Images)]
    BY <1>7, <2>2, <2>3, <2>4, ZenonT(40)
  <2> QED BY <2>5, Zenon DEF w
<1>9. /\ DOMAIN files' = DOMAIN files
      /\ spill => \A f \in DOMAIN files :
                    files'[f] = IF f = current.file THEN files[f] \o all ELSE files[f]
      /\ ~ spill => files' = files
  BY <1>1, Zenon
<1>10. \A f \in DOMAIN files' : files'[f] \in Seq(Images)
  <2>1. \A f \in DOMAIN files : files[f] \o all \in Seq(Images)
    BY <1>4, <1>6, Joined, Zenon
  <2> QED BY <1>4, <1>9, <2>1, Zenon
<1>11. /\ writing'.id = id /\ writing'.offset = current.offset /\ writing'.size = size
       /\ writing' \in [id : Images \cup {None}, offset : Nat, size : Sizes \cup {0}]
  BY <1>1, <1>2, <1>4
<1>12. WriterTypes'
  BY <1>1, <1>2, <1>8, <1>9, <1>11, Zenon DEF WriterTypes, get_filename
<1>13. StoreTypes'
  BY <1>1, <1>9, <1>10, Zenon DEF IInv, StoreTypes, get_filename, get_folder_path, FileIds
<1>14. RedisTypes'
  BY <1>1, <1>9, Zenon DEF IInv, RedisTypes, get_filename
<1>15. PICK i, o : i = writing.id /\ o = current.offset
  BY Zenon
<1>16. ASSUME openings[current.file] = 1
       PROVE  /\ Placed(i, o, size)'
              /\ o + size = Len(files'[current.file]) + Len(current'.buffered)
  <2>1. current.file # None
    BY <1>3, Fields, Zenon
  <2>2. o = Len(files[current.file]) + Len(current.buffered)
    BY <1>15, <1>16, <2>1, Zenon DEF IInv, OffsetIsLength
  <2>3. \/ files'[current.file] = files[current.file] \o all /\ current'.buffered = << >>
        \/ files'[current.file] = files[current.file] /\ current'.buffered = all
    BY <1>3, <1>8, <1>9, Zenon
  <2>4. all = current.buffered \o Bytes(i, size)
    BY <1>15, Zenon DEF all, t
  <2>5. i \in Images /\ size \in Nat /\ current.file = get_filename(i)
    BY <1>1, <1>2, <1>15, Zenon
  <2> QED BY <1>3, <1>8, <2>2, <2>3, <2>4, <2>5, WrittenAtOffset, Zenon
<1>17. OffsetIsLength'
  BY <1>1, <1>8, <1>15, <1>16, Zenon DEF OffsetIsLength
<1>18. ASSUME NEW j \in DOMAIN redis', redis'[j].opening = 1
       PROVE  Placed(j, redis[j].offset, redis[j].size)'
  <2>1. PICK p, n : p = redis[j].offset /\ n = redis[j].size
    BY Zenon
  <2>2. Placed(j, p, n)
    BY <1>1, <1>18, <2>1, Zenon DEF IInv, Places
  <2>3. IsImage(j, p, n)
    BY <1>1, <1>18, <2>1, ImagesInHand, Zenon
  <2>4. CASE spill
    <3>1. Appended(current.buffered \o t)
      BY <1>9, <2>4, Zenon DEF Appended, all
    <3> QED BY <1>1, <1>5, <2>1, <2>2, <2>3, <3>1, PlacedAfterFlush, Zenon
  <2>5. CASE ~ spill
    <3>1. current'.buffered = current.buffered \o t
      BY <1>8, <2>5, Zenon DEF all
    <3> QED BY <1>1, <1>5, <1>8, <1>9, <2>1, <2>2, <2>3, <2>5, <3>1, PlacedAfterBuffering, Zenon
  <2> QED BY <2>4, <2>5, Zenon
<1>19. Places'
  BY <1>1, <1>8, <1>11, <1>15, <1>16, <1>18, Zenon DEF Places
<1> QED BY <1>12, <1>13, <1>14, <1>17, <1>19, Zenon DEF IInv

LEMMA NextKeeps == IInv /\ [Next]_vars => IInv'
<1> SUFFICES ASSUME IInv, [Next]_vars PROVE IInv'
  OBVIOUS
<1>1. ASSUME NEW id \in Images, receive_meta(id) PROVE IInv'
  BY <1>1, ReceiveKeeps
<1>2. ASSUME writing # NotWriting, write(writing.id) PROVE IInv'
  <2>1. CASE create_directories(writing.id)
    BY <1>2, <2>1, CreateKeeps, Zenon
  <2>2. CASE open_new_file(writing.id)
    <3>1. writing.size = 0
      BY <1>2, Zenon DEF write
    <3> QED BY <1>2, <2>2, <3>1, OpenKeeps, Zenon
  <2>3. ASSUME NEW size \in Sizes, NEW spill \in BOOLEAN,
               write_data_and_update_offset(writing.id, size, spill)
        PROVE  IInv'
    BY <1>2, <2>3, WriteKeeps, Zenon
  <2> QED BY <1>2, <2>1, <2>2, <2>3, Zenon DEF write
<1>3. CASE send
  BY <1>3, SendKeeps, Zenon
<1>4. ASSUME NEW id \in Images, expire(id) PROVE IInv'
  BY <1>4, ExpireKeeps
<1>5. CASE crash
  BY <1>5, CrashKeeps, Zenon
<1>6. CASE new_acquisition \/ UNCHANGED vars
  BY <1>6, AcquisitionKeeps, Zenon
<1> QED BY <1>1, <1>2, <1>3, <1>4, <1>5, <1>6, Zenon DEF Next

\* The invariant behind the results below holds in every reachable state.
LEMMA Invariance == Spec => []IInv
BY InitHolds, NextKeeps, PTL DEF Spec

-----------------------------------------------------------------------------
(* The reader's search.                                                    *)

LEMMA Smallest ==
  ASSUME NEW S, S \subseteq Nat, S # {}
  PROVE  \E m \in S : \A j \in S : m <= j
<1>1. \E m \in S : \A j \in S : ~ (<<j, m>> \in OpToRel(<, Nat))
  BY NatLessThanWellFounded, WFMin, Zenon
<1>2. \A m, j \in S : ~ (<<j, m>> \in OpToRel(<, Nat)) => m <= j
  BY DEF OpToRel
<1> QED BY <1>1, <1>2, Zenon

LEMMA LowerBoundIs ==
  ASSUME NEW S, S \subseteq Nat, NEW x \in Nat,
         NEW m \in S, x <= m, \A j \in S : x <= j => m <= j
  PROVE  LowerBound(S, x) = {m}
<1>1. \A j \in S : j >= x <=> x <= j
  OBVIOUS
<1>2. m \in LowerBound(S, x)
  BY <1>1, Zenon DEF LowerBound
<1>3. \A j \in S : m <= j /\ j <= m => j = m
  OBVIOUS
<1>4. \A j \in LowerBound(S, x) : j = m
  BY <1>1, <1>3, Zenon DEF LowerBound
<1> QED BY <1>2, <1>4, Zenon

\* There is a lower bound as soon as there is something not below.
LEMMA LowerBoundExists ==
  ASSUME NEW S, S \subseteq Nat, NEW x \in Nat, NEW k \in S, x <= k
  PROVE  \E m \in S : x <= m /\ (\A j \in S : x <= j => m <= j) /\ LowerBound(S, x) = {m}
<1> DEFINE T == {j \in S : x <= j}
<1>1. T \subseteq Nat /\ T # {}
  BY Zenon
<1> HIDE DEF T
<1>2. \E m \in T : \A j \in T : m <= j
  BY <1>1, Smallest, Zenon
<1>3. PICK m \in S : x <= m /\ \A j \in S : x <= j => m <= j
  BY <1>2, Zenon DEF T
<1>4. x <= m
  BY <1>3, Zenon
<1>5. \A j \in S : x <= j => m <= j
  BY <1>3, Zenon
<1>6. LowerBound(S, x) = {m}
  BY <1>4, <1>5, LowerBoundIs, Zenon
<1> QED BY <1>4, <1>5, <1>6, Zenon

\* Folder by folder, the search comes upon the first file at or after the one
\* of the image, or upon an empty folder.
LEMMA SearchIsComplete ==
  ASSUME IInv, NEW id \in Images
  PROVE  LET found == get_first_matching_root_id(id)
         IN  found = {Garbage} \/ found = LowerBound(DOMAIN files, get_filename(id))
<1> DEFINE t == get_folder_path(id)
           x == get_filename(id)
           F == DOMAIN files
           D == DOMAIN folders
           inside == IF t \in D THEN LowerBound(folders[t], x) ELSE {}
           next == LowerBound(D \ {t}, t)
           front(f) == IF folders[f] = {} THEN {Garbage} ELSE LowerBound(folders[f], 0)
           found == get_first_matching_root_id(id)
           path(f) == get_folder_path(f)
<1>1. found = IF inside # {} THEN inside ELSE UNION {front(f) : f \in next}
  BY Zenon DEF get_first_matching_root_id
<1>2. id \in Nat
  BY StoreAssumption, Zenon
<1>3. x \in Nat /\ t \in Nat /\ path(x) = t
  BY <1>2, PathsAreIds, FolderOfFile, Zenon
<1>4. F \subseteq Nat /\ D \subseteq Nat
  BY Fields, Zenon DEF IInv, StoreTypes
<1>5. /\ \A k \in D : folders[k] = {f \in F : path(f) = k}
      /\ \A f \in F : path(f) \in D
  BY Zenon DEF IInv, StoreTypes
<1>6. \A f \in F : path(f) \in Nat
  BY <1>4, <1>5, Zenon
<1>7. \A f \in Nat, g \in Nat : path(f) < path(g) => f < g
  BY FoldersInOrder
<1> HIDE DEF t, x, F, D, inside, next, front, found, path
<1>8. \A j \in F : x <= j => t <= path(j)
  <2> SUFFICES ASSUME NEW j \in F, x <= j, ~ (t <= path(j)) PROVE FALSE
    BY Zenon
  <2>1. path(j) < path(x) /\ j \in Nat
    BY <1>3, <1>4, <1>6
  <2>2. j < x
    BY <1>3, <1>7, <2>1, Zenon
  <2> QED BY <1>3, <2>1, <2>2
<1>9. CASE \E k \in F : path(k) = t /\ x <= k
  <2>1. PICK k \in F : path(k) = t /\ x <= k
    BY <1>9, Zenon
  <2> DEFINE S == folders[t]
  <2>2. t \in D /\ S = {f \in F : path(f) = t}
    BY <1>5, <2>1, Zenon
  <2>3. S \subseteq Nat /\ k \in S
    BY <1>4, <2>1, <2>2, Zenon
  <2> HIDE DEF S
  <2>4. PICK m \in S : x <= m /\ (\A j \in S : x <= j => m <= j) /\ LowerBound(S, x) = {m}
    BY <1>3, <2>1, <2>3, LowerBoundExists, ZenonT(40)
  <2>5. m \in F /\ path(m) = t
    BY <2>2, <2>4, Zenon
  <2>6. ASSUME NEW j \in F, x <= j PROVE m <= j
    <3>1. t <= path(j)
      BY <1>8, <2>6, Zenon
    <3>2. CASE path(j) = t
      BY <2>2, <2>4, <2>6, <3>2, Zenon
    <3>3. CASE path(j) # t
      <4>1. path(m) < path(j) /\ m \in Nat /\ j \in Nat
        BY <1>3, <1>4, <1>6, <2>5, <3>1, <3>3
      <4>2. m < j
        BY <1>7, <4>1, Zenon
      <4> QED BY <4>1, <4>2
    <3> QED BY <3>2, <3>3, Zenon
  <2>7. LowerBound(F, x) = {m}
    BY <1>3, <1>4, <2>4, <2>5, <2>6, LowerBoundIs, Zenon
  <2>8. inside = {m}
    BY <2>2, <2>4, Zenon DEF inside, S
  <2>9. found = LowerBound(F, x)
    BY <1>1, <2>7, <2>8, Zenon
  <2> QED BY <2>9, Zenon DEF found, F, x
<1>10. CASE ~ \E k \in F : path(k) = t /\ x <= k
  <2>1. inside = {}
    <3>1. ASSUME t \in D PROVE LowerBound(folders[t], x) = {}
      BY <1>5, <1>10, <3>1 DEF LowerBound
    <3> QED BY <3>1, Zenon DEF inside
  <2>2. found = UNION {front(f) : f \in next}
    BY <1>1, <2>1, Zenon
  <2>3. \A j \in F : x <= j => path(j) \in D \ {t} /\ t <= path(j)
    BY <1>5, <1>8, <1>10, Zenon
  <2>4. D \ {t} \subseteq Nat
    BY <1>4, Zenon
  <2>5. CASE \E k \in D \ {t} : t <= k
    <3>1. PICK g \in D \ {t} : /\ t <= g /\ \A k \in D \ {t} : t <= k => g <= k
                               /\ next = {g}
      <4>1. PICK k \in D \ {t} : t <= k
        BY <2>5, Zenon
      <4>2. \E m \in D \ {t} : /\ t <= m /\ (\A j \in D \ {t} : t <= j => m <= j)
                               /\ LowerBound(D \ {t}, t) = {m}
        BY <1>3, <2>4, <4>1, LowerBoundExists, Zenon
      <4> QED BY <4>2, Zenon DEF next
    <3>2. found = front(g)
      BY <2>2, <3>1, Zenon
    <3>3. CASE folders[g] = {}
      BY <3>2, <3>3, Zenon DEF front, found
    <3>4. CASE folders[g] # {}
      <4> DEFINE S == folders[g]
      <4>1. S = {f \in F : path(f) = g}
        BY <1>5, <3>1, Zenon
      <4>2. S \subseteq Nat
        BY <1>4, <4>1, Zenon
      <4>3. PICK k : k \in S
        BY <3>4, Zenon
      <4>4. 0 \in Nat /\ 0 <= k
        BY <4>2, <4>3
      <4>5. front(g) = LowerBound(S, 0)
        BY <3>4, Zenon DEF front
      <4> HIDE DEF S
      <4>6. PICK m \in S : 0 <= m /\ (\A j \in S : 0 <= j => m <= j) /\ LowerBound(S, 0) = {m}
        BY <4>2, <4>3, <4>4, LowerBoundExists, ZenonT(40)
      <4>7. m \in F /\ m \in Nat /\ path(m) = g
        BY <4>1, <4>2, <4>6, Zenon
      <4>8. x <= m
        <5>1. path(x) < path(m)
          BY <1>3, <1>4, <3>1, <4>7
        <5>2. x < m
          BY <1>3, <1>7, <4>7, <5>1, Zenon
        <5> QED BY <1>3, <4>7, <5>2
      <4>9. ASSUME NEW j \in F, x <= j PROVE m <= j
        <5>1. g <= path(j) /\ j \in Nat
          BY <1>4, <2>3, <3>1, <4>9, Zenon
        <5>2. CASE path(j) = g
          <6>1. j \in S /\ 0 <= j
            BY <4>1, <4>9, <5>1, <5>2
          <6> QED BY <4>6, <6>1, Zenon
        <5>3. CASE path(j) # g
          <6>1. path(m) < path(j)
            BY <1>4, <1>6, <3>1, <4>7, <5>1, <5>3, SMTT(40)
          <6>2. m < j
            BY <1>7, <4>7, <5>1, <6>1, Zenon
          <6> QED BY <4>7, <5>1, <6>2
        <5> QED BY <5>2, <5>3, Zenon
      <4>10. LowerBound(F, x) = {m}
        BY <1>3, <1>4, <4>7, <4>8, <4>9, LowerBoundIs, Zenon
      <4>11. found = LowerBound(F, x)
        BY <3>2, <4>5, <4>6, <4>10, Zenon
      <4> QED BY <4>11, Zenon DEF found, F, x
    <3> QED BY <3>3, <3>4, Zenon
  <2>6. CASE ~ \E k \in D \ {t} : t <= k
    <3>1. next = {}
      BY <2>6, Zenon DEF next, LowerBound
    <3>2. found = {}
      BY <2>2, <3>1, Zenon
    <3>3. LowerBound(F, x) = {}
      <4>1. \A j \in F : ~ (x <= j)
        BY <2>3, <2>6, Zenon
      <4> QED BY <1>3, <1>4, <4>1, ZenonT(40) DEF LowerBound
    <3> QED BY <3>2, <3>3, Zenon DEF found, F, x
  <2> QED BY <2>5, <2>6, Zenon
<1> QED BY <1>9, <1>10, Zenon

-----------------------------------------------------------------------------
(* The results.                                                            *)

\* The search of get_first_matching_root_id over folders and files finds, in
\* every reachable state, what a search over all files would, or stops at an
\* empty folder that a crash between create_directories and the opening of the
\* file has left.
THEOREM SearchFindsTheNextFile == Spec => []FindsNextFile
<1>1. IInv => FindsNextFile
  BY SearchIsComplete, Zenon DEF FindsNextFile
<1> QED BY <1>1, Invariance, PTL

\* Whatever crashes and restarts: the metadata that RedisHandler::send has
\* stored belong to a file that exists, and the reader's search leads to it.
THEOREM MetadataLeadToFiles == Spec => []EntriesHaveFiles
<1>1. ASSUME IInv, NEW i \in DOMAIN redis
      PROVE  /\ get_filename(i) \in DOMAIN files
             /\ i \in get_metadatas_in_file_range(get_filename(i))
             /\ get_first_matching_root_id(i) = {get_filename(i)}
  <2> DEFINE t == get_folder_path(i)
             x == get_filename(i)
             S == folders[t]
  <2>1. i \in Images /\ i \in ids /\ x \in DOMAIN files
    BY <1>1, Zenon DEF IInv, RedisTypes
  <2>2. i \in Nat
    BY <2>1, StoreAssumption, Zenon
  <2>3. x \in Nat /\ x <= i /\ i <= x + block_size - 1 /\ get_folder_path(x) = t
    BY <2>2, PathsAreIds, FolderOfFile, Zenon
  <2>4. i \in get_metadatas_in_file_range(x)
    BY <1>1, <2>1, <2>3, Zenon DEF get_metadatas_in_file_range
  <2>5. t \in DOMAIN folders /\ S = {f \in DOMAIN files : get_folder_path(f) = t}
    BY <1>1, <2>1, <2>3, Zenon DEF IInv, StoreTypes
  <2>6. S \subseteq Nat /\ x \in S
    BY <1>1, <2>1, <2>3, <2>5, Fields, Zenon
  <2> HIDE DEF S, x, t
  <2>7. x <= x
    BY <2>3
  <2>8. LowerBound(S, x) = {x}
    BY <2>3, <2>6, <2>7, LowerBoundIs, Zenon
  <2>9. get_first_matching_root_id(i) = {x}
    BY <2>5, <2>8, Zenon DEF get_first_matching_root_id, S, x, t
  <2> QED BY <2>1, <2>4, <2>9, Zenon DEF x
<1>2. IInv => EntriesHaveFiles
  BY <1>1, Zenon DEF EntriesHaveFiles
<1> QED BY <1>2, Invariance, PTL

\* An image of a file that FileHandler had opened for the first time stays
\* readable at the offset and with the size that Redis gives, unless it is
\* still in the buffer of the stream or a crash took it from there.
THEOREM ImagesStayReadable == Spec => []StaysReadable
<1>1. ASSUME IInv, NEW i \in DOMAIN redis,
             redis[i].opening = 1, i \notin Buffered \cup lost
      PROVE  ReadBytes(i) = Bytes(i, redis[i].size)
  <2> DEFINE o == redis[i].offset
             n == redis[i].size
             s == files[get_filename(i)]
  <2>1. IsImage(i, o, n) /\ Placed(i, o, n)
    BY <1>1, ImagesInHand, Zenon DEF IInv, Places
  <2>2. Holds(s, i, o, n)
    BY <1>1, <2>1, InBufferIsBuffered, Zenon DEF Placed, InFile
  <2>3. s \in Seq(Images) /\ i \in Images /\ o \in Nat /\ n \in Nat
    BY <1>1, <2>1, Fields, Zenon DEF IsImage
  <2> HIDE DEF o, n, s
  <2>4. o + n <= Len(s) /\ SubSeq(s, o + 1, o + n) = Bytes(i, n)
    BY <2>2, <2>3, ReadsBack, Zenon
  <2>5. Get(files, get_filename(i), << >>) = s
    BY <2>1, Zenon DEF Get, IsImage, s
  <2> QED BY <2>4, <2>5, Zenon DEF ReadBytes, o, n
<1>2. IInv => StaysReadable
  BY <1>1, Zenon DEF StaysReadable
<1> QED BY <1>2, Invariance, PTL
=============================================================================
