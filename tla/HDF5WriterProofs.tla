-------------------------- MODULE HDF5WriterProofs --------------------------
(***************************************************************************)
(* What holds of every file the writers leave behind, for any paths,       *)
(* users, block sizes and numbers of images, wherever a write fails.       *)
(***************************************************************************)
EXTENDS HDF5Writer, TLAPS

-----------------------------------------------------------------------------
(* Types.                                                                  *)

Cmds == [do : {"create", "record", "confirm", "close"}, path : Paths \cup {""},
         user : Users, image : Nat]

HFiles == [state : {"absent", "open", "closed"}, asked : Users, by : Users,
           wanted : Seq(Nat), metas : Seq(Nat), images : Seq(Nat),
           meta_extent : Nat, image_extent : Nat]

Types ==
  /\ config \in WriterConfigs \cup MetaWriterConfigs
  /\ disk \in [Paths -> HFiles]
  /\ held \subseteq Paths
  /\ file \in [path : Paths \cup {"none"}, index : Nat \cup {-1}]
  /\ user \in Users
  /\ alive \in BOOLEAN
  /\ inbox \in Seq(Cmds)
  /\ outbox \in Seq({"SUCCESS", "FAILURE"})
  /\ phase \in {"idle", "create", "record", "confirm", "close"}
  /\ n_runs \in Nat
  /\ n_images \in Nat

-----------------------------------------------------------------------------
(* The driver and its writer.                                              *)

\* All commands but the last are for images.
Records(n) == \A k \in 1 .. n : inbox[k].do = "record"

\* Images are sent to a writer that has said its file is there, and nothing
\* that could close the file comes before them.
Protocol ==
  /\ \A k \in DOMAIN inbox : inbox[k].do = "create" => inbox[k].path \in Paths
  /\ alive =>
       /\ phase = "idle" => inbox = << >> /\ outbox = << >>
       /\ phase = "create" =>
            \/ inbox = << >> /\ outbox \in {<< >>, <<"FAILURE">>}
            \/ inbox = << >> /\ outbox = <<"SUCCESS">> /\ file # NoFile
            \/ Len(inbox) = 1 /\ inbox[1].do = "create" /\ outbox = << >>
       /\ phase = "record" =>
            outbox = << >> /\ file # NoFile /\ Records(Len(inbox))
       /\ phase = "confirm" =>
            \/ inbox = << >> /\ outbox = <<"SUCCESS">>
            \/ /\ inbox # << >> /\ inbox[Len(inbox)].do = "confirm"
               /\ outbox = << >> /\ file # NoFile /\ Records(Len(inbox) - 1)
       /\ phase = "close" =>
            \/ inbox = << >> /\ outbox = <<"SUCCESS">>
            \/ Len(inbox) = 1 /\ inbox[1].do = "close" /\ outbox = << >>

-----------------------------------------------------------------------------
(* The files.                                                              *)

Data == config.kind = "data"

\* Nothing was written to a file.
Empty(f) ==
  /\ f.wanted = << >> /\ f.metas = << >> /\ f.images = << >>
  /\ f.meta_extent = 0 /\ f.image_extent = 0

\* The records and images of a file are in its datasets.
Fits(f) == Len(f.metas) <= f.meta_extent /\ Len(f.images) <= f.image_extent

\* A file has all records and images that the driver has sent.
Intact(f) ==
  /\ Fits(f)
  /\ f.metas = f.wanted
  /\ Data => f.images = f.wanted
  /\ ~Data => f.images = << >>

\* A file whose last image may be missing.
Torn(f) ==
  /\ Fits(f)
  /\ Data =>
       /\ \A k \in DOMAIN f.images : f.images[k] = f.metas[k]
       /\ Len(f.metas) = Len(f.images) \/ Len(f.metas) = Len(f.images) + 1

\* A dataset that has lost the part that was never written.
Trimmed(f) ==
  Len(f.wanted) # 1 =>
    /\ f.meta_extent = Len(f.wanted)
    /\ Data => f.image_extent = Len(f.wanted)

\* The file in use: index is the number of the last image in it, and it can grow.
InUse(f) ==
  /\ Intact(f)
  /\ Len(f.wanted) = file.index + 1
  /\ file.index = -1 => Empty(f)
  /\ records_per_chunk > 0
  /\ Data => images_per_chunk > 0

\* A file that is not in use was closed, or nothing was ever written to it.
Contents ==
  /\ \A p \in Paths : disk[p].state = "open" <=> p \in held
  /\ file = NoFile \/ file.path \in held
  /\ file # NoFile => Torn(disk[file.path]) /\ (alive => InUse(disk[file.path]))
  /\ \A p \in Paths : p # file.path =>
       IF disk[p].state = "closed" THEN Intact(disk[p]) /\ Trimmed(disk[p])
       ELSE Empty(disk[p])

IInv == Types /\ Protocol /\ Contents /\ WrittenAsUser

-----------------------------------------------------------------------------
(* Numbers and sequences.                                                  *)

\* The extent that write_meta asks for has room for the record.
LEMMA Grows ==
  ASSUME NEW r \in Nat \ {0}, NEW n \in Nat
  PROVE  ((n \div r) + 1) * r \in Nat /\ ((n \div r) + 1) * r >= n
<1> DEFINE q == n \div r
           m == n % r
<1>1. q \in Nat /\ m \in 0 .. r - 1 /\ n = r * q + m
  OBVIOUS
<1>2. (q + 1) * r = r * q + r /\ r * q \in Nat
  BY <1>1
<1> HIDE DEF q, m
<1>3. (q + 1) * r \in Nat /\ (q + 1) * r >= n
  BY <1>1, <1>2
<1> QED BY <1>3 DEF q

\* A block that is large enough for one element makes chunks.
LEMMA ChunkFits ==
  ASSUME NEW b \in Nat, NEW r \in Nat \ {0}
  PROVE  (b \div r) \in Nat /\ (b >= r => b \div r > 0)
<1> DEFINE q == b \div r
           m == b % r
<1>1. q \in Nat /\ m \in 0 .. r - 1 /\ b = r * q + m
  OBVIOUS
<1>2. q = 0 => b < r
  BY <1>1
<1> HIDE DEF q, m
<1>3. q \in Nat /\ (b >= r => q > 0)
  BY <1>1, <1>2
<1> QED BY <1>3 DEF q

LEMMA AppendFacts ==
  ASSUME NEW S, NEW s \in Seq(S), NEW e \in S
  PROVE  /\ Append(s, e) \in Seq(S)
         /\ Len(Append(s, e)) = Len(s) + 1
         /\ Append(s, e)[Len(s) + 1] = e
         /\ \A k \in 1 .. Len(s) : Append(s, e)[k] = s[k]
OBVIOUS

LEMMA SeqFacts ==
  ASSUME NEW S, NEW s \in Seq(S)
  PROVE  /\ Len(s) \in Nat /\ DOMAIN s = 1 .. Len(s)
         /\ \A k \in 1 .. Len(s) : s[k] \in S
OBVIOUS

LEMMA LenZero ==
  ASSUME NEW S, NEW s \in Seq(S)
  PROVE  s = << >> <=> Len(s) = 0
OBVIOUS

LEMMA HeadTailFacts ==
  ASSUME NEW S, NEW s \in Seq(S), s # << >>
  PROVE  /\ Len(s) > 0 /\ Head(s) = s[1] /\ s[1] \in S
         /\ Tail(s) \in Seq(S) /\ Len(Tail(s)) = Len(s) - 1
         /\ \A k \in 1 .. Len(s) - 1 : Tail(s)[k] = s[k + 1]
OBVIOUS

-----------------------------------------------------------------------------
(* The files, one operation at a time.                                     *)

LEMMA NoDataType == NoData \in HFiles
BY WriterAssumption DEF NoData, HFiles

LEMMA NewFile ==
  ASSUME NEW asked \in Users, NEW as \in Users
  PROVE  LET f == [NoData EXCEPT !.state = "open", !.asked = asked, !.by = as]
         IN  f \in HFiles /\ Empty(f) /\ f.state = "open" /\ f.asked = asked /\ f.by = as
<1> DEFINE f == [NoData EXCEPT !.state = "open", !.asked = asked, !.by = as]
<1>1. /\ f.state = "open" /\ f.asked = asked /\ f.by = as
      /\ f.wanted = << >> /\ f.metas = << >> /\ f.images = << >>
      /\ f.meta_extent = 0 /\ f.image_extent = 0
  BY DEF NoData
<1>2. f \in HFiles
  BY NoDataType, Zenon DEF HFiles
<1> QED BY <1>1, <1>2 DEF Empty

LEMMA ChunkTypes ==
  ASSUME Types
  PROVE  /\ images_per_chunk \in Nat /\ records_per_chunk \in Nat
         /\ Data /\ create_datasets => images_per_chunk > 0 /\ records_per_chunk > 0
         /\ ~Data /\ meta_create_datasets => records_per_chunk > 0
<1>1. config.gpfs_block_size \in Nat
  BY WriterAssumption, Zenon DEF Types, WriterConfigs, MetaWriterConfigs
<1> DEFINE b == config.gpfs_block_size
<1>2. /\ (b \div image_size) \in Nat /\ (b \div record_size) \in Nat
      /\ (b \div meta_record_size) \in Nat
      /\ b >= record_size => b \div record_size > 0
      /\ b >= meta_record_size => b \div meta_record_size > 0
  BY <1>1, ChunkFits, WriterAssumption
<1> HIDE DEF b
<1>3. CASE Data
  BY <1>2, <1>3 DEF Data, images_per_chunk, records_per_chunk, create_datasets, b,
     create_metadata_dataset, create_image_dataset
<1>4. CASE ~Data
  BY <1>2, <1>4 DEF Data, images_per_chunk, records_per_chunk, meta_create_datasets, b,
     meta_create_metadata_dataset
<1> QED BY <1>3, <1>4

\* Writing to a file does not change whose it is.
Kept(f, g) == g.state = f.state /\ g.asked = f.asked /\ g.by = f.by

LEMMA FileFields ==
  ASSUME NEW f \in HFiles
  PROVE  /\ f.state \in {"absent", "open", "closed"} /\ f.asked \in Users /\ f.by \in Users
         /\ f.wanted \in Seq(Nat) /\ f.metas \in Seq(Nat) /\ f.images \in Seq(Nat)
         /\ f.meta_extent \in Nat /\ f.image_extent \in Nat
BY DEF HFiles

\* A file with all records and images, i of each.
Whole(f, i) == Intact(f) /\ Len(f.wanted) = i

\* A file whose next image has arrived.
Wanting(f, image) == [f EXCEPT !.wanted = Append(@, image)]

LEMMA AskedFile ==
  ASSUME NEW f \in HFiles, NEW image \in Nat
  PROVE  LET g == Wanting(f, image)
         IN  /\ g \in HFiles /\ Kept(f, g)
             /\ g.wanted = Append(f.wanted, image) /\ g.metas = f.metas /\ g.images = f.images
             /\ g.meta_extent = f.meta_extent /\ g.image_extent = f.image_extent
<1> DEFINE g == Wanting(f, image)
<1>1. Append(f.wanted, image) \in Seq(Nat)
  BY FileFields, AppendFacts
<1>2. g \in HFiles
  BY <1>1, Zenon DEF HFiles, Wanting
<1> QED BY <1>2 DEF HFiles, Kept, Wanting

LEMMA ExtendedFile ==
  ASSUME Types, records_per_chunk > 0, NEW f \in HFiles, NEW i \in Nat
  PROVE  LET g == Extended(f, i)
         IN  /\ g \in HFiles /\ Kept(f, g)
             /\ g.wanted = f.wanted /\ g.metas = f.metas /\ g.images = f.images
             /\ g.meta_extent >= i + 1 /\ g.meta_extent >= f.meta_extent
             /\ g.image_extent = f.image_extent
<1> DEFINE g == Extended(f, i)
<1> DEFINE e == extend_meta(f, i)
           r == records_per_chunk
<1>1. r \in Nat \ {0} /\ f.meta_extent \in Nat /\ i + 1 \in Nat
  BY ChunkTypes, FileFields
<1> HIDE DEF r
<1>2. (((i + 1) \div r) + 1) * r \in Nat /\ (((i + 1) \div r) + 1) * r >= i + 1
  BY <1>1, Grows
<1> DEFINE x == (((i + 1) \div r) + 1) * r
<1> HIDE DEF x
<1>3. e = IF i + 1 > f.meta_extent THEN x ELSE f.meta_extent
  BY Zenon DEF extend_meta, r, x
<1>4. x \in Nat /\ x >= i + 1
  BY <1>2 DEF x
<1> HIDE DEF e
<1>5. e \in Nat /\ e >= i + 1 /\ e >= f.meta_extent
  BY <1>1, <1>3, <1>4
<1>6. g = [f EXCEPT !.meta_extent = e]
  BY Zenon DEF Extended, e
<1>7. g \in HFiles
  BY <1>5, <1>6, Zenon DEF HFiles
<1> QED BY <1>5, <1>6, <1>7 DEF HFiles, Kept

LEMMA EnlargedFile ==
  ASSUME Types, images_per_chunk > 0, NEW f \in HFiles, NEW i \in Nat
  PROVE  LET g == Enlarged(f, i)
         IN  /\ g \in HFiles /\ Kept(f, g)
             /\ g.wanted = f.wanted /\ g.metas = f.metas /\ g.images = f.images
             /\ g.image_extent >= i + 1 /\ g.image_extent >= f.image_extent
             /\ g.meta_extent = f.meta_extent
<1> DEFINE g == Enlarged(f, i)
<1> DEFINE e == extend_image(f, i)
<1>1. images_per_chunk \in Nat \ {0} /\ f.image_extent \in Nat
  BY ChunkTypes, FileFields
<1>2. e = IF i >= f.image_extent THEN i + images_per_chunk ELSE f.image_extent
  BY Zenon DEF extend_image
<1> HIDE DEF e
<1>3. e \in Nat /\ e >= i + 1 /\ e >= f.image_extent
  BY <1>1, <1>2
<1>4. g = [f EXCEPT !.image_extent = e]
  BY Zenon DEF Enlarged, e
<1>5. g \in HFiles
  BY <1>3, <1>4, Zenon DEF HFiles
<1> QED BY <1>3, <1>4, <1>5 DEF HFiles, Kept

LEMMA WrittenMeta ==
  ASSUME Types, records_per_chunk > 0, NEW f \in HFiles, NEW i \in Nat, NEW image \in Nat
  PROVE  LET g == write_meta(f, i, image)
         IN  /\ g \in HFiles /\ Kept(f, g)
             /\ g.wanted = f.wanted /\ g.metas = Append(f.metas, image) /\ g.images = f.images
             /\ g.meta_extent >= i + 1 /\ g.meta_extent >= f.meta_extent
             /\ g.image_extent = f.image_extent
<1> DEFINE g == write_meta(f, i, image)
<1> DEFINE x == Extended(f, i)
<1>1. /\ x \in HFiles /\ Kept(f, x)
      /\ x.wanted = f.wanted /\ x.metas = f.metas /\ x.images = f.images
      /\ x.meta_extent >= i + 1 /\ x.meta_extent >= f.meta_extent
      /\ x.image_extent = f.image_extent
  BY ExtendedFile, Zenon
<1>2. g = [x EXCEPT !.metas = Append(@, image)]
  BY Zenon DEF write_meta
<1> HIDE DEF x
<1>3. Append(x.metas, image) \in Seq(Nat)
  BY <1>1, FileFields, AppendFacts
<1>4. g \in HFiles
  BY <1>1, <1>2, <1>3, Zenon DEF HFiles
<1>5. /\ Kept(x, g) /\ g.wanted = x.wanted /\ g.metas = Append(x.metas, image)
      /\ g.images = x.images /\ g.meta_extent = x.meta_extent
      /\ g.image_extent = x.image_extent
  BY <1>1, <1>2 DEF HFiles, Kept
<1> QED BY <1>1, <1>4, <1>5, Zenon DEF Kept

LEMMA WrittenImage ==
  ASSUME Types, images_per_chunk > 0, NEW f \in HFiles, NEW i \in Nat, NEW image \in Nat
  PROVE  LET g == write_image(f, i, image)
         IN  /\ g \in HFiles /\ Kept(f, g)
             /\ g.wanted = f.wanted /\ g.metas = f.metas /\ g.images = Append(f.images, image)
             /\ g.image_extent >= i + 1 /\ g.image_extent >= f.image_extent
             /\ g.meta_extent = f.meta_extent
<1> DEFINE g == write_image(f, i, image)
<1> DEFINE x == Enlarged(f, i)
<1>1. /\ x \in HFiles /\ Kept(f, x)
      /\ x.wanted = f.wanted /\ x.metas = f.metas /\ x.images = f.images
      /\ x.image_extent >= i + 1 /\ x.image_extent >= f.image_extent
      /\ x.meta_extent = f.meta_extent
  BY EnlargedFile, Zenon
<1>2. g = [x EXCEPT !.images = Append(@, image)]
  BY Zenon DEF write_image
<1> HIDE DEF x
<1>3. Append(x.images, image) \in Seq(Nat)
  BY <1>1, FileFields, AppendFacts
<1>4. g \in HFiles
  BY <1>1, <1>2, <1>3, Zenon DEF HFiles
<1>5. /\ Kept(x, g) /\ g.wanted = x.wanted /\ g.images = Append(x.images, image)
      /\ g.metas = x.metas /\ g.image_extent = x.image_extent
      /\ g.meta_extent = x.meta_extent
  BY <1>1, <1>2 DEF HFiles, Kept
<1> QED BY <1>1, <1>4, <1>5, Zenon DEF Kept

-----------------------------------------------------------------------------
(* What the calls of write, and the failing ones, make of the file in use.  *)

\* A file with all records and images is not torn.
LEMMA IntactIsNotTorn ==
  ASSUME NEW f \in HFiles, Intact(f)
  PROVE  Torn(f)
<1>1. Len(f.metas) \in Nat
  BY FileFields, SeqFacts
<1> QED BY <1>1 DEF Intact, Torn

LEMMA EmptyIsIntact ==
  ASSUME NEW f \in HFiles, Empty(f)
  PROVE  Intact(f) /\ Trimmed(f)
<1>1. Len(<< >>) = 0
  OBVIOUS
<1> QED BY <1>1 DEF Empty, Intact, Trimmed, Fits

\* What may be left of a file of the data writer when one image more is written,
\* and what is left when all calls succeed.
LEMMA DataWritten ==
  ASSUME Types, Data, NEW f \in HFiles, NEW i \in Nat, NEW image \in Nat,
         Whole(f, i), records_per_chunk > 0, images_per_chunk > 0
  PROVE  LET a == Wanting(f, image)
             m == write_meta(a, i, image)
             h == write_image(m, i, image)
         IN  /\ \A g \in {a, Extended(a, i), m, Enlarged(m, i)} :
                  g \in HFiles /\ Torn(g) /\ Kept(f, g)
             /\ h \in HFiles /\ Whole(h, i + 1) /\ Kept(f, h)
<1> DEFINE a == Wanting(f, image)
           x == Extended(a, i)
           m == write_meta(a, i, image)
           e == Enlarged(m, i)
           g == write_image(m, i, image)
<1>1. /\ f.metas = f.wanted /\ f.images = f.wanted
      /\ i <= f.meta_extent /\ i <= f.image_extent
      /\ f.wanted \in Seq(Nat) /\ f.meta_extent \in Nat /\ f.image_extent \in Nat
      /\ Len(f.wanted) = i
  BY FileFields DEF Whole, Intact, Fits
<1>2. /\ a \in HFiles /\ Kept(f, a)
      /\ a.wanted = Append(f.wanted, image) /\ a.metas = f.metas /\ a.images = f.images
      /\ a.meta_extent = f.meta_extent /\ a.image_extent = f.image_extent
  BY AskedFile, Zenon
<1> HIDE DEF a
<1>3. /\ x \in HFiles /\ Kept(a, x)
      /\ x.wanted = a.wanted /\ x.metas = a.metas /\ x.images = a.images
      /\ x.meta_extent >= i + 1 /\ x.meta_extent >= a.meta_extent
      /\ x.image_extent = a.image_extent
  <2>1. a \in HFiles
    BY <1>2, Zenon
  <2> QED BY <2>1, ExtendedFile, Zenon
<1>4. /\ m \in HFiles /\ Kept(a, m)
      /\ m.wanted = a.wanted /\ m.metas = Append(a.metas, image) /\ m.images = a.images
      /\ m.meta_extent >= i + 1 /\ m.meta_extent >= a.meta_extent
      /\ m.image_extent = a.image_extent
  <2>1. a \in HFiles
    BY <1>2, Zenon
  <2> QED BY <2>1, WrittenMeta, Zenon
<1> HIDE DEF m
<1>5. /\ e \in HFiles /\ Kept(m, e)
      /\ e.wanted = m.wanted /\ e.metas = m.metas /\ e.images = m.images
      /\ e.image_extent >= i + 1 /\ e.image_extent >= m.image_extent
      /\ e.meta_extent = m.meta_extent
  <2>1. m \in HFiles
    BY <1>4, Zenon
  <2> QED BY <2>1, EnlargedFile, Zenon
<1>6. /\ g \in HFiles /\ Kept(m, g)
      /\ g.wanted = m.wanted /\ g.metas = m.metas /\ g.images = Append(m.images, image)
      /\ g.image_extent >= i + 1 /\ g.image_extent >= m.image_extent
      /\ g.meta_extent = m.meta_extent
  <2>1. m \in HFiles
    BY <1>4, Zenon
  <2> QED BY <2>1, WrittenImage, Zenon
<1> HIDE DEF x, e, g
<1> DEFINE w == f.wanted
           v == Append(w, image)
<1>7. /\ w \in Seq(Nat) /\ Len(w) = i /\ DOMAIN w = 1 .. i /\ Len(v) = i + 1
      /\ \A k \in DOMAIN w : v[k] = w[k]
  BY <1>1, AppendFacts, SeqFacts
<1> HIDE DEF w, v
<1>8. /\ f.metas = w /\ f.images = w /\ a.wanted = v /\ a.metas = w /\ a.images = w
      /\ x.metas = w /\ x.images = w /\ m.metas = v /\ m.images = w
      /\ e.metas = v /\ e.images = w /\ g.wanted = v /\ g.metas = v /\ g.images = v
  BY <1>1, <1>2, <1>3, <1>4, <1>5, <1>6 DEF w, v
<1>9. /\ Len(w) <= a.meta_extent /\ Len(w) <= a.image_extent
      /\ Len(w) <= x.meta_extent /\ Len(w) <= x.image_extent
      /\ Len(v) <= m.meta_extent /\ Len(w) <= m.image_extent
      /\ Len(v) <= e.meta_extent /\ Len(w) <= e.image_extent
      /\ Len(v) <= g.meta_extent /\ Len(v) <= g.image_extent
  <2>1. /\ x.meta_extent \in Nat /\ m.meta_extent \in Nat /\ e.image_extent \in Nat
        /\ g.image_extent \in Nat
    BY <1>3, <1>4, <1>5, <1>6, FileFields
  <2>2. /\ a.meta_extent = f.meta_extent /\ a.image_extent = f.image_extent
        /\ x.meta_extent >= i + 1 /\ x.image_extent = f.image_extent
        /\ m.meta_extent >= i + 1 /\ m.image_extent = f.image_extent
        /\ e.meta_extent = m.meta_extent /\ e.image_extent >= i + 1
        /\ g.meta_extent = m.meta_extent /\ g.image_extent >= i + 1
    BY <1>2, <1>3, <1>4, <1>5, <1>6, Zenon
  <2>3. Len(w) = i /\ Len(v) = i + 1 /\ i <= f.meta_extent /\ i <= f.image_extent
    BY <1>1, <1>7, Zenon
  <2> QED BY <2>1, <2>2, <2>3
<1>10. Torn(a) /\ Torn(x)
  BY <1>8, <1>9, Zenon DEF Torn, Fits
<1>11. Torn(m) /\ Torn(e)
  BY <1>7, <1>8, <1>9, Zenon DEF Torn, Fits
<1>12. Whole(g, i + 1)
  BY <1>7, <1>8, <1>9, Zenon DEF Whole, Intact, Fits
<1>13. Kept(f, x) /\ Kept(f, m) /\ Kept(f, e) /\ Kept(f, g)
  BY <1>2, <1>3, <1>4, <1>5, <1>6, Zenon DEF Kept
<1> QED BY <1>2, <1>3, <1>4, <1>5, <1>6, <1>10, <1>11, <1>12, <1>13, Zenon DEF a, x, m, e, g

\* The same of the metadata writer.
LEMMA MetaWritten ==
  ASSUME Types, ~Data, NEW f \in HFiles, NEW i \in Nat, NEW image \in Nat,
         Whole(f, i), records_per_chunk > 0
  PROVE  LET a == Wanting(f, image)
             h == write_meta(a, i, image)
         IN  /\ \A g \in {a, Extended(a, i)} : g \in HFiles /\ Torn(g) /\ Kept(f, g)
             /\ h \in HFiles /\ Whole(h, i + 1) /\ Kept(f, h)
<1> DEFINE a == Wanting(f, image)
           x == Extended(a, i)
           g == write_meta(a, i, image)
<1>1. /\ f.metas = f.wanted /\ f.images = << >>
      /\ i <= f.meta_extent /\ Len(f.images) <= f.image_extent
      /\ f.wanted \in Seq(Nat) /\ f.meta_extent \in Nat /\ f.image_extent \in Nat
      /\ Len(f.wanted) = i
  BY FileFields DEF Whole, Intact, Fits
<1>2. /\ a \in HFiles /\ Kept(f, a)
      /\ a.wanted = Append(f.wanted, image) /\ a.metas = f.metas /\ a.images = f.images
      /\ a.meta_extent = f.meta_extent /\ a.image_extent = f.image_extent
  BY AskedFile, Zenon
<1> HIDE DEF a
<1>3. /\ x \in HFiles /\ Kept(a, x)
      /\ x.wanted = a.wanted /\ x.metas = a.metas /\ x.images = a.images
      /\ x.meta_extent >= i + 1 /\ x.meta_extent >= a.meta_extent
      /\ x.image_extent = a.image_extent
  <2>1. a \in HFiles
    BY <1>2, Zenon
  <2> QED BY <2>1, ExtendedFile, Zenon
<1>4. /\ g \in HFiles /\ Kept(a, g)
      /\ g.wanted = a.wanted /\ g.metas = Append(a.metas, image) /\ g.images = a.images
      /\ g.meta_extent >= i + 1 /\ g.meta_extent >= a.meta_extent
      /\ g.image_extent = a.image_extent
  <2>1. a \in HFiles
    BY <1>2, Zenon
  <2> QED BY <2>1, WrittenMeta, Zenon
<1> HIDE DEF x, g
<1>5. Len(Append(f.wanted, image)) = i + 1
  BY <1>1, AppendFacts
<1>6. /\ x.meta_extent \in Nat /\ g.meta_extent \in Nat
  BY <1>3, <1>4, FileFields
<1>7. /\ Len(f.wanted) <= x.meta_extent
      /\ Len(Append(f.wanted, image)) <= g.meta_extent
  BY <1>1, <1>2, <1>3, <1>4, <1>5, <1>6
<1>8. Torn(a) /\ Torn(x)
  BY <1>1, <1>2, <1>3, <1>7 DEF Torn, Fits
<1>9. Whole(g, i + 1)
  BY <1>1, <1>2, <1>4, <1>5, <1>7 DEF Whole, Intact, Fits
<1>10. Kept(f, x) /\ Kept(f, g)
  BY <1>2, <1>3, <1>4, Zenon DEF Kept
<1> QED BY <1>2, <1>3, <1>4, <1>8, <1>9, <1>10, Zenon DEF a, x, g

\* What the destructor makes of the file in use.
LEMMA FileDestroyed ==
  ASSUME Types, NEW f \in HFiles, InUse(f), NEW g,
         g = IF Data
             THEN [f EXCEPT !.state = "closed",
                            !.meta_extent = Cut(@, file, file.index + 1),
                            !.image_extent = Cut(@, file, file.index + 1)]
             ELSE [f EXCEPT !.state = "closed", !.meta_extent = Cut(@, file, file.index + 1)]
  PROVE  /\ g \in HFiles /\ g.state = "closed" /\ Intact(g) /\ Trimmed(g)
         /\ g.asked = f.asked /\ g.by = f.by
<1> DEFINE n == file.index
           me == Cut(f.meta_extent, file, file.index + 1)
           ie == Cut(f.image_extent, file, file.index + 1)
<1>1. /\ n \in Nat \cup {-1} /\ Len(f.wanted) = n + 1
      /\ f.meta_extent \in Nat /\ f.image_extent \in Nat
      /\ n = -1 => f.meta_extent = 0 /\ f.image_extent = 0
      /\ n + 1 <= f.meta_extent
      /\ Data => n + 1 <= f.image_extent
  BY FileFields DEF Types, InUse, Intact, Fits, Empty
<1>2. /\ me = IF n > 0 THEN n + 1 ELSE f.meta_extent
      /\ ie = IF n > 0 THEN n + 1 ELSE f.image_extent
  BY Zenon DEF Cut
<1> HIDE DEF me, ie, n
<1>3. /\ me \in Nat /\ ie \in Nat /\ n + 1 <= me /\ (Data => n + 1 <= ie)
      /\ n + 1 # 1 => me = n + 1 /\ (Data => ie = n + 1)
  BY <1>1, <1>2
<1>4. CASE Data
  <2>1. g = [f EXCEPT !.state = "closed", !.meta_extent = me, !.image_extent = ie]
    BY <1>4, Zenon DEF me, ie
  <2>2. g \in HFiles
    BY <1>3, <2>1, Zenon DEF HFiles
  <2>3. /\ g.state = "closed" /\ g.asked = f.asked /\ g.by = f.by /\ g.wanted = f.wanted
        /\ g.metas = f.metas /\ g.images = f.images
        /\ g.meta_extent = me /\ g.image_extent = ie
    BY <2>1, Zenon DEF HFiles
  <2>4. f.metas = f.wanted /\ f.images = f.wanted
    BY <1>4, Zenon DEF InUse, Intact
  <2> QED BY <1>1, <1>3, <1>4, <2>2, <2>3, <2>4, Zenon DEF Intact, Trimmed, Fits
<1>5. CASE ~Data
  <2>1. g = [f EXCEPT !.state = "closed", !.meta_extent = me]
    BY <1>5, Zenon DEF me
  <2>2. g \in HFiles
    BY <1>3, <2>1, Zenon DEF HFiles
  <2>3. /\ g.state = "closed" /\ g.asked = f.asked /\ g.by = f.by /\ g.wanted = f.wanted
        /\ g.metas = f.metas /\ g.images = f.images
        /\ g.meta_extent = me /\ g.image_extent = f.image_extent
    BY <2>1, Zenon DEF HFiles
  <2>4. f.metas = f.wanted /\ f.images = << >> /\ Len(f.images) <= f.image_extent
    BY <1>5, Zenon DEF InUse, Intact, Fits
  <2> QED BY <1>1, <1>3, <1>5, <2>2, <2>3, <2>4, Zenon DEF Intact, Trimmed, Fits
<1> QED BY <1>4, <1>5

-----------------------------------------------------------------------------
(* The steps of the driver.                                                *)

\* A command that is sent comes after the ones that wait.
LEMMA Sent ==
  ASSUME Types, NEW c \in Cmds, Send(c)
  PROVE  /\ inbox' \in Seq(Cmds) /\ Len(inbox') = Len(inbox) + 1 /\ Len(inbox) \in Nat
         /\ DOMAIN inbox = 1 .. Len(inbox) /\ DOMAIN inbox' = 1 .. Len(inbox) + 1
         /\ inbox'[Len(inbox) + 1] = c
         /\ \A k \in 1 .. Len(inbox) : inbox'[k] = inbox[k]
         /\ inbox' # << >>
<1>1. inbox \in Seq(Cmds) /\ inbox' = Append(inbox, c)
  BY Zenon DEF Types, Send
<1>2. /\ inbox' \in Seq(Cmds) /\ Len(inbox') = Len(inbox) + 1 /\ Len(inbox) \in Nat
      /\ DOMAIN inbox = 1 .. Len(inbox)
      /\ inbox'[Len(inbox) + 1] = c
      /\ \A k \in 1 .. Len(inbox) : inbox'[k] = inbox[k]
  BY <1>1, AppendFacts, SeqFacts
<1>3. DOMAIN inbox' = 1 .. Len(inbox) + 1
  BY <1>2, SeqFacts
<1>4. inbox' # << >>
  BY <1>2
<1> QED BY <1>2, <1>3, <1>4

\* Every create request names a file.
PathsNamed == \A k \in DOMAIN inbox : inbox[k].do = "create" => inbox[k].path \in Paths

LEMMA PathsNamedSent ==
  ASSUME Types, Protocol, NEW c \in Cmds, Send(c), c.do = "create" => c.path \in Paths
  PROVE  PathsNamed'
<1> SUFFICES ASSUME NEW k \in 1 .. Len(inbox) + 1, inbox'[k].do = "create"
             PROVE  inbox'[k].path \in Paths
  BY Sent, Zenon DEF PathsNamed
<1>1. CASE k \in 1 .. Len(inbox)
  BY <1>1, Sent, Zenon DEF Protocol
<1>2. CASE k = Len(inbox) + 1
  BY <1>2, Sent, Zenon
<1>3. Len(inbox) \in Nat
  BY Sent, Zenon
<1> QED BY <1>1, <1>2, <1>3

LEMMA AskCreate ==
  ASSUME IInv, NEW p \in Paths, NEW u \in Users, ask_create(p, u)
  PROVE  Types' /\ Protocol'
<1> DEFINE c == Command("create", p, u, 0)
<1>1. c \in Cmds /\ c.do = "create" /\ c.path = p
  BY Zenon DEF Command, Cmds
<1> HIDE DEF c
<1>2. Types /\ Protocol /\ Send(c) /\ inbox = << >> /\ outbox = << >>
  BY Zenon DEF ask_create, IInv, Protocol, c
<1>3. /\ inbox' \in Seq(Cmds) /\ Len(inbox') = Len(inbox) + 1
      /\ inbox'[Len(inbox) + 1] = c /\ PathsNamed'
  BY <1>1, <1>2, Sent, PathsNamedSent, Zenon
<1>4. Len(inbox) = 0
  BY <1>2
<1>5. Len(inbox') = 1 /\ inbox'[1] = c
  BY <1>3, <1>4
<1>6. n_runs' \in Nat
  BY <1>2 DEF Types, ask_create
<1>7. Types'
  BY <1>2, <1>3, <1>6, Zenon DEF Types, ask_create, process
<1>8. phase' = "create" /\ outbox' = << >>
  BY <1>2, Zenon DEF ask_create
<1>9. Protocol'
  BY <1>1, <1>3, <1>5, <1>8, Zenon DEF Protocol, PathsNamed
<1> QED BY <1>7, <1>9

LEMMA AskRecord ==
  ASSUME IInv, ask_record
  PROVE  Types' /\ Protocol'
<1> DEFINE c == Command("record", "", root_user_id, n_images + 1)
<1>1. n_images + 1 \in Nat
  BY DEF IInv, Types
<1>2. c \in Cmds /\ c.do = "record"
  BY <1>1, WriterAssumption DEF Command, Cmds
<1> HIDE DEF c
<1>3. /\ Types /\ Protocol /\ Send(c) /\ outbox = << >> /\ file # NoFile
      /\ Records(Len(inbox))
  BY Zenon DEF ask_record, IInv, Protocol, c
<1>4. /\ inbox' \in Seq(Cmds) /\ Len(inbox') = Len(inbox) + 1 /\ Len(inbox) \in Nat
      /\ inbox'[Len(inbox) + 1] = c /\ PathsNamed'
      /\ \A k \in 1 .. Len(inbox) : inbox'[k] = inbox[k]
  BY <1>2, <1>3, Sent, PathsNamedSent
<1>5. Records(Len(inbox))'
  BY <1>2, <1>3, <1>4 DEF Records
<1>6. Types'
  BY <1>1, <1>3, <1>4, Zenon DEF Types, ask_record, process
<1>7. phase' = "record" /\ outbox' = << >> /\ file' # NoFile
  BY <1>3, Zenon DEF ask_record, process, NoFile
<1>8. Protocol'
  BY <1>4, <1>5, <1>7 DEF Protocol, PathsNamed
<1> QED BY <1>6, <1>8

LEMMA AskConfirm ==
  ASSUME IInv, ask_confirm
  PROVE  Types' /\ Protocol'
<1> DEFINE c == Command("confirm", "", root_user_id, 0)
<1>1. c \in Cmds /\ c.do = "confirm"
  BY WriterAssumption DEF Command, Cmds
<1> HIDE DEF c
<1>2. /\ Types /\ Protocol /\ Send(c) /\ outbox = << >> /\ file # NoFile
      /\ Records(Len(inbox))
  BY Zenon DEF ask_confirm, IInv, Protocol, c
<1>3. /\ inbox' \in Seq(Cmds) /\ Len(inbox') = Len(inbox) + 1 /\ Len(inbox) \in Nat
      /\ inbox'[Len(inbox) + 1] = c /\ PathsNamed' /\ inbox' # << >>
      /\ \A k \in 1 .. Len(inbox) : inbox'[k] = inbox[k]
  BY <1>1, <1>2, Sent, PathsNamedSent
<1>4. Records(Len(inbox) - 1)'
  BY <1>2, <1>3 DEF Records
<1>5. inbox'[Len(inbox')].do = "confirm"
  BY <1>1, <1>3
<1>6. Types'
  BY <1>2, <1>3, Zenon DEF Types, ask_confirm, process
<1>7. phase' = "confirm" /\ outbox' = << >> /\ file' # NoFile
  BY <1>2, Zenon DEF ask_confirm, process, NoFile
<1>8. Protocol'
  BY <1>3, <1>4, <1>5, <1>7 DEF Protocol, PathsNamed
<1> QED BY <1>6, <1>8

LEMMA TakeAnswer ==
  ASSUME IInv, take_answer
  PROVE  Types' /\ Protocol'
<1> DEFINE c == Command("close", "", root_user_id, 0)
<1>1. c \in Cmds /\ c.do = "close"
  BY WriterAssumption DEF Command, Cmds
<1> HIDE DEF c
<1>2. Types /\ Protocol /\ outbox # << >>
  BY Zenon DEF take_answer, IInv
<1>3. outbox' \in Seq({"SUCCESS", "FAILURE"}) /\ Len(outbox') = Len(outbox) - 1
  BY <1>2, HeadTailFacts, Zenon DEF take_answer, Types
<1>4. ASSUME alive
      PROVE  /\ inbox = << >> /\ outbox \in {<<"SUCCESS">>, <<"FAILURE">>}
             /\ phase = "create" /\ outbox = <<"SUCCESS">> => file # NoFile
  <2>1. <<"SUCCESS">> # <<"FAILURE">>
    OBVIOUS
  <2> QED BY <1>2, <1>4, <2>1, Zenon DEF Protocol, Types
<1>5. ASSUME alive PROVE outbox' = << >>
  <2>1. Len(outbox) = 1
    BY <1>4, <1>5
  <2>2. Len(outbox') = 0
    BY <1>3, <2>1
  <2> QED BY <1>3, <2>2
<1>6. CASE UNCHANGED inbox /\ phase' = "idle"
  <2>1. Types'
    BY <1>2, <1>3, <1>6, Zenon DEF Types, take_answer, process
  <2>2. Protocol'
    BY <1>2, <1>4, <1>5, <1>6 DEF Protocol, take_answer, process
  <2> QED BY <2>1, <2>2
<1>7. CASE phase = "create" /\ Head(outbox) = "SUCCESS" /\ phase' = "record" /\ UNCHANGED inbox
  <2>1. Types'
    BY <1>2, <1>3, <1>7, Zenon DEF Types, take_answer, process
  <2>2. alive => outbox = <<"SUCCESS">>
    BY <1>4, <1>7
  <2>3. alive' = alive /\ file' = file
    BY Zenon DEF take_answer, process
  <2>4. alive => file' # NoFile /\ Records(Len(inbox))' /\ outbox' = << >>
    BY <1>4, <1>5, <1>7, <2>2, <2>3 DEF Records
  <2>5. PathsNamed'
    BY <1>2, <1>7, Zenon DEF Protocol, PathsNamed
  <2>6. Protocol'
    BY <1>7, <2>3, <2>4, <2>5 DEF Protocol, PathsNamed
  <2> QED BY <2>1, <2>6
<1>8. CASE phase = "confirm" /\ phase' = "close" /\ Send(c)
  <2>1. /\ inbox' \in Seq(Cmds) /\ Len(inbox') = Len(inbox) + 1
        /\ inbox'[Len(inbox) + 1] = c /\ PathsNamed'
    BY <1>1, <1>2, <1>8, Sent, PathsNamedSent
  <2>2. Types'
    BY <1>2, <1>3, <1>8, <2>1, Zenon DEF Types, take_answer, process
  <2>3. alive' = alive
    BY Zenon DEF take_answer, process
  <2>4. alive => Len(inbox) = 0
    BY <1>4
  <2>5. alive => Len(inbox') = 1 /\ inbox'[1].do = "close" /\ outbox' = << >>
    BY <1>1, <1>5, <2>1, <2>4
  <2>6. Protocol'
    BY <1>8, <2>1, <2>3, <2>5 DEF Protocol, PathsNamed
  <2> QED BY <2>2, <2>6
<1> QED BY <1>6, <1>7, <1>8, Zenon DEF take_answer, c

LEMMA GiveUp ==
  ASSUME IInv, give_up
  PROVE  Types' /\ Protocol'
<1>1. Types'
  BY Zenon DEF IInv, Types, give_up, process
<1>2. /\ phase' = "idle" /\ inbox' = inbox /\ outbox' = << >> /\ alive' = alive
      /\ alive => inbox = << >>
  BY Zenon DEF give_up, process
<1>3. Protocol'
  BY <1>2 DEF IInv, Protocol
<1> QED BY <1>1, <1>3

-----------------------------------------------------------------------------
(* The commands, as the writer takes them.                                 *)

\* What a command that is taken tells of the run, and what is left to be done.
LEMMA Taken ==
  ASSUME IInv, Take, NEW c, c = Head(inbox)
  PROVE  /\ alive /\ c \in Cmds /\ inbox' \in Seq(Cmds) /\ PathsNamed' /\ outbox = << >>
         /\ c.do = "create" => phase = "create" /\ inbox' = << >> /\ c.path \in Paths
         /\ c.do = "record" =>
              /\ file # NoFile
              /\ \/ phase = "record" /\ Records(Len(inbox))'
                 \/ /\ phase = "confirm" /\ inbox' # << >>
                    /\ inbox'[Len(inbox')].do = "confirm" /\ Records(Len(inbox) - 1)'
         /\ c.do = "confirm" => phase = "confirm" /\ inbox' = << >>
         /\ c.do = "close" => phase = "close" /\ inbox' = << >>
<1> DEFINE n == Len(inbox)
<1>1. Types /\ Protocol /\ alive /\ inbox # << >> /\ inbox' = Tail(inbox)
  BY Zenon DEF IInv, Take
<1>2. inbox \in Seq(Cmds)
  BY <1>1, Zenon DEF Types
<1>3. /\ n \in Nat /\ n > 0 /\ DOMAIN inbox = 1 .. n /\ c = inbox[1] /\ c \in Cmds
      /\ inbox' \in Seq(Cmds) /\ Len(inbox') = n - 1
      /\ \A k \in 1 .. n - 1 : inbox'[k] = inbox[k + 1]
  BY <1>1, <1>2, HeadTailFacts, SeqFacts
<1>4. DOMAIN inbox' = 1 .. n - 1 /\ (n = 1 <=> inbox' = << >>)
  BY <1>3, SeqFacts, LenZero
<1> HIDE DEF n
<1>5. PathsNamed'
  BY <1>1, <1>3, <1>4 DEF Protocol, PathsNamed
<1>6. c.do = "create" => c.path \in Paths
  BY <1>1, <1>3 DEF Protocol
<1>7. phase \in {"create", "record", "confirm", "close"}
  BY <1>1, Zenon DEF Types, Protocol
<1>8. CASE phase = "create"
  <2>1. n = 1 /\ c.do = "create" /\ outbox = << >>
    BY <1>1, <1>3, <1>8, Zenon DEF Protocol, n
  <2> QED BY <1>1, <1>3, <1>4, <1>5, <1>6, <1>8, <2>1, Zenon
<1>9. CASE phase = "record"
  <2>1. outbox = << >> /\ file # NoFile /\ Records(n)
    BY <1>1, <1>9, Zenon DEF Protocol, n
  <2>2. c.do = "record"
    BY <1>3, <2>1 DEF Records
  <2>3. Records(Len(inbox))'
    BY <1>3, <2>1 DEF Records
  <2> QED BY <1>1, <1>3, <1>5, <1>9, <2>1, <2>2, <2>3, Zenon
<1>10. CASE phase = "confirm"
  <2>1. inbox[n].do = "confirm" /\ outbox = << >> /\ file # NoFile /\ Records(n - 1)
    BY <1>1, <1>10, Zenon DEF Protocol, n
  <2>2. CASE n = 1
    BY <1>1, <1>3, <1>4, <1>5, <1>10, <2>1, <2>2, Zenon
  <2>3. CASE n > 1
    <3>1. c.do = "record"
      BY <1>3, <2>1, <2>3 DEF Records
    <3>2. inbox' # << >> /\ inbox'[Len(inbox')].do = "confirm"
      BY <1>3, <1>4, <2>1, <2>3
    <3>3. Records(Len(inbox) - 1)'
      BY <1>3, <2>1, <2>3 DEF Records
    <3> QED BY <1>1, <1>3, <1>5, <1>10, <2>1, <3>1, <3>2, <3>3, Zenon
  <2> QED BY <1>3, <2>2, <2>3
<1>11. CASE phase = "close"
  <2>1. n = 1 /\ c.do = "close" /\ outbox = << >>
    BY <1>1, <1>3, <1>11, Zenon DEF Protocol, n
  <2> QED BY <1>1, <1>3, <1>4, <1>5, <1>11, <2>1, Zenon
<1> QED BY <1>7, <1>8, <1>9, <1>10, <1>11, Zenon

LEMMA Responded ==
  ASSUME NEW code \in {"SUCCESS", "FAILURE"}, outbox = << >>, Respond(code)
  PROVE  outbox' = <<code>> /\ outbox' \in Seq({"SUCCESS", "FAILURE"})
<1>1. Append(<< >>, code) = <<code>>
  OBVIOUS
<1>2. <<code>> \in Seq({"SUCCESS", "FAILURE"})
  OBVIOUS
<1> QED BY <1>1, <1>2, Zenon DEF Respond

\* The driver waits for what the writer answers, and is told of the new file.
LEMMA CreateTaken ==
  ASSUME IInv, Take, NEW c, c = Head(inbox), c.do = "create",
         \/ ~alive'
         \/ outbox' \in {<< >>, <<"FAILURE">>}
         \/ outbox' = <<"SUCCESS">> /\ file' # NoFile
  PROVE  Protocol'
<1>1. inbox' = << >> /\ PathsNamed' /\ phase' = "create"
  BY Taken, Zenon DEF Take
<1> QED BY <1>1 DEF Protocol, PathsNamed

LEMMA RecordTaken ==
  ASSUME IInv, Take, NEW c, c = Head(inbox), c.do = "record",
         file' # NoFile, outbox' = outbox
  PROVE  Protocol'
<1>1. /\ PathsNamed' /\ outbox' = << >> /\ phase' = phase
      /\ \/ phase = "record" /\ Records(Len(inbox))'
         \/ /\ phase = "confirm" /\ inbox' # << >>
            /\ inbox'[Len(inbox')].do = "confirm" /\ Records(Len(inbox) - 1)'
  BY Taken, Zenon DEF Take
<1> QED BY <1>1 DEF Protocol, PathsNamed

LEMMA LastTaken ==
  ASSUME IInv, Take, NEW c, c = Head(inbox), c.do \in {"confirm", "close"},
         outbox' = <<"SUCCESS">>
  PROVE  Protocol'
<1>1. inbox' = << >> /\ PathsNamed' /\ phase' \in {"confirm", "close"}
  BY Taken, Zenon DEF Take
<1> QED BY <1>1 DEF Protocol, PathsNamed

-----------------------------------------------------------------------------
(* The commands, as they change the files.                                 *)

\* What is said of a file depends on the process only by its configuration.
LEMMA ConfigKept ==
  ASSUME config' = config, NEW p
  PROVE  /\ Intact(disk[p])' <=> Intact(disk'[p])
         /\ Trimmed(disk[p])' <=> Trimmed(disk'[p])
         /\ Torn(disk[p])' <=> Torn(disk'[p])
         /\ Empty(disk[p])' <=> Empty(disk'[p])
         /\ Data' <=> Data
         /\ images_per_chunk' = images_per_chunk /\ records_per_chunk' = records_per_chunk
BY Zenon DEF Intact, Trimmed, Torn, Empty, Fits, Data, images_per_chunk, records_per_chunk

LEMMA FileTypes ==
  ASSUME Types, Contents
  PROVE  /\ file.path \in Paths \cup {"none"} /\ file.index \in Nat \cup {-1}
         /\ file = [path |-> file.path, index |-> file.index]
         /\ file # NoFile => file.path \in Paths /\ file.path \in held
         /\ file = NoFile => file.path = "none"
         /\ \A p \in Paths : p # "none" /\ disk[p] \in HFiles
<1>1. /\ file.path \in Paths \cup {"none"} /\ file.index \in Nat \cup {-1}
      /\ file = [path |-> file.path, index |-> file.index]
  BY DEF Types
<1>2. file # NoFile => file.path \in Paths /\ file.path \in held
  BY Zenon DEF Types, Contents
<1>3. \A p \in Paths : p # "none" /\ disk[p] \in HFiles
  BY WriterAssumption, Zenon DEF Types
<1>4. file = NoFile => file.path = "none"
  BY DEF NoFile
<1> QED BY <1>1, <1>2, <1>3, <1>4, Zenon

\* The end of the file in use, on a disk that may have a new file already.
LEMMA ResetEffect ==
  ASSUME Types, Contents, alive, NEW d \in [Paths -> HFiles],
         file # NoFile => d[file.path] = disk[file.path]
  PROVE  LET r == reset(d)
         IN  /\ r \in [Paths -> HFiles]
             /\ \A p \in Paths : p # file.path => r[p] = d[p]
             /\ file # NoFile =>
                  LET g == r[file.path]
                  IN  g.state = "closed" /\ Intact(g) /\ Trimmed(g)
<1> DEFINE r == reset(d)
<1>1. CASE file = NoFile
  <2>1. r = d
    BY <1>1, Zenon DEF reset
  <2> QED BY <1>1, <2>1, Zenon
<1>2. CASE file # NoFile
  <2> DEFINE f == disk[file.path]
             g == IF Data
                  THEN [f EXCEPT !.state = "closed",
                                 !.meta_extent = Cut(@, file, file.index + 1),
                                 !.image_extent = Cut(@, file, file.index + 1)]
                  ELSE [f EXCEPT !.state = "closed",
                                 !.meta_extent = Cut(@, file, file.index + 1)]
  <2>1. file.path \in Paths /\ f \in HFiles /\ InUse(f) /\ d[file.path] = f
    BY <1>2, FileTypes, Zenon DEF Contents
  <2>2. g \in HFiles /\ g.state = "closed" /\ Intact(g) /\ Trimmed(g)
    BY <2>1, FileDestroyed, Zenon
  <2>3. r = [d EXCEPT ![file.path] = g]
    BY <1>2, <2>1, Zenon DEF reset, destroy, meta_destroy, Data
  <2> HIDE DEF g, f, r
  <2>4. r \in [Paths -> HFiles] /\ r[file.path] = g
    BY <2>1, <2>2, <2>3, Zenon
  <2>5. \A p \in Paths : p # file.path => r[p] = d[p]
    BY <2>1, <2>3, Zenon
  <2> QED BY <2>2, <2>4, <2>5, Zenon DEF r
<1> QED BY <1>1, <1>2

LEMMA CreateEffect ==
  ASSUME Types, NEW p \in Paths, NEW asked \in Users, NEW as \in Users
  PROVE  LET d == create_file(p, asked, as)
         IN  /\ d \in [Paths -> HFiles]
             /\ \A q \in Paths : q # p => d[q] = disk[q]
             /\ d[p].state = "open" /\ d[p].asked = asked /\ d[p].by = as /\ Empty(d[p])
<1> DEFINE f == [NoData EXCEPT !.state = "open", !.asked = asked, !.by = as]
           d == create_file(p, asked, as)
<1>1. f \in HFiles /\ Empty(f) /\ f.state = "open" /\ f.asked = asked /\ f.by = as
  BY NewFile, Zenon
<1>2. d = [disk EXCEPT ![p] = f] /\ disk \in [Paths -> HFiles]
  BY Zenon DEF create_file, Types
<1> HIDE DEF f, d
<1>3. d \in [Paths -> HFiles] /\ d[p] = f /\ \A q \in Paths : q # p => d[q] = disk[q]
  BY <1>1, <1>2, Zenon
<1> QED BY <1>1, <1>3, Zenon DEF d

\* A step that leaves the files alone, and may only end the process.
LEMMA FilesUnchanged ==
  ASSUME IInv, UNCHANGED <<config, disk, held, file>>, alive' => alive
  PROVE  Contents' /\ WrittenAsUser'
<1>1. Torn(disk[file.path])' <=> Torn(disk[file.path])
  BY Zenon DEF Torn, Fits, Data
<1>2. InUse(disk[file.path])' <=> InUse(disk[file.path])
  BY Zenon DEF InUse, Intact, Empty, Fits, Data, images_per_chunk, records_per_chunk
<1>3. \A p \in Paths :
        /\ disk'[p] = disk[p]
        /\ Intact(disk[p])' <=> Intact(disk[p])
        /\ Trimmed(disk[p])' <=> Trimmed(disk[p])
        /\ Empty(disk[p])' <=> Empty(disk[p])
  BY Zenon DEF Intact, Trimmed, Empty, Fits, Data
<1>4. Contents'
  BY <1>1, <1>2, <1>3, Zenon DEF IInv, Contents, NoFile
<1>5. WrittenAsUser'
  BY Zenon DEF IInv, WrittenAsUser
<1> QED BY <1>4, <1>5

\* The new file is empty and belongs to the user, the file before it is closed.
LEMMA FileCreated ==
  ASSUME IInv, alive, config' = config, NEW c \in Cmds, c.path \in Paths,
         Data => create_datasets, ~Data => meta_create_datasets,
         user' \in Users,
         config.switch_user_active /\ c.user # root_user_id => user' = c.user,
         file_created(c)
  PROVE  /\ disk' \in [Paths -> HFiles] /\ held' \subseteq Paths
         /\ file' \in [path : Paths \cup {"none"}, index : Nat \cup {-1}]
         /\ file' # NoFile
         /\ Contents' /\ WrittenAsUser'
<1> DEFINE q == c.path
           d == create_file(c.path, c.user, user')
<1>1. /\ Types /\ Contents /\ WrittenAsUser /\ q \in Paths /\ c.user \in Users
      /\ q \notin held /\ disk' = reset(d) /\ held' = (held \ {file.path}) \cup {q}
      /\ file' = [path |-> q, index |-> -1]
  BY Zenon DEF IInv, Cmds, file_created
<1>2. /\ d \in [Paths -> HFiles]
      /\ \A p \in Paths : p # q => d[p] = disk[p]
      /\ d[q].state = "open" /\ d[q].asked = c.user /\ d[q].by = user' /\ Empty(d[q])
  BY <1>1, CreateEffect, Zenon
<1>3. /\ file # NoFile => file.path \in Paths /\ file.path \in held
      /\ file = NoFile => file.path = "none"
      /\ \A p \in Paths : p # "none" /\ disk[p] \in HFiles
      /\ held \subseteq Paths
  BY <1>1, FileTypes, Zenon DEF Types
<1>4. file.path # q
  BY <1>1, <1>3, Zenon
<1> HIDE DEF d
<1>5. file # NoFile => d[file.path] = disk[file.path]
  BY <1>2, <1>3, <1>4, Zenon
<1>6. /\ disk' \in [Paths -> HFiles]
      /\ \A p \in Paths : p # file.path => disk'[p] = d[p]
      /\ file # NoFile => disk'[file.path].state = "closed" /\ Intact(disk'[file.path])
                          /\ Trimmed(disk'[file.path])
  BY <1>1, <1>2, <1>5, ResetEffect, Zenon
<1>7. /\ disk'[q].state = "open" /\ disk'[q].asked = c.user /\ disk'[q].by = user'
      /\ Empty(disk'[q]) /\ disk'[q] \in HFiles
      /\ \A p \in Paths : p # file.path /\ p # q => disk'[p] = disk[p]
  BY <1>1, <1>2, <1>4, <1>6, Zenon
<1>8. /\ file'.path = q /\ file'.index = -1 /\ file' # NoFile
      /\ file' \in [path : Paths \cup {"none"}, index : Nat \cup {-1}]
  BY <1>1, <1>3 DEF NoFile
<1>9. held' \subseteq Paths
  BY <1>1, <1>3
<1>10. \A p \in Paths : disk'[p].state = "open" <=> p \in held'
  <2> SUFFICES ASSUME NEW p \in Paths PROVE disk'[p].state = "open" <=> p \in held'
    OBVIOUS
  <2>1. CASE p = q
    BY <1>1, <1>7, <2>1, Zenon
  <2>2. CASE p = file.path
    <3>1. file # NoFile
      BY <1>3, <2>2, Zenon
    <3>2. disk'[p].state = "closed"
      BY <1>6, <2>2, <3>1, Zenon
    <3>3. p \notin held'
      BY <1>1, <1>4, <2>2, Zenon
    <3> QED BY <3>2, <3>3
  <2>3. CASE p # q /\ p # file.path
    <3>1. p \in held' <=> p \in held
      BY <1>1, <2>3, Zenon
    <3>2. disk'[p] = disk[p]
      BY <1>7, <2>3, Zenon
    <3> QED BY <1>1, <3>1, <3>2, Zenon DEF Contents
  <2> QED BY <2>1, <2>2, <2>3, Zenon
<1>11. /\ Intact(disk'[q]) /\ Torn(disk'[q]) /\ disk'[q].wanted = << >>
  <2>1. Intact(disk'[q])
    BY <1>7, EmptyIsIntact, Zenon
  <2>2. Torn(disk'[q])
    BY <1>7, <2>1, IntactIsNotTorn, Zenon
  <2> QED BY <1>7, <2>1, <2>2, Zenon DEF Empty
<1>12. InUse(disk[q])'
  <2>1. records_per_chunk > 0 /\ (Data => images_per_chunk > 0)
    BY <1>1, ChunkTypes, Zenon
  <2>2. Len(disk'[q].wanted) = file'.index + 1
    BY <1>8, <1>11
  <2> QED BY <1>7, <1>8, <1>11, <2>1, <2>2, ConfigKept, Zenon DEF InUse
<1>13. \A p \in Paths : p # q =>
         IF disk'[p].state = "closed" THEN Intact(disk'[p]) /\ Trimmed(disk'[p])
         ELSE Empty(disk'[p])
  <2> SUFFICES ASSUME NEW p \in Paths, p # q
               PROVE  IF disk'[p].state = "closed" THEN Intact(disk'[p]) /\ Trimmed(disk'[p])
                      ELSE Empty(disk'[p])
    BY Zenon
  <2>1. CASE p = file.path
    BY <1>3, <1>6, <2>1, Zenon
  <2>2. CASE p # file.path
    BY <1>1, <1>7, <2>2, Zenon DEF Contents
  <2> QED BY <2>1, <2>2
<1>14. InUse(disk[file.path])' /\ Torn(disk[file.path])'
  BY <1>8, <1>11, <1>12, ConfigKept, Zenon DEF InUse
<1>15. Contents'
  BY <1>1, <1>8, <1>10, <1>13, <1>14, ConfigKept, Zenon DEF Contents
<1>16. WrittenAsUser'
  BY <1>1, <1>3, <1>7, Zenon DEF WrittenAsUser
<1> QED BY <1>6, <1>8, <1>9, <1>15, <1>16

\* The file before it stays in use; the new one, when there is one, is lost.
LEMMA FileNotCreated ==
  ASSUME IInv, config' = config, NEW c \in Cmds, c.path \in Paths,
         user' \in Users, alive' => alive,
         config.switch_user_active /\ c.user # root_user_id => user' = c.user,
         file_not_created(c)
  PROVE  /\ disk' \in [Paths -> HFiles] /\ held' \subseteq Paths
         /\ Contents' /\ WrittenAsUser'
<1>1. CASE UNCHANGED <<disk, held>>
  <2>1. UNCHANGED <<config, disk, held, file>>
    BY <1>1, Zenon DEF file_not_created
  <2>2. Contents' /\ WrittenAsUser'
    BY <2>1, FilesUnchanged, Zenon
  <2> QED BY <1>1, <2>2, Zenon DEF IInv, Types
<1>2. CASE /\ c.path \notin held
           /\ disk' = create_file(c.path, c.user, user')
           /\ held' = held \cup {c.path}
  <2> DEFINE q == c.path
  <2>1. /\ Types /\ Contents /\ WrittenAsUser /\ q \in Paths /\ c.user \in Users
        /\ q \notin held /\ held' = held \cup {q} /\ file' = file
    BY <1>2, Zenon DEF IInv, Cmds, file_not_created
  <2>2. /\ disk' \in [Paths -> HFiles]
        /\ \A p \in Paths : p # q => disk'[p] = disk[p]
        /\ disk'[q].state = "open" /\ disk'[q].asked = c.user /\ disk'[q].by = user'
        /\ Empty(disk'[q])
    <3> DEFINE d == create_file(c.path, c.user, user')
    <3>1. /\ d \in [Paths -> HFiles]
          /\ \A p \in Paths : p # q => d[p] = disk[p]
          /\ d[q].state = "open" /\ d[q].asked = c.user /\ d[q].by = user' /\ Empty(d[q])
      BY <2>1, CreateEffect, Zenon
    <3>2. disk' = d
      BY <1>2, Zenon
    <3> HIDE DEF d
    <3> QED BY <3>1, <3>2, Zenon
  <2>3. /\ file # NoFile => file.path \in Paths /\ file.path \in held
        /\ held \subseteq Paths /\ file.path # q
    BY <2>1, FileTypes, Zenon DEF Types
  <2>4. held' \subseteq Paths
    BY <2>1, <2>3
  <2>5. \A p \in Paths : disk'[p].state = "open" <=> p \in held'
    BY <2>1, <2>2, Zenon DEF Contents
  <2>6. \A p \in Paths : p # file.path =>
          IF disk'[p].state = "closed" THEN Intact(disk'[p]) /\ Trimmed(disk'[p])
          ELSE Empty(disk'[p])
    <3> SUFFICES ASSUME NEW p \in Paths, p # file.path
                 PROVE  IF disk'[p].state = "closed" THEN Intact(disk'[p]) /\ Trimmed(disk'[p])
                        ELSE Empty(disk'[p])
      BY Zenon
    <3>1. CASE p = q
      BY <2>2, <3>1
    <3>2. CASE p # q
      BY <2>1, <2>2, <3>2, Zenon DEF Contents
    <3> QED BY <3>1, <3>2
  <2>7. file # NoFile => disk'[file.path] = disk[file.path]
    BY <2>2, <2>3, Zenon
  <2>8. file' # NoFile => Torn(disk[file.path])' /\ (alive' => InUse(disk[file.path])')
    <3> SUFFICES ASSUME file # NoFile
                 PROVE  Torn(disk[file.path])' /\ (alive' => InUse(disk[file.path])')
      BY <2>1, Zenon DEF NoFile
    <3>1. disk'[file'.path] = disk[file.path] /\ file' = file
      BY <2>1, <2>7, Zenon
    <3>2. Torn(disk[file.path]) /\ (alive => InUse(disk[file.path]))
      BY <2>1, Zenon DEF Contents
    <3>3. Torn(disk[file.path])'
      BY <3>1, <3>2, Zenon DEF Torn, Fits, Data
    <3>4. InUse(disk[file.path]) => InUse(disk[file.path])'
      BY <3>1, Zenon DEF InUse, Intact, Empty, Fits, Data, images_per_chunk, records_per_chunk
    <3> QED BY <3>2, <3>3, <3>4, Zenon
  <2>9. Contents'
    BY <2>1, <2>3, <2>5, <2>6, <2>8, ConfigKept, Zenon DEF Contents, NoFile
  <2>10. WrittenAsUser'
    BY <2>1, <2>2, <2>3, Zenon DEF WrittenAsUser
  <2> QED BY <2>2, <2>4, <2>9, <2>10
<1> QED BY <1>1, <1>2, Zenon DEF file_not_created

\* A file that was written has one image more, or the process has ended.
LEMMA FileWritten ==
  ASSUME IInv, alive, config' = config, file # NoFile,
         file' = [file EXCEPT !.index = @ + 1],
         NEW g \in HFiles, Kept(disk[file.path], g),
         disk' = [disk EXCEPT ![file.path] = g],
         UNCHANGED held,
         \/ alive' = alive /\ Whole(g, file.index + 2)
         \/ ~alive' /\ Torn(g)
  PROVE  /\ disk' \in [Paths -> HFiles]
         /\ file' \in [path : Paths \cup {"none"}, index : Nat \cup {-1}]
         /\ file' # NoFile
         /\ Contents' /\ WrittenAsUser'
<1> DEFINE q == file.path
<1>1. /\ Types /\ Contents /\ WrittenAsUser /\ q \in Paths /\ q \in held
      /\ file.index \in Nat \cup {-1}
      /\ disk \in [Paths -> HFiles] /\ held \subseteq Paths
      /\ \A p \in Paths : p # "none"
  BY FileTypes, Zenon DEF IInv, Types
<1>2. /\ disk' \in [Paths -> HFiles] /\ disk'[q] = g
      /\ \A p \in Paths : p # q => disk'[p] = disk[p]
  BY <1>1, Zenon
<1>3. /\ file'.path = q /\ file'.index = file.index + 1 /\ file'.index \in Nat
      /\ file' \in [path : Paths \cup {"none"}, index : Nat \cup {-1}]
  BY <1>1 DEF Types
<1>4. file' # NoFile
  BY <1>1, <1>3 DEF NoFile
<1>5. disk'[q].state = disk[q].state /\ disk'[q].asked = disk[q].asked /\ disk'[q].by = disk[q].by
  BY <1>2, Zenon DEF Kept
<1>6. \A p \in Paths : disk'[p].state = disk[p].state /\ disk'[p].asked = disk[p].asked
                       /\ disk'[p].by = disk[p].by
  BY <1>2, <1>5, Zenon
<1>7. \A p \in Paths : disk'[p].state = "open" <=> p \in held'
  BY <1>1, <1>6, Zenon DEF Contents
<1>8. Torn(g)
  BY IntactIsNotTorn, Zenon DEF Whole
<1>9. ASSUME alive' PROVE InUse(disk[file.path])'
  <2>1. Whole(g, file.index + 2)
    BY <1>9, Zenon
  <2>2. Intact(disk[file.path])'
    BY <1>2, <1>3, <2>1, ConfigKept, Zenon DEF Whole
  <2>3. Len(disk'[file'.path].wanted) = file'.index + 1
    BY <1>1, <1>2, <1>3, <2>1 DEF Whole
  <2>4. file'.index # -1
    BY <1>3
  <2>5. records_per_chunk > 0 /\ (Data => images_per_chunk > 0)
    BY <1>1, Zenon DEF Contents, InUse
  <2>6. records_per_chunk' > 0 /\ (Data' => images_per_chunk' > 0)
    BY <2>5, ConfigKept, Zenon
  <2> QED BY <2>2, <2>3, <2>4, <2>6, Zenon DEF InUse
<1>10. Torn(disk[file.path])'
  BY <1>2, <1>3, <1>8, ConfigKept, Zenon
<1>11. \A p \in Paths : p # q =>
         IF disk'[p].state = "closed" THEN Intact(disk'[p]) /\ Trimmed(disk'[p])
         ELSE Empty(disk'[p])
  BY <1>1, <1>2, Zenon DEF Contents
<1>12. Contents'
  BY <1>1, <1>3, <1>7, <1>9, <1>10, <1>11, ConfigKept, Zenon DEF Contents
<1>13. WrittenAsUser'
  BY <1>1, <1>6, ZenonT(40) DEF WrittenAsUser
<1> QED BY <1>2, <1>3, <1>4, <1>12, <1>13

\* The file in use is closed.
LEMMA FileClosed ==
  ASSUME IInv, alive, config' = config, disk' = reset(disk),
         held' = held \ {file.path}, file' = NoFile
  PROVE  /\ disk' \in [Paths -> HFiles] /\ held' \subseteq Paths
         /\ file' \in [path : Paths \cup {"none"}, index : Nat \cup {-1}]
         /\ Contents' /\ WrittenAsUser'
<1> DEFINE q == file.path
<1>1. /\ Types /\ Contents /\ WrittenAsUser /\ disk \in [Paths -> HFiles] /\ held \subseteq Paths
      /\ file # NoFile => q \in Paths
      /\ file = NoFile => q = "none"
      /\ \A p \in Paths : p # "none"
  BY FileTypes, Zenon DEF IInv, Types
<1>2. /\ disk' \in [Paths -> HFiles]
      /\ \A p \in Paths : p # q => disk'[p] = disk[p]
      /\ file # NoFile =>
           disk'[q].state = "closed" /\ Intact(disk'[q]) /\ Trimmed(disk'[q])
  BY <1>1, ResetEffect, Zenon
<1>3. file' \in [path : Paths \cup {"none"}, index : Nat \cup {-1}] /\ held' \subseteq Paths
  BY <1>1 DEF NoFile
<1>4. \A p \in Paths : disk'[p].state = "open" <=> p \in held'
  <2> SUFFICES ASSUME NEW p \in Paths PROVE disk'[p].state = "open" <=> p \in held'
    OBVIOUS
  <2>1. CASE p = q
    <3>1. file # NoFile
      BY <1>1, <2>1, Zenon
    <3>2. disk'[p].state = "closed" /\ p \notin held'
      BY <1>2, <2>1, <3>1, Zenon
    <3> QED BY <3>2
  <2>2. CASE p # q
    BY <1>1, <1>2, <2>2, Zenon DEF Contents
  <2> QED BY <2>1, <2>2
<1>5. \A p \in Paths :
         IF disk'[p].state = "closed" THEN Intact(disk'[p]) /\ Trimmed(disk'[p])
         ELSE Empty(disk'[p])
  <2> SUFFICES ASSUME NEW p \in Paths
               PROVE  IF disk'[p].state = "closed" THEN Intact(disk'[p]) /\ Trimmed(disk'[p])
                      ELSE Empty(disk'[p])
    BY Zenon
  <2>1. CASE p = q
    BY <1>1, <1>2, <2>1, Zenon
  <2>2. CASE p # q
    BY <1>1, <1>2, <2>2, Zenon DEF Contents
  <2> QED BY <2>1, <2>2
<1>6. Contents'
  BY <1>4, <1>5, ConfigKept, Zenon DEF Contents, NoFile
<1>7. WrittenAsUser'
  BY <1>1, <1>2, Zenon DEF WrittenAsUser
<1> QED BY <1>2, <1>3, <1>6, <1>7

-----------------------------------------------------------------------------
(* The steps of the writer.                                                *)

LEMMA TypesTaken ==
  ASSUME IInv, Take, disk' \in [Paths -> HFiles], held' \subseteq Paths,
         file' \in [path : Paths \cup {"none"}, index : Nat \cup {-1}],
         user' \in Users, alive' \in BOOLEAN, outbox' \in Seq({"SUCCESS", "FAILURE"})
  PROVE  Types'
<1>1. inbox' \in Seq(Cmds)
  BY Taken, Zenon
<1> QED BY <1>1, Zenon DEF IInv, Types, Take

\* Whoever could be switched to is the user the file is created as.
LEMMA UserSwitched ==
  ASSUME Types, NEW u \in Users, switch_writer_user(u) \/ meta_switch_writer_user(u)
  PROVE  /\ user' \in Users
         /\ config.switch_user_active /\ u # root_user_id => user' = u
BY Zenon DEF Types, switch_writer_user, meta_switch_writer_user, switch_user, meta_switch_user

LEMMA Created ==
  ASSUME IInv, Take, NEW c, c = Head(inbox), c.do = "create",
         switch_writer_user(c.user) \/ meta_switch_writer_user(c.user),
         Data => create_datasets, ~Data => meta_create_datasets, file_created(c)
  PROVE  IInv'
<1>1. /\ c \in Cmds /\ c.path \in Paths /\ alive /\ outbox = << >> /\ config' = config
      /\ Types
  BY Taken, Zenon DEF IInv, Take
<1>2. c.user \in Users
  BY <1>1, Zenon DEF Cmds
<1>3. /\ user' \in Users
      /\ config.switch_user_active /\ c.user # root_user_id => user' = c.user
  BY <1>1, <1>2, UserSwitched, Zenon
<1>4. /\ disk' \in [Paths -> HFiles] /\ held' \subseteq Paths
      /\ file' \in [path : Paths \cup {"none"}, index : Nat \cup {-1}]
      /\ file' # NoFile
      /\ Contents' /\ WrittenAsUser'
  BY <1>1, <1>3, FileCreated, Zenon
<1>5. /\ outbox' = <<"SUCCESS">> /\ outbox' \in Seq({"SUCCESS", "FAILURE"})
      /\ alive' \in BOOLEAN
  BY <1>1, Responded, Zenon DEF file_created, Types
<1>6. Types'
  BY <1>3, <1>4, <1>5, TypesTaken, Zenon
<1>7. Protocol'
  BY <1>4, <1>5, CreateTaken, Zenon
<1> QED BY <1>4, <1>6, <1>7, Zenon DEF IInv

LEMMA NotCreated ==
  ASSUME IInv, Take, NEW c, c = Head(inbox), c.do = "create",
         switch_writer_user(c.user) \/ meta_switch_writer_user(c.user),
         file_not_created(c),
         \/ Respond("FAILURE") /\ UNCHANGED alive
         \/ alive' = FALSE /\ UNCHANGED outbox
  PROVE  IInv'
<1>1. /\ c \in Cmds /\ c.path \in Paths /\ alive /\ outbox = << >> /\ config' = config
      /\ Types
  BY Taken, Zenon DEF IInv, Take
<1>2. c.user \in Users
  BY <1>1, Zenon DEF Cmds
<1>3. /\ user' \in Users
      /\ config.switch_user_active /\ c.user # root_user_id => user' = c.user
  BY <1>1, <1>2, UserSwitched, Zenon
<1>4. /\ disk' \in [Paths -> HFiles] /\ held' \subseteq Paths
      /\ Contents' /\ WrittenAsUser'
  BY <1>1, <1>3, FileNotCreated, Zenon
<1>5. file' \in [path : Paths \cup {"none"}, index : Nat \cup {-1}]
  BY <1>1, Zenon DEF file_not_created, Types
<1>6. /\ outbox' = <<"FAILURE">> \/ ~alive'
      /\ outbox' \in Seq({"SUCCESS", "FAILURE"})
      /\ alive' \in BOOLEAN
  BY <1>1, Responded, Zenon DEF Types
<1>7. Types'
  BY <1>3, <1>4, <1>5, <1>6, TypesTaken, Zenon
<1>8. Protocol'
  BY <1>6, CreateTaken, Zenon
<1> QED BY <1>4, <1>7, <1>8, Zenon DEF IInv

LEMMA NotSwitched ==
  ASSUME IInv, Take, NEW c, c = Head(inbox), c.do = "create", user_not_switched(c)
  PROVE  IInv'
<1>1. outbox = << >> /\ Types /\ UNCHANGED <<config, disk, held, file, user, alive, outbox>>
  BY Taken, Zenon DEF IInv, Take, user_not_switched
<1>2. Contents' /\ WrittenAsUser'
  BY <1>1, FilesUnchanged, Zenon
<1>3. Types'
  BY <1>1, TypesTaken, Zenon DEF Types
<1>4. Protocol'
  BY <1>1, CreateTaken, Zenon
<1> QED BY <1>2, <1>3, <1>4, Zenon DEF IInv

\* Writing an image: either all calls succeed or the process ends.
LEMMA Recorded ==
  ASSUME IInv, Take, NEW c, c = Head(inbox), c.do = "record",
         \/ Data /\ write(c)
         \/ ~Data /\ meta_write(c)
  PROVE  IInv'
<1> DEFINE f == disk[file.path]
           i == file.index + 1
           a == Wanting(f, c.image)
           m == write_meta(a, i, c.image)
<1>1. /\ c \in Cmds /\ alive /\ config' = config /\ Types /\ Contents /\ file # NoFile
      /\ outbox = << >>
  BY Taken, Zenon DEF IInv, Take
<1>2. c.image \in Nat /\ f \in HFiles /\ InUse(f) /\ file.index \in Nat \cup {-1}
  BY <1>1, FileTypes, Zenon DEF Contents, Cmds
<1>3. /\ i \in Nat /\ Whole(f, i) /\ i + 1 = file.index + 2
      /\ records_per_chunk > 0 /\ (Data => images_per_chunk > 0)
  BY <1>2 DEF InUse, Whole
<1>4. Asked(c.image) = a
  BY Zenon DEF Asked, Wanting
<1> HIDE DEF f, i
<1>5. /\ file' = [file EXCEPT !.index = @ + 1] /\ UNCHANGED <<held, user, outbox>>
      /\ \E g \in HFiles :
           /\ Kept(f, g) /\ disk' = [disk EXCEPT ![file.path] = g]
           /\ \/ alive' = alive /\ Whole(g, file.index + 2)
              \/ ~alive' /\ Torn(g)
      /\ alive' \in BOOLEAN
  <2>1. CASE Data /\ write(c)
    <3> DEFINE T == {a, Extended(a, i), m, Enlarged(m, i)}
               h == write_image(m, i, c.image)
    <3>1. /\ \A g \in T : g \in HFiles /\ Torn(g) /\ Kept(f, g)
          /\ h \in HFiles /\ Whole(h, i + 1) /\ Kept(f, h)
      BY <1>1, <1>2, <1>3, <2>1, DataWritten, Zenon
    <3>2. Written(h, T)
      BY <1>4, <2>1, Zenon DEF write, i
    <3> HIDE DEF T, h, a, m
    <3>3. /\ file' = [file EXCEPT !.index = @ + 1] /\ UNCHANGED <<held, user, outbox>>
          /\ \/ disk' = [disk EXCEPT ![file.path] = h] /\ alive' = alive
             \/ \E g \in T : disk' = [disk EXCEPT ![file.path] = g] /\ alive' = FALSE
      BY <3>2, Zenon DEF Written
    <3>4. Whole(h, file.index + 2)
      BY <1>3, <3>1, Zenon
    <3> QED BY <1>1, <3>1, <3>3, <3>4, Zenon
  <2>2. CASE ~Data /\ meta_write(c)
    <3> DEFINE T == {a, Extended(a, i)}
    <3>1. /\ \A g \in T : g \in HFiles /\ Torn(g) /\ Kept(f, g)
          /\ m \in HFiles /\ Whole(m, i + 1) /\ Kept(f, m)
      BY <1>1, <1>2, <1>3, <2>2, MetaWritten, Zenon
    <3>2. Written(m, T)
      BY <1>4, <2>2, Zenon DEF meta_write, i
    <3> HIDE DEF T, a, m
    <3>3. /\ file' = [file EXCEPT !.index = @ + 1] /\ UNCHANGED <<held, user, outbox>>
          /\ \/ disk' = [disk EXCEPT ![file.path] = m] /\ alive' = alive
             \/ \E g \in T : disk' = [disk EXCEPT ![file.path] = g] /\ alive' = FALSE
      BY <3>2, Zenon DEF Written
    <3>4. Whole(m, file.index + 2)
      BY <1>3, <3>1, Zenon
    <3> QED BY <1>1, <3>1, <3>3, <3>4, Zenon
  <2> QED BY <2>1, <2>2, Zenon
<1>6. /\ disk' \in [Paths -> HFiles]
      /\ file' \in [path : Paths \cup {"none"}, index : Nat \cup {-1}]
      /\ file' # NoFile
      /\ Contents' /\ WrittenAsUser'
  <2>1. PICK g \in HFiles :
           /\ Kept(f, g) /\ disk' = [disk EXCEPT ![file.path] = g]
           /\ \/ alive' = alive /\ Whole(g, file.index + 2)
              \/ ~alive' /\ Torn(g)
    BY <1>5, Zenon
  <2> QED BY <1>1, <1>5, <2>1, FileWritten, Zenon DEF f
<1>7. Types'
  BY <1>1, <1>5, <1>6, TypesTaken, Zenon DEF Types
<1>8. Protocol'
  BY <1>5, <1>6, RecordTaken, Zenon
<1> QED BY <1>6, <1>7, <1>8, Zenon DEF IInv

LEMMA Closed ==
  ASSUME IInv, Take, NEW c, c = Head(inbox), c.do = "close", close \/ meta_close
  PROVE  IInv'
<1>1. /\ alive /\ config' = config /\ Types /\ outbox = << >>
      /\ disk' = reset(disk) /\ held' = held \ {file.path} /\ file' = NoFile
      /\ Respond("SUCCESS") /\ alive' = alive
  BY Taken, Zenon DEF IInv, Take, close, meta_close
<1>2. user' \in Users
  BY <1>1, WriterAssumption, Zenon DEF close, meta_close, meta_switch_user, Types
<1>3. /\ disk' \in [Paths -> HFiles] /\ held' \subseteq Paths
      /\ file' \in [path : Paths \cup {"none"}, index : Nat \cup {-1}]
      /\ Contents' /\ WrittenAsUser'
  BY <1>1, FileClosed, Zenon
<1>4. /\ outbox' = <<"SUCCESS">> /\ outbox' \in Seq({"SUCCESS", "FAILURE"})
      /\ alive' \in BOOLEAN
  BY <1>1, Responded, Zenon DEF Types
<1>5. Types'
  BY <1>2, <1>3, <1>4, TypesTaken, Zenon
<1>6. Protocol'
  BY <1>4, LastTaken, Zenon
<1> QED BY <1>3, <1>5, <1>6, Zenon DEF IInv

LEMMA Confirmed ==
  ASSUME IInv, Take, NEW c, c = Head(inbox), c.do = "confirm", confirm
  PROVE  IInv'
<1>1. /\ config' = config /\ Types /\ outbox = << >>
      /\ UNCHANGED <<disk, held, file, user, alive>> /\ Respond("SUCCESS")
  BY Taken, Zenon DEF IInv, Take, confirm
<1>2. Contents' /\ WrittenAsUser'
  BY <1>1, FilesUnchanged, Zenon
<1>3. outbox' = <<"SUCCESS">> /\ outbox' \in Seq({"SUCCESS", "FAILURE"})
  BY <1>1, Responded, Zenon
<1>4. Types'
  BY <1>1, <1>3, TypesTaken, Zenon DEF Types
<1>5. Protocol'
  BY <1>3, LastTaken, Zenon
<1> QED BY <1>2, <1>4, <1>5, Zenon DEF IInv

-----------------------------------------------------------------------------
(* The invariant and what follows from it.                                 *)

LEMMA InvInit == Init => IInv
<1> SUFFICES ASSUME Init PROVE IInv
  OBVIOUS
<1>1. Types
  BY NoDataType, WriterAssumption DEF Init, Types, NoFile
<1>2. Protocol
  BY DEF Init, Protocol
<1>3. \A p \in Paths : disk[p] = NoData
  BY Zenon DEF Init
<1>4. NoData.state = "absent" /\ Empty(NoData)
  BY DEF NoData, Empty
<1>5. Contents
  BY <1>3, <1>4 DEF Init, Contents
<1>6. WrittenAsUser
  BY Zenon DEF Init, WrittenAsUser
<1> QED BY <1>1, <1>2, <1>5, <1>6, Zenon DEF IInv

LEMMA InvNext == IInv /\ [Next]_vars => IInv'
<1> SUFFICES ASSUME IInv, [Next]_vars PROVE IInv'
  OBVIOUS
<1>1. ASSUME Types' /\ Protocol', UNCHANGED process PROVE IInv'
  <2>1. Contents' /\ WrittenAsUser'
    BY <1>1, FilesUnchanged, Zenon DEF process
  <2> QED BY <1>1, <2>1, Zenon DEF IInv
<1>2. CASE \E p \in Paths, u \in Users : ask_create(p, u)
  BY <1>1, <1>2, AskCreate, Zenon DEF ask_create
<1>3. CASE ask_record
  BY <1>1, <1>3, AskRecord, Zenon DEF ask_record
<1>4. CASE ask_confirm
  BY <1>1, <1>4, AskConfirm, Zenon DEF ask_confirm
<1>5. CASE take_answer
  BY <1>1, <1>5, TakeAnswer, Zenon DEF take_answer
<1>6. CASE give_up
  BY <1>1, <1>6, GiveUp, Zenon DEF give_up
<1>7. CASE receive
  <2> DEFINE c == Head(inbox)
  <2>1. Take /\ Data
    BY <1>7, Zenon DEF receive, Data
  <2>2. CASE c.do = "create" /\ create(c)
    BY <2>1, <2>2, Created, NotCreated, NotSwitched, Zenon DEF create
  <2>3. CASE c.do = "record" /\ write(c)
    BY <2>1, <2>3, Recorded, Zenon
  <2>4. CASE c.do = "close" /\ close
    BY <2>1, <2>4, Closed, Zenon
  <2>5. CASE c.do = "confirm" /\ confirm
    BY <2>1, <2>5, Confirmed, Zenon
  <2> QED BY <1>7, <2>2, <2>3, <2>4, <2>5, Zenon DEF receive
<1>8. CASE meta_receive
  <2> DEFINE c == Head(inbox)
  <2>1. Take /\ ~Data
    BY <1>8 DEF meta_receive, Data
  <2>2. CASE c.do = "create" /\ meta_create(c)
    BY <2>1, <2>2, Created, NotCreated, NotSwitched, Zenon DEF meta_create
  <2>3. CASE c.do = "record" /\ meta_write(c)
    BY <2>1, <2>3, Recorded, Zenon
  <2>4. CASE c.do = "close" /\ meta_close
    BY <2>1, <2>4, Closed, Zenon
  <2>5. CASE c.do = "confirm" /\ confirm
    BY <2>1, <2>5, Confirmed, Zenon
  <2> QED BY <1>8, <2>2, <2>3, <2>4, <2>5, Zenon DEF meta_receive
<1>9. CASE UNCHANGED vars
  <2>1. Types' /\ Protocol'
    BY <1>9, ZenonT(40) DEF IInv, Types, Protocol, Records, vars
  <2> QED BY <1>1, <1>9, <2>1, Zenon DEF vars, process
<1> QED BY <1>2, <1>3, <1>4, <1>5, <1>6, <1>7, <1>8, <1>9, Zenon DEF Next

\* The invariant holds in every state of every behaviour.
LEMMA InvHolds == Spec => []IInv
BY InvInit, InvNext, PTL DEF Spec

LEMMA InvExact == IInv => ClosedIsExact
<1> SUFFICES ASSUME IInv, NEW p \in Paths, disk[p].state = "closed"
             PROVE  /\ disk[p].metas = disk[p].wanted
                    /\ config.kind = "data" => disk[p].images = disk[p].wanted
                    /\ Len(disk[p].wanted) # 1 => disk[p].meta_extent = Len(disk[p].wanted)
                    /\ Len(disk[p].wanted) # 1 /\ config.kind = "data" =>
                         disk[p].image_extent = Len(disk[p].wanted)
  BY Zenon DEF ClosedIsExact
<1>1. p # file.path
  <2>1. Types /\ Contents
    BY Zenon DEF IInv
  <2>2. p \notin held
    BY <2>1 DEF Contents
  <2>3. p # "none"
    BY WriterAssumption, Zenon
  <2> QED BY <2>1, <2>2, <2>3, FileTypes, Zenon
<1>2. Intact(disk[p]) /\ Trimmed(disk[p])
  BY <1>1, Zenon DEF IInv, Contents
<1> QED BY <1>2, Zenon DEF Intact, Trimmed, Data

LEMMA InvTorn == IInv => TornOnlyAtTheEnd
<1> SUFFICES ASSUME IInv, NEW p \in Paths
             PROVE  LET f == disk[p]
                    IN  /\ Len(f.metas) <= f.meta_extent /\ Len(f.images) <= f.image_extent
                        /\ config.kind = "data" =>
                             /\ \A k \in DOMAIN f.images : f.images[k] = f.metas[k]
                             /\ Len(f.metas) # Len(f.images) =>
                                  /\ ~alive /\ p = file.path
                                  /\ Len(f.metas) = Len(f.images) + 1
  BY Zenon DEF TornOnlyAtTheEnd
<1> DEFINE f == disk[p]
<1>1. Types /\ Contents /\ f \in HFiles /\ p # "none"
  BY FileTypes, Zenon DEF IInv
<1>2. CASE p # file.path \/ (file # NoFile /\ alive)
  <2>1. Intact(f)
    BY <1>1, <1>2, EmptyIsIntact, Zenon DEF Contents, InUse
  <2>2. Torn(f)
    BY <1>1, <2>1, IntactIsNotTorn, Zenon
  <2> QED BY <2>1, <2>2, Zenon DEF Intact, Torn, Fits, Data
<1>3. CASE p = file.path /\ ~alive
  <2>1. Torn(f)
    BY <1>1, <1>3, FileTypes, Zenon DEF Contents
  <2> QED BY <1>3, <2>1, Zenon DEF Torn, Fits, Data
<1>4. p = file.path => file # NoFile
  BY <1>1, FileTypes, Zenon
<1> QED BY <1>2, <1>3, <1>4, Zenon

\* A closed file has exactly the images the driver has sent since it was
\* created, with one record each, for all block sizes and numbers of images:
\* HDF5File's destructor cuts both datasets to what write has written.
THEOREM ClosedFilesAreExact == Spec => []ClosedIsExact
BY InvHolds, InvExact, PTL

\* Wherever a call of HDF5File's write fails, the file keeps record k beside
\* image k, and only the last image of the file that was open can be missing.
THEOREM OnlyTheLastImageIsTorn == Spec => []TornOnlyAtTheEnd
BY InvHolds, InvTorn, PTL

\* With switch_user_active a file that is created for a user is created as that
\* user: a writer that cannot switch creates nothing.
THEOREM FilesAreWrittenAsUser == Spec => []WrittenAsUser
<1>1. IInv => WrittenAsUser
  BY Zenon DEF IInv
<1> QED BY <1>1, InvHolds, PTL
=============================================================================
