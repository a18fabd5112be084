----------------------------- MODULE HDF5Writer -----------------------------
(***************************************************************************)
(* One std_det_writer, or one std_det_meta_writer_gf, with the HDF5 file   *)
(* it writes: the commands of the driver, the user it runs as, the two     *)
(* datasets and how they grow, and what an error leaves behind.            *)
(*                                                                         *)
(* The driver is kept to what one writer sees of it: it creates, records,  *)
(* confirms and closes, and gives a run up when a writer, this one or      *)
(* another, fails or does not answer.                                      *)
(***************************************************************************)
EXTENDS Integers, Sequences, FiniteSets

CONSTANTS
  Paths,            \* file names users ask for
  Users,            \* user ids, root_user_id among them
  root_user_id,
  Blocks,           \* values of gpfs_block_size
  image_size,       \* bytes of a converted image
  record_size,      \* sizeof(h5_metadata) of std_det_writer
  meta_record_size, \* and of std_det_meta_writer_gf
  MaxRuns,          \* bound on the start requests
  MaxImages         \* bound on the images of all runs

ASSUME WriterAssumption ==
  /\ "none" \notin Paths
  /\ root_user_id \in Users
  /\ Blocks \subseteq Nat
  /\ image_size \in Nat \ {0}
  /\ record_size \in Nat \ {0}
  /\ meta_record_size \in Nat \ {0}
  /\ MaxRuns \in Nat
  /\ MaxImages \in Nat

VARIABLES
  config,   \* the process: [kind, gpfs_block_size, switch_user_active]
  disk,     \* path -> the HDF5 file there
  held,     \* paths the process has open
  file,     \* [path, index] of its HDF5File, or NoFile
  user,     \* its effective user id
  alive,    \* FALSE when an exception nobody catches has ended it
  inbox,    \* commands of the driver
  outbox,   \* answers to the driver
  phase,    \* what the driver is doing
  n_runs,
  n_images

vars == <<config, disk, held, file, user, alive, inbox, outbox, phase, n_runs, n_images>>

process == <<config, disk, held, file, user, alive>>

NoFile == [path |-> "none", index |-> -1]

NoData == [state |-> "absent", asked |-> root_user_id, by |-> root_user_id,
           wanted |-> << >>, metas |-> << >>, images |-> << >>,
           meta_extent |-> 0, image_extent |-> 0]

images_per_chunk == config.gpfs_block_size \div image_size

records_per_chunk ==
  config.gpfs_block_size \div (IF config.kind = "data" THEN record_size ELSE meta_record_size)

Command(do, path, who, image) == [do |-> do, path |-> path, user |-> who, image |-> image]

-----------------------------------------------------------------------------
(* The driver, as this writer sees it.                                     *)

Send(cmd) == inbox' = Append(inbox, cmd)

ask_create(p, u) ==
  /\ alive /\ phase = "idle" /\ n_runs < MaxRuns
  /\ Send(Command("create", p, u, 0))
  /\ phase' = "create"
  /\ n_runs' = n_runs + 1
  /\ UNCHANGED <<process, outbox, n_images>>

ask_record ==
  /\ alive /\ phase = "record" /\ n_images < MaxImages
  /\ Send(Command("record", "", root_user_id, n_images + 1))
  /\ n_images' = n_images + 1
  /\ UNCHANGED <<process, outbox, phase, n_runs>>

ask_confirm ==
  /\ alive /\ phase = "record"
  /\ Send(Command("confirm", "", root_user_id, 0))
  /\ phase' = "confirm"
  /\ UNCHANGED <<process, outbox, n_runs, n_images>>

\* SUCCESS lets the run go on, unless another writer has failed.
take_answer ==
  /\ outbox # << >>
  /\ outbox' = Tail(outbox)
  /\ \/ /\ phase = "create" /\ Head(outbox) = "SUCCESS"
        /\ phase' = "record"
        /\ UNCHANGED inbox
     \/ /\ phase = "confirm" /\ Head(outbox) = "SUCCESS"
        /\ phase' = "close"
        /\ Send(Command("close", "", root_user_id, 0))
     \/ /\ phase' = "idle"
        /\ UNCHANGED inbox
  /\ UNCHANGED <<process, n_runs, n_images>>

\* Five seconds without an answer.
give_up ==
  /\ phase \in {"create", "confirm", "close"}
  /\ outbox = << >> /\ (inbox = << >> \/ ~alive)
  /\ phase' = "idle"
  /\ UNCHANGED <<process, inbox, outbox, n_runs, n_images>>

-----------------------------------------------------------------------------
(* HDF5File.                                                               *)

\* A dataset is cut to the n elements that were written.
Cut(extent, f, n) == IF f.index > 0 THEN n ELSE extent

\* Slip: the datasets are cut to the index of the last image.
cut_to_index(d, f) ==
  [d EXCEPT ![f.path] =
    [d[f.path] EXCEPT !.state = "closed",
                      !.meta_extent = Cut(@, f, f.index),
                      !.metas = IF f.index > 0 THEN SubSeq(@, 1, f.index) ELSE @,
                      !.image_extent = Cut(@, f, f.index),
                      !.images = IF f.index > 0 THEN SubSeq(@, 1, f.index) ELSE @]]

\* The destructor: the datasets lose the part that was never written, when
\* there is more than one image.
destroy(d, f) ==
  [d EXCEPT ![f.path] =
    [d[f.path] EXCEPT !.state = "closed",
                      !.meta_extent = Cut(@, f, f.index + 1),
                      !.image_extent = Cut(@, f, f.index + 1)]]

\* The metadata writer's file has no images.
meta_destroy(d, f) ==
  [d EXCEPT ![f.path] =
    [d[f.path] EXCEPT !.state = "closed", !.meta_extent = Cut(@, f, f.index + 1)]]

\* file.reset(), or the end of the object that file held before.
reset(d) ==
  IF file = NoFile THEN d
  ELSE IF config.kind = "data" THEN destroy(d, file) ELSE meta_destroy(d, file)

\* H5Fcreate with H5F_ACC_TRUNC empties the file, and refuses one that this
\* process has open (see file_created).
create_file(p, asked, as) ==
  [disk EXCEPT ![p] = [NoData EXCEPT !.state = "open", !.asked = asked, !.by = as]]

\* A dataset that can grow needs chunks of at least one element.
create_metadata_dataset == config.gpfs_block_size >= record_size

create_image_dataset == images_per_chunk > 0

create_datasets == create_metadata_dataset /\ create_image_dataset

meta_create_metadata_dataset == config.gpfs_block_size >= meta_record_size

meta_create_datasets == meta_create_metadata_dataset

\* Slip: the dataset is extended when the record after this one is due.
extend_meta_late(f, i) ==
  IF i > f.meta_extent
  THEN (((i + 1) \div records_per_chunk) + 1) * records_per_chunk
  ELSE f.meta_extent

\* The extent of the metadata dataset before record i is written.
extend_meta(f, i) ==
  IF i + 1 > f.meta_extent
  THEN (((i + 1) \div records_per_chunk) + 1) * records_per_chunk
  ELSE f.meta_extent

extend_image(f, i) ==
  IF i >= f.image_extent THEN i + images_per_chunk ELSE f.image_extent

-----------------------------------------------------------------------------
(* The loop of the writer.                                                 *)

Respond(code) == outbox' = Append(outbox, code)

\* seteuid: only root can become somebody else.
seteuid_fails(u) == user # root_user_id /\ u \notin {user, root_user_id}

switch_user(u) ==
  \/ config.switch_user_active /\ ~seteuid_fails(u) /\ user' = u
  \/ ~config.switch_user_active /\ UNCHANGED user

\* Slip: whether the switch has worked is not asked.
switch_writer_user_unchecked(u) ==
  \/ (u = root_user_id \/ seteuid_fails(u)) /\ UNCHANGED user
  \/ u # root_user_id /\ switch_user(u)

switch_writer_user(u) ==
  \/ u = root_user_id /\ UNCHANGED user
  \/ u # root_user_id /\ switch_user(u)

meta_switch_user(u) == ~seteuid_fails(u) /\ user' = u

meta_switch_writer_user(u) ==
  \/ u = root_user_id /\ UNCHANGED user
  \/ u # root_user_id /\ meta_switch_user(u)

\* The new object is made first; the old one, when there is one, is destroyed
\* only after that.
file_created(cmd) ==
  /\ cmd.path \notin held
  /\ disk' = reset(create_file(cmd.path, cmd.user, user'))
  /\ held' = (held \ {file.path}) \cup {cmd.path}
  /\ file' = [path |-> cmd.path, index |-> -1]
  /\ Respond("SUCCESS")
  /\ UNCHANGED alive

\* The constructor throws, for want of a right, of room or of a chunk.  A file
\* that was created by then stays open, and is not closed again.
file_not_created(cmd) ==
  /\ \/ UNCHANGED <<disk, held>>
     \/ /\ cmd.path \notin held
        /\ disk' = create_file(cmd.path, cmd.user, user')
        /\ held' = held \cup {cmd.path}
  /\ UNCHANGED file

\* A writer that cannot become the user does not answer.
user_not_switched(cmd) ==
  /\ config.switch_user_active /\ seteuid_fails(cmd.user)
  /\ UNCHANGED <<disk, held, file, user, alive, outbox>>

\* std_det_writer catches the exception and answers FAILURE.
create(cmd) ==
  \/ switch_writer_user(cmd.user) /\ create_datasets /\ file_created(cmd)
  \/ /\ switch_writer_user(cmd.user) /\ file_not_created(cmd)
     /\ Respond("FAILURE")
     /\ UNCHANGED alive
  \/ user_not_switched(cmd)

\* std_det_meta_writer_gf does not, and ends.
meta_create(cmd) ==
  \/ meta_switch_writer_user(cmd.user) /\ meta_create_datasets /\ file_created(cmd)
  \/ /\ meta_switch_writer_user(cmd.user) /\ file_not_created(cmd)
     /\ alive' = FALSE
     /\ UNCHANGED outbox
  \/ user_not_switched(cmd)

\* What write_meta makes of the file: with the new extent, then with the record.
Extended(f, i) == [f EXCEPT !.meta_extent = extend_meta(f, i)]

write_meta(f, i, image) == [Extended(f, i) EXCEPT !.metas = Append(@, image)]

Enlarged(f, i) == [f EXCEPT !.image_extent = extend_image(f, i)]

write_image(f, i, image) == [Enlarged(f, i) EXCEPT !.images = Append(@, image)]

\* The file becomes written, or what one of the failing calls leaves: the
\* exception ends the process.
Written(written, torn) ==
  /\ file' = [file EXCEPT !.index = @ + 1]
  /\ \/ disk' = [disk EXCEPT ![file.path] = written] /\ UNCHANGED alive
     \/ disk' \in {[disk EXCEPT ![file.path] = f] : f \in torn} /\ alive' = FALSE
  /\ UNCHANGED <<held, user, outbox>>

Asked(image) == [disk[file.path] EXCEPT !.wanted = Append(@, image)]

\* The metadata first, then the image.
write(cmd) ==
  LET i == file.index + 1
      asked == Asked(cmd.image)
      with_meta == write_meta(asked, i, cmd.image)
  IN  Written(write_image(with_meta, i, cmd.image),
              {asked, Extended(asked, i), with_meta, Enlarged(with_meta, i)})

meta_write(cmd) ==
  LET i == file.index + 1
      asked == Asked(cmd.image)
  IN  Written(write_meta(asked, i, cmd.image), {asked, Extended(asked, i)})

close ==
  /\ disk' = reset(disk)
  /\ held' = held \ {file.path}
  /\ file' = NoFile
  /\ user' = IF config.switch_user_active THEN root_user_id ELSE user
  /\ Respond("SUCCESS")
  /\ UNCHANGED alive

meta_close ==
  /\ disk' = reset(disk)
  /\ held' = held \ {file.path}
  /\ file' = NoFile
  /\ meta_switch_user(root_user_id)
  /\ Respond("SUCCESS")
  /\ UNCHANGED alive

confirm == Respond("SUCCESS") /\ UNCHANGED <<disk, held, file, user, alive>>

Take ==
  /\ alive /\ inbox # << >>
  /\ inbox' = Tail(inbox)
  /\ UNCHANGED <<config, phase, n_runs, n_images>>

receive ==
  /\ Take /\ config.kind = "data"
  /\ LET cmd == Head(inbox)
     IN  \/ cmd.do = "create" /\ create(cmd)
         \/ cmd.do = "record" /\ write(cmd)
         \/ cmd.do = "close" /\ close
         \/ cmd.do = "confirm" /\ confirm

meta_receive ==
  /\ Take /\ config.kind = "meta"
  /\ LET cmd == Head(inbox)
     IN  \/ cmd.do = "create" /\ meta_create(cmd)
         \/ cmd.do = "record" /\ meta_write(cmd)
         \/ cmd.do = "close" /\ meta_close
         \/ cmd.do = "confirm" /\ confirm

-----------------------------------------------------------------------------

WriterConfigs ==
  [kind : {"data"}, gpfs_block_size : Blocks, switch_user_active : BOOLEAN]

\* The metadata writer always switches the user.
MetaWriterConfigs ==
  [kind : {"meta"}, gpfs_block_size : Blocks, switch_user_active : {TRUE}]

Init ==
  /\ config \in WriterConfigs \cup MetaWriterConfigs
  /\ disk = [p \in Paths |-> NoData]
  /\ held = {}
  /\ file = NoFile
  /\ user = root_user_id
  /\ alive = TRUE
  /\ inbox = << >>
  /\ outbox = << >>
  /\ phase = "idle"
  /\ n_runs = 0
  /\ n_images = 0

Next ==
  \/ \E p \in Paths, u \in Users : ask_create(p, u)
  \/ ask_record
  \/ ask_confirm
  \/ take_answer
  \/ give_up
  \/ receive
  \/ meta_receive

Spec == Init /\ [][Next]_vars

-----------------------------------------------------------------------------

\* Type correctness of the process, its files and the driver's requests.
TypeOK ==
  /\ held \subseteq Paths
  /\ file = NoFile \/ (file.path \in held /\ disk[file.path].state = "open")
  /\ user \in Users
  /\ alive \in BOOLEAN
  /\ phase \in {"idle", "create", "record", "confirm", "close"}
  /\ \A k \in DOMAIN outbox : outbox[k] \in {"SUCCESS", "FAILURE"}
  /\ \A p \in Paths :
       /\ disk[p].state \in {"absent", "open", "closed"}
       /\ disk[p].meta_extent \in Nat /\ disk[p].image_extent \in Nat

\* A closed file holds the images the driver sent since it was created, in
\* their order, with one record each, and nothing else: the destructor has cut
\* both datasets to size.  Only a file of one image keeps its whole chunk.
ClosedIsExact ==
  \A p \in Paths : disk[p].state = "closed" =>
    LET n == Len(disk[p].wanted)
    IN  /\ disk[p].metas = disk[p].wanted
        /\ config.kind = "data" => disk[p].images = disk[p].wanted
        /\ n # 1 => disk[p].meta_extent = n
        /\ n # 1 /\ config.kind = "data" => disk[p].image_extent = n

\* Wherever write fails, the file keeps record k beside image k, both inside
\* their datasets; at most the last image is missing, and only in the file
\* that was open when the process ended.
TornOnlyAtTheEnd ==
  \A p \in Paths :
    LET f == disk[p]
    IN  /\ Len(f.metas) <= f.meta_extent /\ Len(f.images) <= f.image_extent
        /\ config.kind = "data" =>
             /\ \A k \in DOMAIN f.images : f.images[k] = f.metas[k]
             /\ Len(f.metas) # Len(f.images) =>
                  /\ ~alive /\ p = file.path
                  /\ Len(f.metas) = Len(f.images) + 1

\* A new file belongs to the user named by the request, unless the request
\* names root: then it is written as whoever the last unfinished run left.
WrittenAsUser ==
  config.switch_user_active =>
    \A p \in held : disk[p].asked # root_user_id => disk[p].by = disk[p].asked

=============================================================================
