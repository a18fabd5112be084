---------------------------- MODULE BufferStore ----------------------------
(***************************************************************************)
(* std_buffer_writer: appends every image, compressed, to the file of its  *)
(* block of image ids (FileHandler) and then stores the place in Redis     *)
(* (RedisHandler).  The process can crash at any moment and is restarted;  *)
(* the files and Redis stay.  A new acquisition starts with lower ids.     *)
(*                                                                         *)
(* A file is a sequence of bytes, a byte is the image it belongs to.  The  *)
(* bytes of a short write stay in the buffer of the fstream until it       *)
(* overflows or the file is closed; a crash loses them.                    *)
(***************************************************************************)
EXTENDS Integers, Sequences, FiniteSets

CONSTANTS
  Images,       \* image ids
  block_size,   \* images per file (1000)
  folder_size,  \* images per folder (1000000)
  Sizes,        \* compressed sizes of images
  LongWrite,    \* the size from which a write bypasses the fstream's buffer
  MaxWrites,    \* bound on the images written in a behaviour
  MaxFaults     \* bound on the crashes, expirations and new acquisitions

ASSUME StoreAssumption ==
  /\ Images \subseteq Nat
  /\ block_size \in Nat \ {0}
  /\ folder_size \in Nat \ {0} /\ folder_size % block_size = 0
  /\ Sizes \subseteq Nat \ {0}
  /\ LongWrite \in Nat
  /\ MaxWrites \in Nat
  /\ MaxFaults \in Nat

None == -1

VARIABLES
  folders,   \* folder id -> ids of the files in it
  files,     \* file id -> its bytes
  redis,     \* image id -> [offset, size, opening]: the metadata
  ids,       \* the sorted set of all image ids in Redis
  current,   \* the writer's FileHandler: file, offset, bytes still buffered
  writing,   \* [id, offset, size] of the image in hand (size 0 until it is in
             \* the file), or NotWriting
  last_id,   \* the newest image id of this acquisition
  n_writes,
  n_faults,
  openings,  \* history: file id -> how often it has been opened for writing
  lost       \* history: images whose bytes a crash took

vars == <<folders, files, redis, ids, current, writing, last_id, n_writes, n_faults,
          openings, lost>>

NotWriting == [id |-> None, offset |-> 0, size |-> 0]

Closed == [file |-> None, offset |-> 0, buffered |-> << >>]

\* image_id / 1000 "000"
get_filename(id) == (id \div block_size) * block_size

get_folder_path(id) == (id \div folder_size) * folder_size

Put(f, k, v) == [x \in DOMAIN f \cup {k} |-> IF x = k THEN v ELSE f[x]]

Get(f, k, default) == IF k \in DOMAIN f THEN f[k] ELSE default

-----------------------------------------------------------------------------
(* The writer's loop and FileHandler::write.                               *)

receive_meta(id) ==
  /\ writing = NotWriting /\ n_writes < MaxWrites /\ id > last_id
  /\ writing' = [id |-> id, offset |-> 0, size |-> 0]
  /\ last_id' = id
  /\ n_writes' = n_writes + 1
  /\ UNCHANGED <<folders, files, redis, ids, current, n_faults, openings, lost>>

\* fs::create_directories is the first thing open_new_file does.
create_directories(id) ==
  /\ current.file # get_filename(id)
  /\ get_folder_path(id) \notin DOMAIN folders
  /\ folders' = Put(folders, get_folder_path(id), {})
  /\ UNCHANGED <<files, redis, ids, current, writing, last_id, n_writes, n_faults,
                 openings, lost>>

\* Slip: the new file is opened before the buffer of the old one is written.
open_and_flush_later(id) ==
  LET file == get_filename(id)
  IN  /\ current.file # file
      /\ get_folder_path(id) \in DOMAIN folders
      /\ folders' = [folders EXCEPT ![get_folder_path(id)] = @ \cup {file}]
      /\ files' = Put(files, file, Get(files, file, << >>) \o current.buffered)
      /\ current' = [file |-> file, offset |-> 0, buffered |-> << >>]
      /\ openings' = Put(openings, file, Get(openings, file, 0) + 1)
      /\ UNCHANGED <<redis, ids, writing, last_id, n_writes, n_faults, lost>>

\* The old file is flushed and closed, the new one opened to append; the
\* offset starts at 0 whatever the file holds.
open_new_file(id) ==
  LET file == get_filename(id)
  IN  /\ current.file # file
      /\ get_folder_path(id) \in DOMAIN folders
      /\ folders' = [folders EXCEPT ![get_folder_path(id)] = @ \cup {file}]
      /\ files' = LET flushed == IF current.file = None THEN files
                                 ELSE [files EXCEPT ![current.file] = @ \o current.buffered]
                  IN  Put(flushed, file, Get(flushed, file, << >>))
      /\ current' = [file |-> file, offset |-> 0, buffered |-> << >>]
      /\ openings' = Put(openings, file, Get(openings, file, 0) + 1)
      /\ UNCHANGED <<redis, ids, writing, last_id, n_writes, n_faults, lost>>

Bytes(id, size) == [i \in 1 .. size |-> id]

write_data_and_update_offset(id, size, spill) ==
  LET all == current.buffered \o Bytes(id, size)
  IN  /\ current.file = get_filename(id)
      /\ files' = IF spill THEN [files EXCEPT ![current.file] = @ \o all] ELSE files
      /\ current' = [current EXCEPT !.offset = @ + size,
                                    !.buffered = IF spill THEN << >> ELSE all]
      /\ writing' = [id |-> id, offset |-> current.offset, size |-> size]
      /\ UNCHANGED <<folders, redis, ids, last_id, n_writes, n_faults, openings, lost>>

write(id) ==
  /\ writing.size = 0
  /\ \/ create_directories(id)
     \/ open_new_file(id)
     \/ \E size \in Sizes, spill \in BOOLEAN :
          (size >= LongWrite => spill) /\ write_data_and_update_offset(id, size, spill)

-----------------------------------------------------------------------------
(* RedisHandler                                                            *)

\* Slip: the metadata is stored as soon as the image has been received.
send_before_write ==
  /\ writing # NotWriting
  /\ redis' = Put(redis, writing.id, [offset |-> current.offset, size |-> 1, opening |-> 1])
  /\ ids' = ids \cup {writing.id}
  /\ writing' = NotWriting
  /\ UNCHANGED <<folders, files, current, last_id, n_writes, n_faults, openings, lost>>

\* One pipeline: set with an expiration time, and the id to the sorted set.
send ==
  /\ writing.size # 0
  /\ redis' = Put(redis, writing.id, [offset |-> writing.offset, size |-> writing.size,
                                      opening |-> openings[get_filename(writing.id)]])
  /\ ids' = ids \cup {writing.id}
  /\ writing' = NotWriting
  /\ UNCHANGED <<folders, files, current, last_id, n_writes, n_faults, openings, lost>>

\* The time to live of a metadata entry is over; its id stays in the set.
expire(id) ==
  /\ n_faults < MaxFaults /\ id \in DOMAIN redis
  /\ n_faults' = n_faults + 1
  /\ redis' = [i \in DOMAIN redis \ {id} |-> redis[i]]
  /\ UNCHANGED <<folders, files, ids, current, writing, last_id, n_writes, openings, lost>>

-----------------------------------------------------------------------------

\* The writer crashes and is started again.
crash ==
  /\ n_faults < MaxFaults
  /\ n_faults' = n_faults + 1
  /\ lost' = lost \cup {current.buffered[i] : i \in DOMAIN current.buffered}
  /\ current' = Closed
  /\ writing' = NotWriting
  /\ UNCHANGED <<folders, files, redis, ids, last_id, n_writes, openings>>

\* The detector starts to count anew.
new_acquisition ==
  /\ writing = NotWriting /\ n_faults < MaxFaults /\ last_id # None
  /\ n_faults' = n_faults + 1
  /\ last_id' = None
  /\ UNCHANGED <<folders, files, redis, ids, current, writing, n_writes, openings, lost>>

Init ==
  /\ folders = << >>
  /\ files = << >>
  /\ redis = << >>
  /\ ids = {}
  /\ current = Closed
  /\ writing = NotWriting
  /\ last_id = None
  /\ n_writes = 0
  /\ n_faults = 0
  /\ openings = << >>
  /\ lost = {}

Next ==
  \/ \E id \in Images : receive_meta(id)
  \/ writing # NotWriting /\ write(writing.id)
  \/ send
  \/ \E id \in Images : expire(id)
  \/ crash
  \/ new_acquisition

Spec == Init /\ [][Next]_vars

-----------------------------------------------------------------------------
(* What the reader looks up.                                               *)

LowerBound(s, x) == {i \in s : i >= x /\ \A j \in s : j >= x => i <= j}

\* Slip: the search goes on in the next folder only if the folder is missing.
root_id_in_folder(id) ==
  LET folder == LowerBound(DOMAIN folders, get_folder_path(id))
  IN  UNION {LowerBound(folders[f], get_filename(id)) : f \in folder}

\* Whatever is read at the front of an empty vector.
Garbage == -2

\* FileHandler::get_first_matching_root_id: first the folder of the id, then
\* the first file of the next folder.  The empty set is nullopt.
get_first_matching_root_id(id) ==
  LET target   == get_folder_path(id)
      inside   == IF target \in DOMAIN folders
                  THEN LowerBound(folders[target], get_filename(id)) ELSE {}
      next     == LowerBound(DOMAIN folders \ {target}, target)
      front(f) == IF folders[f] = {} THEN {Garbage} ELSE LowerBound(folders[f], 0)
  IN  IF inside # {} THEN inside ELSE UNION {front(f) : f \in next}

\* RedisHandler::get_metadatas_in_file_range: ids without metadata are skipped.
get_metadatas_in_file_range(file) ==
  {i \in ids : file <= i /\ i <= file + block_size - 1 /\ i \in DOMAIN redis}

\* FileHandler::read: the bytes between two offsets, none beyond the end.
ReadBytes(id) ==
  LET bytes == Get(files, get_filename(id), << >>)
      e     == redis[id]
  IN  IF e.offset + e.size <= Len(bytes) THEN SubSeq(bytes, e.offset + 1, e.offset + e.size)
      ELSE << >>

-----------------------------------------------------------------------------

\* Type correctness of the files, of Redis and of the writer.
TypeOK ==
  /\ \A f \in DOMAIN folders : folders[f] \subseteq DOMAIN files
  /\ \A f \in DOMAIN files : files[f] \in Seq(Images)
  /\ \A i \in DOMAIN redis :
       redis[i].offset \in Nat /\ redis[i].size \in Sizes /\ redis[i].opening \in Nat
  /\ DOMAIN redis \subseteq ids /\ ids \subseteq Images
  /\ current.file \in DOMAIN files \cup {None}
  /\ writing.size \in Sizes \cup {0}
  /\ n_writes \in 0 .. MaxWrites /\ n_faults \in 0 .. MaxFaults

Buffered == {current.buffered[i] : i \in DOMAIN current.buffered}

\* An image written to a file that had been opened for the first time can be
\* read back at the place that Redis gives, once its bytes have left the
\* buffer, whatever happens later: crashes, restarts, further appends.
StaysReadable ==
  \A i \in DOMAIN redis :
    (redis[i].opening = 1 /\ i \notin Buffered \cup lost)
      => ReadBytes(i) = Bytes(i, redis[i].size)

\* The search over folders and files finds what a search over all files would:
\* the first file whose images are not all older than the one asked for.  The
\* exception is a next folder that is empty, left by a crash in open_new_file:
\* the code reads the front of an empty vector.
FindsNextFile ==
  \A id \in Images :
    LET found == get_first_matching_root_id(id)
    IN  found = {Garbage} \/ found = LowerBound(DOMAIN files, get_filename(id))

\* Redis knows of no image that was not written: each entry is in the range
\* of a file that exists, and the reader's search leads to that file, whatever
\* empty folders a crash has left.
EntriesHaveFiles ==
  \A i \in DOMAIN redis :
    /\ get_filename(i) \in DOMAIN files
    /\ i \in get_metadatas_in_file_range(get_filename(i))
    /\ get_first_matching_root_id(i) = {get_filename(i)}
=============================================================================
