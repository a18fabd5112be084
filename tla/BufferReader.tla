---------------------------- MODULE BufferReader ----------------------------
(***************************************************************************)
(* std_buffer_reader: answers the requests of the buffer driver for the    *)
(* next stored image.  Its main thread serves the requests; the loader     *)
(* thread of its BufferHandler reads the images of one file ahead, into    *)
(* the slots of the image ring buffer, and queues their metadata.          *)
(*                                                                         *)
(* Both threads use mtx_ and cv_.  A critical section is one action; the   *)
(* loader's wait has a step between the test of its condition and falling  *)
(* asleep, because the destructor writes running_ and notifies without the *)
(* mutex.                                                                  *)
(***************************************************************************)
EXTENDS Integers, Sequences, FiniteSets

LOCAL INSTANCE SequencesExt

CONSTANTS
  Stored,      \* ids of the images in the files
  block_size,  \* images per file (1000)
  n_slots      \* slots of the image ring buffer

ASSUME ReaderAssumption ==
  /\ Stored \subseteq Nat
  /\ block_size \in Nat \ {0}
  /\ n_slots \in Nat \ {0}

None == -1

VARIABLES
  request,    \* [id, new]: the request on the driver socket, or NoRequest
  response,   \* the id acknowledged, NoImage, or None
  serving,    \* main: "recv", "join" (in the destructor) or "wait" (in get_image)
  metadatas,  \* ids of the images that are ready
  loader,     \* loader: "off", "test", "window", "asleep", "fetch", "read"
  todo,       \* ids of the current file that are not read yet
  flags,      \* running, loader_active, no_more_data, stop_requested
  loader_image_id,
  ring,       \* ring[slot]: the image whose bytes are there
  stream,     \* ids published on the image stream
  deaf        \* history: a notification met the loader in its window

reader_vars == <<request, response, serving, metadatas, loader, todo, flags,
                 loader_image_id, ring, stream, deaf>>

NoImage == -2

NoRequest == [id |-> None, new |-> FALSE]

Block(id) == id \div block_size

-----------------------------------------------------------------------------
(* The store (BufferStore has its writer).                                 *)

\* The ids of a file, in order: get_metadatas_in_file_range.
Ascending(ids) == SetToSortSeq(ids, LAMBDA i, j : i < j)

\* Slip: upper_bound in the search for the file.
fetch_file_after(id) ==
  LET later == {Block(i) : i \in {j \in Stored : Block(j) > Block(id)}}
      base  == CHOOSE b \in later : \A c \in later : b <= c
  IN  IF later = {} THEN << >> ELSE Ascending({i \in Stored : Block(i) = base})

\* The file with the image, or the first file after it.
fetch_next_metadatas(id) ==
  LET later == {Block(i) : i \in {j \in Stored : Block(j) >= Block(id)}}
      base  == CHOOSE b \in later : \A c \in later : b <= c
  IN  IF later = {} THEN << >> ELSE Ascending({i \in Stored : Block(i) = base})

-----------------------------------------------------------------------------
(* The main thread.                                                        *)

CanPop(id) == metadatas # << >> /\ Head(metadatas) >= id

\* The image is published and acknowledged.
answer_image ==
  /\ stream' = Append(stream, Head(metadatas))
  /\ response' = Head(metadatas)
  /\ metadatas' = Tail(metadatas)
  /\ request' = NoRequest
  /\ serving' = "recv"

answer_no_image ==
  /\ response' = NoImage
  /\ request' = NoRequest
  /\ serving' = "recv"
  /\ UNCHANGED <<stream, metadatas>>

\* The mutex is free: the loader is not between its test and its sleep.
Unlocked == loader # "window"

\* get_image up to its wait: pop, or ask the loader unless it is busy with
\* this very id.
get_image ==
  \/ CanPop(request.id) /\ answer_image /\ UNCHANGED <<loader, flags, loader_image_id>>
  \/ /\ ~CanPop(request.id)
     /\ serving' = "wait"
     /\ flags' = [flags EXCEPT !.loader_active = TRUE]
     /\ loader_image_id' = request.id
     /\ loader' = IF loader = "asleep" THEN "test" ELSE loader
     /\ UNCHANGED <<stream, response, metadatas, request>>

\* ~BufferHandler of the previous handler: running_ and the notification come
\* without the mutex.
destroy_handler ==
  /\ serving = "recv" /\ request.new
  /\ flags' = [flags EXCEPT !.running = FALSE, !.stop_requested = TRUE]
  /\ loader' = IF loader = "asleep" THEN "test" ELSE loader
  /\ deaf' = (deaf \/ loader = "window")
  /\ serving' = "join"
  /\ UNCHANGED <<request, response, metadatas, todo, loader_image_id, ring, stream>>

\* The loader has ended: the new handler takes over and its loader starts.
start_loader ==
  /\ serving = "join" /\ loader = "off"
  /\ flags' = [running |-> TRUE, loader_active |-> FALSE, no_more_data |-> FALSE,
               stop_requested |-> FALSE]
  /\ loader' = "test"
  /\ metadatas' = << >>
  /\ loader_image_id' = 0
  /\ serving' = "recv"
  /\ request' = [request EXCEPT !.new = FALSE]
  /\ UNCHANGED <<response, todo, ring, stream, deaf>>

serve_request ==
  /\ serving = "recv" /\ request # NoRequest /\ ~request.new
  /\ Unlocked
  /\ get_image
  /\ UNCHANGED <<todo, ring, deaf>>

\* get_image after its wait.
finish_request ==
  /\ serving = "wait"
  /\ Unlocked
  /\ metadatas # << >> \/ flags.no_more_data
  /\ \/ CanPop(request.id) /\ answer_image
     \/ ~CanPop(request.id) /\ answer_no_image
  /\ UNCHANGED <<loader, todo, flags, loader_image_id, ring, deaf>>

-----------------------------------------------------------------------------
(* The loader thread.                                                      *)

main_vars == <<request, response, serving, stream, deaf>>

\* The top of the loop and the test of the wait.
loader_test ==
  /\ loader = "test"
  /\ \/ /\ flags.stop_requested \/ ~flags.running
        /\ loader' = "off"
        /\ UNCHANGED <<metadatas, flags>>
     \/ /\ ~flags.stop_requested /\ flags.running /\ flags.loader_active
        /\ loader' = "fetch"
        /\ metadatas' = << >>
        /\ flags' = [flags EXCEPT !.loader_active = FALSE, !.no_more_data = FALSE]
     \/ /\ ~flags.stop_requested /\ flags.running /\ ~flags.loader_active
        /\ loader' = "window"
        /\ UNCHANGED <<metadatas, flags>>
  /\ UNCHANGED <<main_vars, todo, loader_image_id, ring>>

loader_sleep ==
  /\ loader = "window"
  /\ loader' = "asleep"
  /\ UNCHANGED <<main_vars, metadatas, todo, flags, loader_image_id, ring>>

loader_fetch ==
  /\ loader = "fetch"
  /\ todo' = fetch_next_metadatas(loader_image_id)
  /\ IF todo' = << >>
     THEN loader' = "test" /\ flags' = [flags EXCEPT !.no_more_data = TRUE]
     ELSE loader' = "read" /\ UNCHANGED flags
  /\ UNCHANGED <<main_vars, metadatas, loader_image_id, ring>>

\* One image is read into its slot and queued; the first one withdraws a
\* request that came in the meantime.
read_single_image ==
  /\ loader = "read"
  /\ \/ /\ todo # << >> /\ ~flags.stop_requested
        /\ ring' = [ring EXCEPT ![Head(todo) % n_slots] = Head(todo)]
        /\ metadatas' = Append(metadatas, Head(todo))
        /\ flags' = IF metadatas = << >> THEN [flags EXCEPT !.loader_active = FALSE] ELSE flags
        /\ todo' = Tail(todo)
        /\ UNCHANGED loader
     \/ /\ todo = << >> \/ flags.stop_requested
        /\ loader' = "test"
        /\ todo' = << >>
        /\ UNCHANGED <<ring, metadatas, flags>>
  /\ UNCHANGED <<main_vars, loader_image_id>>

-----------------------------------------------------------------------------

ReaderInit ==
  /\ request = NoRequest
  /\ response = None
  /\ serving = "recv"
  /\ metadatas = << >>
  /\ loader = "off"
  /\ todo = << >>
  /\ flags = [running |-> FALSE, loader_active |-> FALSE, no_more_data |-> FALSE,
              stop_requested |-> FALSE]
  /\ loader_image_id = 0
  /\ ring = [s \in 0 .. n_slots - 1 |-> None]
  /\ stream = << >>
  /\ deaf = FALSE

Main == destroy_handler \/ start_loader \/ serve_request \/ finish_request

Loader == loader_test \/ loader_sleep \/ loader_fetch \/ read_single_image

ReaderTypeOK ==
  /\ request \in [id : Nat \cup {None}, new : BOOLEAN]
  /\ response \in Stored \cup {NoImage, None}
  /\ serving \in {"recv", "join", "wait"}
  /\ metadatas \in Seq(Stored)
  /\ loader \in {"off", "test", "window", "asleep", "fetch", "read"}
  /\ todo \in Seq(Stored)
  /\ flags \in [running : BOOLEAN, loader_active : BOOLEAN, no_more_data : BOOLEAN,
                stop_requested : BOOLEAN]
  /\ ring \in [0 .. n_slots - 1 -> Stored \cup {None}]
  /\ stream \in Seq(Stored)
  /\ deaf \in BOOLEAN
=============================================================================
