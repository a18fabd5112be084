----------------------------- MODULE DetDriver -----------------------------
(***************************************************************************)
(* std_det_driver and its std_det_writer services: users start and stop    *)
(* the recording of images to files over websocket sessions.  An accepted  *)
(* start runs in a detached thread, which talks to the writers over one    *)
(* pair of ZMQ sockets each; every session has a monitor thread, which     *)
(* tells its user the state and puts the driver back to idle.  All threads *)
(* share one state_manager.  Requests are handled by one io thread.        *)
(***************************************************************************)
EXTENDS Integers, Sequences, Functions

CONSTANTS
  Sessions,             \* users, each with at most one websocket connection
  n_sockets,            \* writers, the metadata writer included
  with_metadata_writer, \* whether socket 0 is the metadata writer
  n_images,             \* images asked for by each start request
  MaxRuns,              \* bound on the accepted start requests
  Conditions,           \* the conditions the system may have to work under
  Patient               \* users wait for the end of a run they have started

ASSUME ConstantsAssumption ==
  /\ n_sockets \in Nat \ {0}
  /\ with_metadata_writer \in BOOLEAN
  /\ with_metadata_writer => n_sockets > 1
  /\ n_images \in Nat
  /\ MaxRuns \in Nat
  /\ Conditions \subseteq [failures : SUBSET {"create", "user"},
                            slow : SUBSET {"create", "confirm", "close"},
                            runs : 0 .. MaxRuns]
  /\ Patient \in BOOLEAN

VARIABLES
  conditions,       \* what may happen: failures ("create": a file cannot be
                    \* created; "user": a writer cannot switch to the user and
                    \* does not answer), the phases in which an answer may take
                    \* more than 5 s, and the number of runs
  state,            \* driver_state of the state_manager
  images_processed, \* count shown to the users
  thread,           \* run -> program counter and locals of its thread
  to_writer,        \* commands not read by the writer yet
  from_writer,      \* responses not read by the driver yet
  file,             \* writer -> the open HDF5 file, or NoFile
  crashed,          \* writers that used a file without having one
  exited,           \* writers that ended with an exception nobody caught
  monitor,          \* session -> its monitor thread: off, wait, final, joined
                    \* (by the closing handler), gone (with the driver)
  saved,            \* history: the files each writer has closed
  waiting,          \* history: session -> its user was not told how a run ended
  stop              \* history: state at the last stop accepted, images since

manager == <<state, images_processed>>
sockets == <<to_writer, from_writer>>
writers == <<file, crashed, exited, saved>>
sessions == <<monitor, waiting>>
vars == <<conditions, manager, thread, sockets, writers, sessions, stop>>

Writers == 0 .. n_sockets - 1

DataWriters == IF with_metadata_writer THEN Writers \ {0} ELSE Writers

Runs == 1 .. MaxRuns

driver_state ==
  {"idle", "creating_file", "waiting_for_first_image", "recording",
   "saving_file", "file_saved", "stop", "error"}

NoFile == [run |-> 0, images |-> << >>]

NotStarted == [at |-> "none", i |-> 0, next |-> 0, acked |-> 0]

NoStop == [in |-> "none", since |-> 0]

-----------------------------------------------------------------------------
(* The state manager.                                                      *)

change_state(new) ==
  /\ state' = new
  /\ images_processed' = IF new = "idle" THEN 0 ELSE images_processed

\* Slip: a recording that is told to stop still counts as recording.
is_recording_until_saved ==
  state \in {"recording", "waiting_for_first_image", "creating_file", "stop"}

is_recording == state \in {"recording", "waiting_for_first_image", "creating_file"}

-----------------------------------------------------------------------------
(* The thread of one run.                                                  *)

Active(t) ==
  thread[t].at \in {"spawned", "create", "record", "receive", "confirm", "close"}

Goto(t, at) == [thread EXCEPT ![t] = [@ EXCEPT !.at = at, !.next = 0, !.acked = 0]]

\* Slip: the metadata writer is not counted when there is one.
data_writer_off_by_one(i) ==
  IF with_metadata_writer THEN 1 + (i % n_sockets) ELSE i % n_sockets

get_current_writer_index(i) ==
  IF with_metadata_writer THEN 1 + (i % (n_sockets - 1)) ELSE i % n_sockets

Command(do, t, i) == [do |-> do, run |-> t, image |-> i]

send_command_to_all_writers(do, t) ==
  to_writer' = [w \in Writers |-> Append(to_writer[w], Command(do, t, 0))]

send_create_file_requests(t) ==
  /\ thread[t].at = "spawned"
  /\ change_state("creating_file")
  /\ send_command_to_all_writers("create", t)
  /\ thread' = Goto(t, "create")
  /\ UNCHANGED <<conditions, from_writer, writers, sessions, stop>>

\* did_all_writers_acknowledge: the sockets are read in turn.  A FAILURE ends
\* the loop at once, an answer that does not come in time is passed over.
AckTimeout(t, w) ==
  /\ from_writer[w] = << >>
  /\ thread[t].at \in conditions.slow \/ to_writer[w] = << >> \/ w \in crashed \cup exited
  /\ thread' = [thread EXCEPT ![t].next = @ + 1]
  /\ UNCHANGED from_writer

AckReceived(t, w) ==
  /\ from_writer[w] # << >>
  /\ from_writer' = [from_writer EXCEPT ![w] = Tail(@)]
  /\ thread' = IF Head(from_writer[w]) = "FAILURE"
               THEN [thread EXCEPT ![t].next = n_sockets]
               ELSE [thread EXCEPT ![t].next = @ + 1, ![t].acked = @ + 1]

ReceiveAck(t) ==
  /\ thread[t].at \in {"create", "confirm", "close"}
  /\ thread[t].next < n_sockets
  /\ AckTimeout(t, thread[t].next) \/ AckReceived(t, thread[t].next)
  /\ UNCHANGED <<conditions, manager, to_writer, writers, sessions, stop>>

\* Slip: one answer is enough.
acknowledged_by_one(t) == thread[t].acked > 0

did_all_writers_acknowledge(t) == thread[t].acked = n_sockets

\* Slip: a run whose files cannot be created ends without a word.
FilesCreated_silent(t) ==
  /\ thread[t].at = "create"
  /\ thread[t].next = n_sockets
  /\ \/ /\ did_all_writers_acknowledge(t)
        /\ change_state("waiting_for_first_image")
        /\ thread' = Goto(t, "record")
     \/ /\ ~did_all_writers_acknowledge(t)
        /\ thread' = Goto(t, "failed")
        /\ UNCHANGED manager
  /\ UNCHANGED <<conditions, sockets, writers, sessions, stop>>

FilesCreated(t) ==
  /\ thread[t].at = "create"
  /\ thread[t].next = n_sockets
  /\ \/ /\ did_all_writers_acknowledge(t)
        /\ change_state("waiting_for_first_image")
        /\ thread' = Goto(t, "record")
     \/ /\ ~did_all_writers_acknowledge(t)
        /\ change_state("error")
        /\ thread' = Goto(t, "failed")
  /\ UNCHANGED <<conditions, sockets, writers, sessions, stop>>

\* The condition of the loop in record_images; when it fails the writers are
\* asked to confirm the last image.
record_images(t) ==
  /\ thread[t].at = "record"
  /\ \/ /\ thread[t].i < n_images /\ is_recording
        /\ thread' = Goto(t, "receive")
        /\ UNCHANGED to_writer
     \/ /\ ~(thread[t].i < n_images /\ is_recording)
        /\ send_command_to_all_writers("confirm", t)
        /\ thread' = Goto(t, "confirm")
  /\ UNCHANGED <<conditions, manager, from_writer, writers, sessions, stop>>

\* The writers an image goes to.
Receivers(i) ==
  {get_current_writer_index(i)} \cup (IF with_metadata_writer THEN {0} ELSE {})

ImageReceived(t) ==
  /\ thread[t].at = "receive"
  /\ LET i == thread[t].i
     IN  /\ state' = IF i = 0 THEN "recording" ELSE state
         /\ to_writer' = [w \in Writers |->
              IF w \in Receivers(i)
              THEN Append(to_writer[w], Command("record", t, i))
              ELSE to_writer[w]]
         /\ images_processed' = i + 1
         /\ thread' = [thread EXCEPT ![t].at = "record", ![t].i = i + 1]
  /\ stop' = IF stop = NoStop THEN stop ELSE [stop EXCEPT !.since = @ + 1]
  /\ UNCHANGED <<conditions, from_writer, writers, sessions>>

\* zmq_recv gives up after a second and the condition is evaluated again.
NoImage(t) ==
  /\ thread[t].at = "receive"
  /\ thread' = Goto(t, "record")
  /\ UNCHANGED <<conditions, manager, sockets, writers, sessions, stop>>

\* did_all_writers_record_data and the first half of send_save_file_requests;
\* without all answers the thread ends and leaves the state as it is.
DataRecorded(t) ==
  /\ thread[t].at = "confirm"
  /\ thread[t].next = n_sockets
  /\ IF did_all_writers_acknowledge(t)
     THEN /\ change_state("saving_file")
          /\ send_command_to_all_writers("close", t)
          /\ thread' = Goto(t, "close")
     ELSE thread' = Goto(t, "ended") /\ UNCHANGED <<manager, to_writer>>
  /\ UNCHANGED <<conditions, from_writer, writers, sessions, stop>>

FilesSaved(t) ==
  /\ thread[t].at = "close"
  /\ thread[t].next = n_sockets
  /\ IF did_all_writers_acknowledge(t)
     THEN change_state("file_saved") /\ thread' = Goto(t, "saved")
     ELSE change_state("error") /\ thread' = Goto(t, "failed")
  /\ UNCHANGED <<conditions, sockets, writers, sessions, stop>>

RunThread(t) ==
  \/ send_create_file_requests(t)
  \/ ReceiveAck(t)
  \/ FilesCreated(t)
  \/ record_images(t)
  \/ ImageReceived(t)
  \/ NoImage(t)
  \/ DataRecorded(t)
  \/ FilesSaved(t)

-----------------------------------------------------------------------------
(* A writer: one command after the other.                                  *)

Closed(w) == IF file[w] = NoFile THEN saved[w] ELSE saved[w] \cup {file[w]}

Respond(w, code) == from_writer' = [from_writer EXCEPT ![w] = Append(@, code)]

\* A new file replaces, and so closes, the one that is still open. A data
\* writer answers FAILURE when it cannot create the file; the metadata writer
\* does not catch the exception.
create_file(w, cmd) ==
  \/ /\ file' = [file EXCEPT ![w] = [run |-> cmd.run, images |-> << >>]]
     /\ saved' = [saved EXCEPT ![w] = Closed(w)]
     /\ Respond(w, "SUCCESS")
     /\ UNCHANGED exited
  \/ /\ "create" \in conditions.failures
     /\ w \in DataWriters
     /\ Respond(w, "FAILURE")
     /\ UNCHANGED <<file, exited, saved>>
  \/ /\ "create" \in conditions.failures
     /\ w \notin DataWriters
     /\ exited' = exited \cup {w}
     /\ UNCHANGED <<from_writer, file, saved>>
  \/ /\ "user" \in conditions.failures
     /\ UNCHANGED <<from_writer, file, exited, saved>>

\* file->write with no file is undefined behaviour: the writer is gone.
record_image(w, cmd) ==
  /\ file' = IF file[w] = NoFile THEN file
             ELSE [file EXCEPT ![w].images = Append(@, <<cmd.run, cmd.image>>)]
  /\ crashed' = IF file[w] = NoFile THEN crashed \cup {w} ELSE crashed
  /\ UNCHANGED <<from_writer, exited, saved>>

close_file(w) ==
  /\ file' = [file EXCEPT ![w] = NoFile]
  /\ saved' = [saved EXCEPT ![w] = Closed(w)]
  /\ Respond(w, "SUCCESS")

WriterLoop(w) ==
  /\ w \notin crashed \cup exited
  /\ to_writer[w] # << >>
  /\ to_writer' = [to_writer EXCEPT ![w] = Tail(@)]
  /\ LET cmd == Head(to_writer[w])
     IN  \/ cmd.do = "create" /\ create_file(w, cmd) /\ UNCHANGED crashed
         \/ cmd.do = "record" /\ record_image(w, cmd)
         \/ cmd.do = "close" /\ close_file(w) /\ UNCHANGED <<crashed, exited>>
         \/ cmd.do = "confirm" /\ Respond(w, "SUCCESS") /\ UNCHANGED writers
  /\ UNCHANGED <<conditions, manager, thread, sessions, stop>>

-----------------------------------------------------------------------------
(* The websocket sessions.                                                 *)

accept_and_process(s) ==
  /\ monitor[s] = "off"
  /\ monitor' = [monitor EXCEPT ![s] = "wait"]
  /\ UNCHANGED <<conditions, manager, thread, sockets, writers, waiting, stop>>

\* The io thread joins the monitor thread, which ends between two rounds.
Disconnect(s) ==
  /\ monitor[s] = "wait"
  /\ monitor' = [monitor EXCEPT ![s] = "off"]
  /\ UNCHANGED <<conditions, manager, thread, sockets, writers, waiting, stop>>

\* A session whose requests are read.
IsOpen(s) == monitor[s] \in {"wait", "final"}

\* A request in any other state is rejected, and one that is no JSON is
\* answered with an error, which changes nothing.  The state is idle until the
\* new thread runs.
start_recording(s) ==
  /\ IsOpen(s)
  /\ Patient => ~waiting[s]
  /\ state = "idle"
  /\ \E t \in Runs :
       /\ t <= conditions.runs
       /\ thread[t] = NotStarted
       /\ \A u \in 1 .. t - 1 : thread[u] # NotStarted
       /\ thread' = [thread EXCEPT ![t].at = "spawned"]
  /\ waiting' = [waiting EXCEPT ![s] = TRUE]
  /\ stop' = NoStop
  /\ UNCHANGED <<conditions, manager, sockets, writers, monitor>>

\* A start request without a path: the handler of the error message joins the
\* monitor thread and closes the websocket.
close_socket_handler(s) ==
  /\ monitor[s] = "wait"
  /\ state = "idle"
  /\ monitor' = [monitor EXCEPT ![s] = "joined"]
  /\ UNCHANGED <<conditions, manager, thread, sockets, writers, waiting, stop>>

\* Then the pending read fails and its handler joins the thread once more: the
\* exception leaves ioc.run() and ends the driver with all its threads.
JoinAgain(s) ==
  /\ monitor[s] = "joined"
  /\ monitor' = [u \in Sessions |-> "gone"]
  /\ thread' = [t \in Runs |-> IF Active(t) THEN [thread[t] EXCEPT !.at = "ended"] ELSE thread[t]]
  /\ UNCHANGED <<conditions, manager, sockets, writers, waiting, stop>>

stop_recording(s) ==
  /\ IsOpen(s)
  /\ is_recording
  /\ change_state("stop")
  /\ stop' = [in |-> state, since |-> 0]
  /\ UNCHANGED <<conditions, thread, sockets, writers, sessions>>

\* Slip: the driver is idle again as soon as the files are being saved.
TellEndWhileSaving(s) ==
  /\ monitor[s] = "wait"
  /\ state \in {"saving_file", "file_saved", "error"}
  /\ monitor' = [monitor EXCEPT ![s] = "final"]
  /\ waiting' = [waiting EXCEPT ![s] = FALSE]
  /\ UNCHANGED <<conditions, manager, thread, sockets, writers, stop>>

\* monitor_writer_state sends every state it sees to the user, the final ones
\* before it makes the driver idle; the others need no action here.
TellEnd(s) ==
  /\ monitor[s] = "wait"
  /\ state \in {"file_saved", "error"}
  /\ monitor' = [monitor EXCEPT ![s] = "final"]
  /\ waiting' = [waiting EXCEPT ![s] = FALSE]
  /\ UNCHANGED <<conditions, manager, thread, sockets, writers, stop>>

BackToIdle(s) ==
  /\ monitor[s] = "final"
  /\ change_state("idle")
  /\ monitor' = [monitor EXCEPT ![s] = "wait"]
  /\ UNCHANGED <<conditions, thread, sockets, writers, waiting, stop>>

Session(s) ==
  \/ accept_and_process(s)
  \/ Disconnect(s)
  \/ start_recording(s)
  \/ close_socket_handler(s)
  \/ JoinAgain(s)
  \/ stop_recording(s)
  \/ TellEnd(s)
  \/ BackToIdle(s)

-----------------------------------------------------------------------------

Init ==
  /\ conditions \in Conditions
  /\ state = "idle"
  /\ images_processed = 0
  /\ thread = [t \in Runs |-> NotStarted]
  /\ to_writer = [w \in Writers |-> << >>]
  /\ from_writer = [w \in Writers |-> << >>]
  /\ file = [w \in Writers |-> NoFile]
  /\ crashed = {}
  /\ exited = {}
  /\ saved = [w \in Writers |-> {}]
  /\ monitor = [s \in Sessions |-> "off"]
  /\ waiting = [s \in Sessions |-> FALSE]
  /\ stop = NoStop

Next ==
  \/ \E t \in Runs : RunThread(t)
  \/ \E w \in Writers : WriterLoop(w)
  \/ \E s \in Sessions : Session(s)

Spec == Init /\ [][Next]_vars

\* All threads run and the detector sends images again and again; users are
\* free to ask for nothing.
FairSpec ==
  /\ Spec
  /\ \A t \in Runs : WF_vars(RunThread(t)) /\ SF_vars(ImageReceived(t))
  /\ \A w \in Writers : WF_vars(WriterLoop(w))
  /\ \A s \in Sessions : WF_vars(TellEnd(s)) /\ WF_vars(BackToIdle(s))

-----------------------------------------------------------------------------

\* Type correctness of the driver, its threads, the sockets and the files.
TypeOK ==
  /\ state \in driver_state
  /\ images_processed \in 0 .. n_images
  /\ thread \in [Runs -> [at : {"none", "spawned", "create", "record", "receive",
                                "confirm", "close", "saved", "failed", "ended"},
                          i : 0 .. n_images, next : 0 .. n_sockets, acked : 0 .. n_sockets]]
  /\ \A w \in Writers :
       /\ \A k \in DOMAIN to_writer[w] :
            to_writer[w][k] \in [do : {"create", "record", "confirm", "close"},
                                 run : Runs, image : 0 .. n_images]
       /\ \A k \in DOMAIN from_writer[w] : from_writer[w][k] \in {"SUCCESS", "FAILURE"}
       /\ file[w].run \in 0 .. MaxRuns
  /\ crashed \subseteq Writers
  /\ exited \subseteq Writers \ DataWriters
  /\ monitor \in [Sessions -> {"off", "wait", "final", "joined", "gone"}]
  /\ waiting \in [Sessions -> BOOLEAN]
  /\ stop.since \in 0 .. n_images

\* What a run of n images leaves behind: each image is in one data file and in
\* the metadata file, in the order of the stream, the files of equal length
\* up to one image.
CompleteFiles(t, n, f) ==
  /\ \A w \in Writers : \A k \in DOMAIN f[w] :
       /\ f[w][k][1] = t
       /\ \A l \in 1 .. k - 1 : f[w][l][2] < f[w][k][2]
  /\ \A i \in 0 .. n - 1 :
       \E w \in DataWriters : \A v \in DataWriters : <<t, i>> \in Range(f[v]) <=> v = w
  /\ \A v, w \in DataWriters : Len(f[v]) <= Len(f[w]) + 1
  /\ with_metadata_writer => Range(f[0]) = {<<t, i>> : i \in 0 .. n - 1}

\* When a run has ended with file_saved, its files are closed and complete.
SavedIsComplete ==
  \A t \in Runs : thread[t].at = "saved" =>
    \E f \in [Writers -> UNION {{g.images : g \in saved[w]} : w \in Writers}] :
      /\ \A w \in Writers : [run |-> t, images |-> f[w]] \in saved[w]
      /\ CompleteFiles(t, thread[t].i, f)

\* A writer is never asked to write an image before it has a file.
NoWriteWithoutFile == crashed = {}

\* While a run is active every other start request finds the driver busy.
OneRunAtATime == \A t, u \in Runs : Active(t) /\ Active(u) => t = u

\* A stop of a running recording lets at most the image being received through.
StopEndsRecording == stop.in = "recording" => stop.since <= 1

\* driverwebsocket.md: stop ends the ongoing process, whatever it is doing.
StopIsObeyed == stop # NoStop => stop.since <= 1

\* driverwebsocket.md: the last message of every run says error or file_saved,
\* provided that the user stays connected and sends no start without a path.
EndIsTold == \A s \in Sessions : waiting[s] ~> (~waiting[s] \/ ~IsOpen(s))

=============================================================================
