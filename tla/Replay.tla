------------------------------- MODULE Replay -------------------------------
(***************************************************************************)
(* std_buffer_driver: replays stored images on request of a user.  Every   *)
(* replay has two threads: control_reader asks the reader (BufferReader)   *)
(* for one image after the other, forward_images receives what the reader  *)
(* publishes and pushes it to the user's stream.  control_reader waits on  *)
(* a condition variable until the image it was promised has been pushed.   *)
(* The threads, the user's requests and the monitor thread of the user's   *)
(* session meet in the state of the state_manager.                         *)
(*                                                                         *)
(* last_sent_id is stored and cv notified without the mutex, so the wait   *)
(* of control_reader has a step between its test and its sleep.            *)
(***************************************************************************)
EXTENDS BufferReader

CONSTANTS
  Requests,   \* [start, end]: the replays a user asks for; end may be None
  MaxReplays, \* bound on the replays of one behaviour
  RestartsAfterStop  \* whether users start a replay after one they have stopped

ASSUME ReplayAssumption ==
  /\ Requests \subseteq [start : Nat, end : Nat \cup {None}]
  /\ MaxReplays \in Nat
  /\ RestartsAfterStop \in BOOLEAN

Replays == 1 .. MaxReplays

VARIABLES
  state,             \* reader_state of the state_manager
  images_processed,  \* its image count
  last_sent_id,
  settings,          \* settings[r]: what replay r was asked for
  control,           \* control[r]: the control_reader thread of replay r
  forward,           \* forward[r]: "off", "test" or "recv"
  n_images,          \* n_images[r]: images forwarded by replay r
  monitor,           \* the state the monitor thread has read, or "none"
  session,           \* the user's session: "off", "open", "joined" (its monitor, by
                     \* the closing handler) or "gone" (with the driver)
  started,           \* replays started so far
  pushed,            \* history: [replay, id, data] pushed to the user's stream
  stopped,           \* history: whether the user has stopped a replay
  missed             \* history: a notification met control_reader in its window

driver_vars == <<state, images_processed, last_sent_id, settings, control, forward,
                 n_images, monitor, session, started, pushed, stopped, missed>>

vars == <<reader_vars, driver_vars>>

change_state(s) ==
  /\ state' = s
  /\ images_processed' = IF s = "idle" THEN 0 ELSE images_processed

\* A comparison with an empty optional is false.
IsWithinEnd(r, id) == settings[r].end # None /\ id <= settings[r].end

-----------------------------------------------------------------------------
(* The user's session.                                                     *)

connect ==
  /\ session = "off" /\ session' = "open"
  /\ UNCHANGED <<reader_vars, state, images_processed, last_sent_id, settings, control,
                 forward, n_images, monitor, started, pushed, stopped, missed>>

\* The io thread joins the monitor thread, which ends between two rounds.
disconnect ==
  /\ session = "open" /\ monitor = "none" /\ session' = "off"
  /\ UNCHANGED <<reader_vars, state, images_processed, last_sent_id, settings, control,
                 forward, n_images, monitor, started, pushed, stopped, missed>>

\* A start request in state idle; in any other state it is rejected, and one
\* that is no JSON is answered with an error, without an effect.  The control
\* thread of a replay that was stopped can outlive it, and then shares a socket
\* with that of the next replay: users who wait for it do not start another.
start_recording(q) ==
  /\ session = "open" /\ state = "idle" /\ started < MaxReplays
  /\ stopped => RestartsAfterStop
  /\ started' = started + 1
  /\ settings' = [settings EXCEPT ![started'] = q]
  /\ change_state("replaying")
  /\ control' = [control EXCEPT ![started'] =
       [pc |-> "loop", id |-> q.start, new |-> TRUE, wait_for |-> None]]
  /\ forward' = [forward EXCEPT ![started'] = "test"]
  /\ UNCHANGED <<reader_vars, last_sent_id, n_images, monitor, session, pushed, stopped, missed>>

\* A start request without start_image_id: the handler of the error message
\* joins the monitor thread and closes the websocket.
close_socket_handler ==
  /\ session = "open" /\ state = "idle" /\ monitor = "none"
  /\ session' = "joined"
  /\ UNCHANGED <<reader_vars, state, images_processed, last_sent_id, settings, control,
                 forward, n_images, monitor, started, pushed, stopped, missed>>

\* Then the pending read fails and joins the thread once more: the exception
\* ends the driver with all its threads.
join_again ==
  /\ session = "joined" /\ session' = "gone"
  /\ control' = [r \in Replays |-> [control[r] EXCEPT !.pc = "off"]]
  /\ forward' = [r \in Replays |-> "off"]
  /\ UNCHANGED <<reader_vars, state, images_processed, last_sent_id, settings, n_images,
                 monitor, started, pushed, stopped, missed>>

stop_recording ==
  /\ session = "open" /\ state = "replaying"
  /\ change_state("stop")
  /\ stopped' = TRUE
  /\ UNCHANGED <<reader_vars, last_sent_id, settings, control, forward, n_images,
                 monitor, session, started, pushed, missed>>

\* monitor_writer_state: the state is read, the user is told, and a finished
\* replay makes the driver idle.
monitor_read ==
  /\ session = "open" /\ monitor = "none" /\ state = "finished"
  /\ monitor' = state
  /\ UNCHANGED <<reader_vars, state, images_processed, last_sent_id, settings, control,
                 forward, n_images, session, started, pushed, stopped, missed>>

monitor_reset ==
  /\ session = "open" /\ monitor = "finished"
  /\ monitor' = "none"
  /\ change_state("idle")
  /\ UNCHANGED <<reader_vars, last_sent_id, settings, control, forward, n_images,
                 session, started, pushed, stopped, missed>>

-----------------------------------------------------------------------------
(* control_reader.                                                         *)

control_only == <<last_sent_id, settings, forward, n_images, monitor, session,
                  started, pushed, stopped, missed>>

\* The loop's condition, then the request.  On a REQ socket that waits for an
\* answer to another request zmq_send fails.
control_loop(r) ==
  /\ control[r].pc = "loop"
  /\ \/ /\ IsWithinEnd(r, control[r].id) /\ state = "replaying"
        /\ request' = IF request = NoRequest /\ response = None
                      THEN [id |-> control[r].id, new |-> control[r].new] ELSE request
        /\ control' = [control EXCEPT ![r].pc = "reply", ![r].new = FALSE]
        /\ UNCHANGED <<state, images_processed>>
     \/ /\ ~(IsWithinEnd(r, control[r].id) /\ state = "replaying")
        /\ control' = [control EXCEPT ![r].pc = "off"]
        /\ change_state("finishing")
        /\ UNCHANGED request
  /\ UNCHANGED <<response, serving, metadatas, loader, todo, flags, loader_image_id,
                 ring, stream, deaf, control_only>>

control_reply(r) ==
  /\ control[r].pc = "reply" /\ response # None
  /\ response' = None
  /\ \/ /\ response # NoImage
        /\ control' = [control EXCEPT ![r].pc = "wait", ![r].id = response + 1,
                                      ![r].wait_for = response]
        /\ UNCHANGED <<state, images_processed>>
     \/ /\ response = NoImage
        /\ control' = [control EXCEPT ![r].pc = "off"]
        /\ change_state("finishing")
  /\ UNCHANGED <<request, serving, metadatas, loader, todo, flags, loader_image_id,
                 ring, stream, deaf, control_only>>

\* Slip: no wait for the image to be pushed.
control_no_wait(r) ==
  /\ control[r].pc = "wait"
  /\ control' = [control EXCEPT ![r].pc = "loop"]
  /\ UNCHANGED <<reader_vars, state, images_processed, control_only>>

control_wait(r) ==
  /\ control[r].pc = "wait"
  /\ control' = [control EXCEPT ![r].pc =
       IF last_sent_id >= control[r].wait_for THEN "loop" ELSE "window"]
  /\ UNCHANGED <<reader_vars, state, images_processed, control_only>>

control_sleep(r) ==
  /\ control[r].pc = "window"
  /\ control' = [control EXCEPT ![r].pc = "asleep"]
  /\ UNCHANGED <<reader_vars, state, images_processed, control_only>>

-----------------------------------------------------------------------------
(* forward_images.                                                         *)

forward_test(r) ==
  /\ forward[r] = "test"
  /\ \/ /\ state = "replaying"
        /\ forward' = [forward EXCEPT ![r] = "recv"]
        /\ UNCHANGED <<state, images_processed>>
     \/ /\ state # "replaying"
        /\ forward' = [forward EXCEPT ![r] = "off"]
        /\ change_state("finished")
  /\ UNCHANGED <<reader_vars, last_sent_id, settings, control, n_images, monitor,
                 session, started, pushed, stopped, missed>>

\* Slip: nobody is notified.
not_notified(c) == {c}

\* notify_one: one of the threads that are asleep, if any, tests again.
Notified(c) ==
  LET asleep == {r \in Replays : c[r].pc = "asleep"}
  IN  IF asleep = {} THEN {c} ELSE {[c EXCEPT ![r].pc = "wait"] : r \in asleep}

\* A message: pushed to the user if it is within the range, then the control
\* thread is notified.
forward_image(r) ==
  LET id == Head(stream)
  IN  /\ forward[r] = "recv" /\ stream # << >>
      /\ stream' = Tail(stream)
      /\ IF IsWithinEnd(r, id)
         THEN /\ pushed' = Append(pushed, [replay |-> r, id |-> id, data |-> ring[id % n_slots]])
              /\ n_images' = [n_images EXCEPT ![r] = @ + 1]
              /\ images_processed' = n_images'[r]
              /\ last_sent_id' = id
         ELSE UNCHANGED <<pushed, n_images, images_processed, last_sent_id>>
      /\ control' \in Notified(control)
      /\ missed' = (missed \/ \E c \in Replays : control[c].pc = "window")
      /\ forward' = [forward EXCEPT ![r] = "test"]
      /\ UNCHANGED <<request, response, serving, metadatas, loader, todo, flags,
                     loader_image_id, ring, deaf, state, settings, monitor, session,
                     started, stopped>>

\* receive_meta gives up after a second.
forward_timeout(r) ==
  /\ forward[r] = "recv" /\ stream = << >>
  /\ forward' = [forward EXCEPT ![r] = "test"]
  /\ UNCHANGED <<reader_vars, state, images_processed, last_sent_id, settings, control,
                 n_images, monitor, session, started, pushed, stopped, missed>>

-----------------------------------------------------------------------------

Init ==
  /\ ReaderInit
  /\ state = "idle"
  /\ images_processed = 0
  /\ last_sent_id = 0
  /\ settings = [r \in Replays |-> [start |-> 0, end |-> None]]
  /\ control = [r \in Replays |-> [pc |-> "off", id |-> 0, new |-> FALSE, wait_for |-> None]]
  /\ forward = [r \in Replays |-> "off"]
  /\ n_images = [r \in Replays |-> 0]
  /\ monitor = "none"
  /\ session = "off"
  /\ started = 0
  /\ pushed = << >>
  /\ stopped = FALSE
  /\ missed = FALSE

Reader == (Main \/ Loader) /\ UNCHANGED driver_vars

Session ==
  \/ connect \/ disconnect
  \/ \E q \in Requests : start_recording(q)
  \/ close_socket_handler \/ join_again
  \/ stop_recording

Monitor == monitor_read \/ monitor_reset

Control(r) == control_loop(r) \/ control_reply(r) \/ control_wait(r) \/ control_sleep(r)

Forward(r) == forward_test(r) \/ forward_image(r) \/ forward_timeout(r)

Next ==
  \/ Session
  \/ Monitor
  \/ \E r \in Replays : Control(r) \/ Forward(r)
  \/ Reader

Spec == Init /\ [][Next]_vars

\* Every thread that can go on does; the user does what they like.
FairSpec ==
  /\ Spec
  /\ WF_vars(Monitor)
  /\ \A r \in Replays : WF_vars(Control(r)) /\ WF_vars(Forward(r))
  /\ WF_vars(Main /\ UNCHANGED driver_vars)
  /\ WF_vars(Loader /\ UNCHANGED driver_vars)

-----------------------------------------------------------------------------

\* Type correctness of the reader and of the driver.
TypeOK ==
  /\ ReaderTypeOK
  /\ state \in {"idle", "replaying", "finishing", "finished", "stop", "error"}
  /\ images_processed \in 0 .. Len(pushed)
  /\ last_sent_id \in Stored \cup {0}
  /\ \A r \in Replays : settings[r] \in Requests \cup {[start |-> 0, end |-> None]}
  /\ \A r \in Replays :
       control[r].pc \in {"off", "loop", "reply", "wait", "window", "asleep"}
  /\ forward \in [Replays -> {"off", "test", "recv"}]
  /\ monitor \in {"none", "finished"}
  /\ session \in {"off", "open", "joined", "gone"} /\ stopped \in BOOLEAN /\ missed \in BOOLEAN
  /\ started \in 0 .. MaxReplays

PushedBy(r) == SelectSeq(pushed, LAMBDA p : p.replay = r)

\* Every replay pushes the stored images of its range one by one: in order,
\* none twice, and none skipped before one that was pushed.
ReplayedWithoutGaps ==
  \A r \in Replays : \A i \in DOMAIN PushedBy(r) :
    LET p == PushedBy(r)[i]
    IN  /\ p.id \in Stored /\ settings[r].start <= p.id /\ p.id <= settings[r].end
        /\ {q \in Stored : settings[r].start <= q /\ q < p.id}
             = {PushedBy(r)[j].id : j \in 1 .. i - 1}

\* The bytes pushed are those of the image in the header: the loader, which
\* reads a file ahead, does not overwrite a slot before its image is pushed.
\* Stated of the first replay: last_sent_id is never reset, so that a later
\* replay of older images does not wait for them to be pushed.
PushedOwnBytes ==
  \A i \in DOMAIN PushedBy(1) : PushedBy(1)[i].data = PushedBy(1)[i].id

\* A replay that nobody stops comes to an end, unless a notification of
\* forward_images was lost (missed), or the reader never wakes (deaf), or the
\* reader's answer lies beyond the end of the range and is waited for in vain.
ReplayEnds ==
  (state = "replaying") ~>
    \/ state # "replaying"
    \/ missed \/ deaf \/ stopped
    \/ \E r \in Replays : control[r].pc = "asleep" /\ ~IsWithinEnd(r, control[r].wait_for)

=============================================================================
