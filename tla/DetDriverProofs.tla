-------------------------- MODULE DetDriverProofs --------------------------
(***************************************************************************)
(* What holds of the driver and its writers for any number of writers,     *)
(* images and runs.  The first invariant is about the user, the state and  *)
(* the threads: it holds whatever the writers do.  The second one follows  *)
(* every run from the creation of its files to file_saved and says where   *)
(* each image of it is.                                                    *)
(***************************************************************************)
EXTENDS DetDriver, TLAPS

\* One user, who waits for the end of a run before starting another.
SingleUser == Patient /\ \A r, s \in Sessions : r = s

\* Where writers fail or are late there is one run only: what a failed run
\* leaves unread is taken for the answers of the next one.
Orderly ==
  \A c \in Conditions : c.runs <= 1 \/ (c.failures = {} /\ c.slow = {})

-----------------------------------------------------------------------------
(* The user, the state and the threads.                                    *)

Cmds == [do : {"create", "record", "confirm", "close"}, run : Runs, image : Nat]

Files == [run : 0 .. MaxRuns, images : Seq(Runs \X Nat)]

Stages == {"none", "spawned", "create", "record", "receive",
           "confirm", "close", "saved", "failed", "ended"}

Threads == [at : Stages, i : Nat, next : Nat, acked : Nat]

Types ==
  /\ conditions \in Conditions
  /\ state \in driver_state
  /\ thread \in [Runs -> Threads]
  /\ stop \in [in : driver_state \cup {"none"}, since : Nat]
  /\ to_writer \in [Writers -> Seq(Cmds)]
  /\ from_writer \in [Writers -> Seq({"SUCCESS", "FAILURE"})]
  /\ file \in [Writers -> Files]
  /\ saved \in [Writers -> SUBSET Files]
  /\ crashed \subseteq Writers
  /\ exited \subseteq Writers
  /\ monitor \in [Sessions -> {"off", "wait", "final", "joined", "gone"}]
  /\ waiting \in [Sessions -> BOOLEAN]

\* The monitor makes the driver idle only after a run has ended, and until then
\* the user waits.
Told ==
  /\ \A s \in Sessions : monitor[s] = "final" => state \in {"file_saved", "error"}
  /\ \A t \in Runs : Active(t) =>
       /\ state \notin {"file_saved", "error"}
       /\ \A s \in Sessions : waiting[s]

\* A recording that was told to stop stays so: the state is set to recording
\* with the first image only.
Stopped ==
  /\ \A t \in Runs : thread[t].at = "spawned" => state = "idle"
  /\ \A t \in Runs : thread[t].at = "create" => state \in {"creating_file", "stop"}
  /\ \A t \in Runs : thread[t].at \in {"spawned", "create"} => stop.in # "recording"
  /\ \A t \in Runs : thread[t].at \in {"record", "receive"} =>
       /\ state = "recording" => thread[t].i > 0
       /\ stop.in = "recording" =>
            /\ state = "stop" /\ thread[t].i > 0
            /\ thread[t].at = "receive" => stop.since = 0

UInv == Types /\ Told /\ Stopped /\ OneRunAtATime /\ StopEndsRecording

-----------------------------------------------------------------------------
LEMMA TypesInit == Init => Types
<1> SUFFICES ASSUME Init PROVE Types
  OBVIOUS
<1>1. NotStarted \in Threads /\ NoFile \in Files
  BY ConstantsAssumption DEF NotStarted, Threads, Stages, NoFile, Files
<1> QED BY <1>1, ConstantsAssumption DEF Init, Types, NoStop, driver_state

LEMMA GotoType ==
  ASSUME Types, NEW t \in Runs, NEW at \in Stages, thread' = Goto(t, at)
  PROVE  /\ thread' \in [Runs -> Threads]
         /\ thread'[t].at = at /\ thread'[t].i = thread[t].i
         /\ thread'[t].next = 0 /\ thread'[t].acked = 0
         /\ \A u \in Runs : u # t => thread'[u] = thread[u]
<1>1. thread \in [Runs -> Threads] /\ thread[t] \in Threads
  BY Zenon DEF Types
<1> QED BY <1>1, Zenon DEF Goto, Threads

LEMMA CommandType ==
  ASSUME NEW do \in {"create", "record", "confirm", "close"}, NEW t \in Runs, NEW i \in Nat
  PROVE  Command(do, t, i) \in Cmds
BY Zenon DEF Command, Cmds

LEMMA SendType ==
  ASSUME Types, NEW do \in {"create", "record", "confirm", "close"}, NEW t \in Runs,
         send_command_to_all_writers(do, t)
  PROVE  to_writer' \in [Writers -> Seq(Cmds)]
BY CommandType DEF Types, send_command_to_all_writers

\* Reading an answer: it is counted, or passed over when it does not come in
\* time, or it is a FAILURE and ends the loop.
LEMMA AckEffect ==
  ASSUME Types, NEW t \in Runs, ReceiveAck(t)
  PROVE  LET w == thread[t].next
         IN  /\ w \in Writers
             /\ thread' \in [Runs -> Threads]
             /\ from_writer' \in [Writers -> Seq({"SUCCESS", "FAILURE"})]
             /\ \A u \in Runs : u # t => thread'[u] = thread[u]
             /\ thread'[t].at = thread[t].at /\ thread'[t].i = thread[t].i
             /\ \/ /\ from_writer' = from_writer /\ from_writer[w] = << >>
                   /\ thread[t].at \in conditions.slow \/ to_writer[w] = << >> \/ w \in crashed \cup exited
                   /\ thread'[t].next = w + 1 /\ thread'[t].acked = thread[t].acked
                \/ /\ from_writer[w] # << >>
                   /\ from_writer' = [from_writer EXCEPT ![w] = Tail(@)]
                   /\ Head(from_writer[w]) = "FAILURE"
                   /\ thread'[t].next = n_sockets /\ thread'[t].acked = thread[t].acked
                \/ /\ from_writer[w] # << >>
                   /\ from_writer' = [from_writer EXCEPT ![w] = Tail(@)]
                   /\ Head(from_writer[w]) # "FAILURE"
                   /\ thread'[t].next = w + 1 /\ thread'[t].acked = thread[t].acked + 1
<1> DEFINE w == thread[t].next
<1>1. thread \in [Runs -> Threads] /\ thread[t] \in Threads
  BY Zenon DEF Types
<1>2. w \in Nat /\ thread[t].acked \in Nat
  BY <1>1, Zenon DEF Threads
<1>3. w \in Writers
  BY <1>2, ConstantsAssumption DEF ReceiveAck, Writers
<1>4. from_writer \in [Writers -> Seq({"SUCCESS", "FAILURE"})]
  BY Zenon DEF Types
<1>6. CASE AckTimeout(t, w)
  <2>1. thread' = [thread EXCEPT ![t].next = w + 1]
    BY <1>6, Zenon DEF AckTimeout
  <2>2. /\ thread' \in [Runs -> Threads]
        /\ \A u \in Runs : u # t => thread'[u] = thread[u]
        /\ thread'[t].at = thread[t].at /\ thread'[t].i = thread[t].i
        /\ thread'[t].next = w + 1 /\ thread'[t].acked = thread[t].acked
    BY <1>1, <1>2, <2>1 DEF Threads
  <2> QED BY <1>3, <1>4, <1>6, <2>2, Zenon DEF AckTimeout
<1>7. CASE AckReceived(t, w)
  <2>1. from_writer[w] # << >> /\ from_writer' = [from_writer EXCEPT ![w] = Tail(@)]
    BY <1>7, Zenon DEF AckReceived
  <2>2. from_writer' \in [Writers -> Seq({"SUCCESS", "FAILURE"})]
    BY <1>3, <1>4, <2>1
  <2>3. CASE Head(from_writer[w]) = "FAILURE"
    <3>1. thread' = [thread EXCEPT ![t].next = n_sockets]
      BY <1>7, <2>3, Zenon DEF AckReceived
    <3>2. /\ thread' \in [Runs -> Threads]
          /\ \A u \in Runs : u # t => thread'[u] = thread[u]
          /\ thread'[t].at = thread[t].at /\ thread'[t].i = thread[t].i
          /\ thread'[t].next = n_sockets /\ thread'[t].acked = thread[t].acked
      BY <1>1, <3>1, ConstantsAssumption, Zenon DEF Threads
    <3> QED BY <1>3, <2>1, <2>2, <2>3, <3>2, Zenon
  <2>4. CASE Head(from_writer[w]) # "FAILURE"
    <3>1. thread' = [thread EXCEPT ![t].next = w + 1, ![t].acked = @ + 1]
      BY <1>7, <2>4, Zenon DEF AckReceived
    <3>2. /\ thread' \in [Runs -> Threads]
          /\ \A u \in Runs : u # t => thread'[u] = thread[u]
          /\ thread'[t].at = thread[t].at /\ thread'[t].i = thread[t].i
          /\ thread'[t].next = w + 1 /\ thread'[t].acked = thread[t].acked + 1
      BY <1>1, <1>2, <3>1 DEF Threads
    <3> QED BY <1>3, <2>1, <2>2, <2>4, <3>2, Zenon
  <2> QED BY <2>3, <2>4, Zenon
<1> QED BY <1>6, <1>7, Zenon DEF ReceiveAck

LEMMA ImageEffect ==
  ASSUME Types, NEW t \in Runs, ImageReceived(t)
  PROVE  /\ thread' \in [Runs -> Threads]
         /\ \A u \in Runs : u # t => thread'[u] = thread[u]
         /\ thread'[t].at = "record" /\ thread'[t].i = thread[t].i + 1
         /\ thread'[t].next = thread[t].next /\ thread'[t].acked = thread[t].acked
         /\ stop' \in [in : driver_state \cup {"none"}, since : Nat]
         /\ stop'.in = stop.in
         /\ stop.in # "none" => stop'.since = stop.since + 1
<1>1. /\ thread \in [Runs -> Threads] /\ thread[t] \in Threads
      /\ stop \in [in : driver_state \cup {"none"}, since : Nat]
  BY Zenon DEF Types
<1>2. /\ thread' = [thread EXCEPT ![t].at = "record", ![t].i = thread[t].i + 1]
      /\ stop' = IF stop = NoStop THEN stop ELSE [stop EXCEPT !.since = @ + 1]
  BY Zenon DEF ImageReceived
<1>3. stop = NoStop => stop.in = "none"
  BY DEF NoStop
<1> QED BY <1>1, <1>2, <1>3 DEF Threads, Stages

LEMMA StartEffect ==
  ASSUME Types, NEW s \in Sessions, start_recording(s)
  PROVE  \E t \in Runs :
           /\ t <= conditions.runs /\ thread[t].at = "none"
           /\ thread' \in [Runs -> Threads]
           /\ \A u \in Runs : u # t => thread'[u] = thread[u]
           /\ thread'[t].at = "spawned" /\ thread'[t].i = 0
           /\ thread'[t].next = 0 /\ thread'[t].acked = 0
<1>1. PICK t \in Runs : /\ t <= conditions.runs /\ thread[t] = NotStarted
                        /\ thread' = [thread EXCEPT ![t].at = "spawned"]
  BY Zenon DEF start_recording
<1>2. thread \in [Runs -> Threads] /\ thread[t] \in Threads
  BY Zenon DEF Types
<1>3. thread[t].at = "none" /\ thread[t].i = 0 /\ thread[t].next = 0 /\ thread[t].acked = 0
  BY <1>1 DEF NotStarted
<1>4. /\ thread' \in [Runs -> Threads]
      /\ \A u \in Runs : u # t => thread'[u] = thread[u]
      /\ thread'[t].at = "spawned" /\ thread'[t].i = thread[t].i
      /\ thread'[t].next = thread[t].next /\ thread'[t].acked = thread[t].acked
  BY <1>1, <1>2, Zenon DEF Threads, Stages
<1> QED BY <1>1, <1>3, <1>4, Zenon

LEMMA RecordEffect ==
  ASSUME Types, NEW w \in Writers, NEW cmd \in Cmds, record_image(w, cmd)
  PROVE  /\ file' \in [Writers -> Files]
         /\ \A v \in Writers : v # w => file'[v] = file[v]
         /\ file[w].run # 0 =>
              /\ file'[w].run = file[w].run
              /\ file'[w].images = Append(file[w].images, <<cmd.run, cmd.image>>)
              /\ crashed' = crashed
<1>1. file \in [Writers -> Files] /\ file[w] \in Files
  BY Zenon DEF Types
<1>2. <<cmd.run, cmd.image>> \in Runs \X Nat
  BY Zenon DEF Cmds
<1>3. Append(file[w].images, <<cmd.run, cmd.image>>) \in Seq(Runs \X Nat)
  BY <1>1, <1>2 DEF Files
<1>4. file[w].run # 0 => file[w] # NoFile
  BY DEF NoFile
<1> QED BY <1>1, <1>3, <1>4, Zenon DEF record_image, Files

LEMMA TypesThread ==
  ASSUME Types, NEW t \in Runs, RunThread(t)
  PROVE  Types'
<1>1. CASE send_create_file_requests(t)
  BY <1>1, SendType, GotoType, Zenon DEF send_create_file_requests, Types, Stages, change_state,
     driver_state, writers, sessions
<1>2. CASE ReceiveAck(t)
  BY <1>2, AckEffect, Zenon DEF ReceiveAck, Types, manager, writers, sessions
<1>3. CASE FilesCreated(t)
  BY <1>3, GotoType, Zenon DEF FilesCreated, Types, Stages, change_state, driver_state, sockets, writers,
     sessions
<1>4. CASE record_images(t)
  BY <1>4, SendType, GotoType, Zenon DEF record_images, Types, Stages, manager, writers, sessions
<1>5. CASE ImageReceived(t)
  <2>1. thread[t].i \in Nat
    BY Zenon DEF Types, Threads
  <2>2. to_writer' \in [Writers -> Seq(Cmds)]
    BY <1>5, <2>1, CommandType DEF ImageReceived, Types
  <2> QED BY <1>5, <2>2, ImageEffect, Zenon DEF ImageReceived, Types, driver_state, writers, sessions
<1>6. CASE NoImage(t)
  BY <1>6, GotoType, Zenon DEF NoImage, Types, Stages, manager, sockets, writers, sessions
<1>7. CASE DataRecorded(t)
  BY <1>7, SendType, GotoType, Zenon DEF DataRecorded, Types, Stages, change_state, driver_state, manager,
     writers, sessions
<1>8. CASE FilesSaved(t)
  BY <1>8, GotoType, Zenon DEF FilesSaved, Types, Stages, change_state, driver_state, sockets, writers,
     sessions
<1> QED BY <1>1, <1>2, <1>3, <1>4, <1>5, <1>6, <1>7, <1>8, Zenon DEF RunThread

LEMMA TypesWriter ==
  ASSUME Types, NEW w \in Writers, WriterLoop(w)
  PROVE  Types'
<1> DEFINE cmd == Head(to_writer[w])
<1>1. /\ cmd \in Cmds
      /\ to_writer' \in [Writers -> Seq(Cmds)]
      /\ Closed(w) \subseteq Files
      /\ NoFile \in Files
  BY ConstantsAssumption DEF WriterLoop, Types, Closed, NoFile, Files
<1>2. \A code \in {"SUCCESS", "FAILURE"} :
        Respond(w, code) => from_writer' \in [Writers -> Seq({"SUCCESS", "FAILURE"})]
  BY DEF Respond, Types
<1> HIDE DEF cmd
<1>3. CASE cmd.do = "create" /\ create_file(w, cmd) /\ UNCHANGED crashed
  <2>1. [run |-> cmd.run, images |-> << >>] \in Files
    BY <1>1 DEF Cmds, Files, Runs
  <2>2. file' \in [Writers -> Files] /\ saved' \in [Writers -> SUBSET Files]
    <3>1. file \in [Writers -> Files] /\ saved \in [Writers -> SUBSET Files]
      BY Zenon DEF Types
    <3>2. \/ /\ file' = [file EXCEPT ![w] = [run |-> cmd.run, images |-> << >>]]
             /\ saved' = [saved EXCEPT ![w] = Closed(w)]
          \/ UNCHANGED <<file, saved>>
      BY <1>3, Zenon DEF create_file
    <3> QED BY <1>1, <2>1, <3>1, <3>2, Zenon
  <2>3. /\ from_writer' \in [Writers -> Seq({"SUCCESS", "FAILURE"})]
        /\ exited' \subseteq Writers
    BY <1>2, <1>3, Zenon DEF create_file, Types
  <2> QED BY <1>1, <1>3, <2>2, <2>3, Zenon DEF WriterLoop, Types, manager, sessions
<1>4. CASE cmd.do = "record" /\ record_image(w, cmd)
  <2>1. file' \in [Writers -> Files]
    BY <1>1, <1>4, RecordEffect, Zenon
  <2> QED BY <1>1, <1>4, <2>1, Zenon DEF record_image, WriterLoop, Types, manager, sessions
<1>5. CASE cmd.do = "close" /\ close_file(w) /\ UNCHANGED <<crashed, exited>>
  BY <1>1, <1>2, <1>5, Zenon DEF close_file, WriterLoop, Types, manager, sessions
<1>6. CASE cmd.do = "confirm" /\ Respond(w, "SUCCESS") /\ UNCHANGED writers
  BY <1>1, <1>2, <1>6, Zenon DEF WriterLoop, Types, manager, writers, sessions
<1> QED BY <1>3, <1>4, <1>5, <1>6, Zenon DEF WriterLoop, cmd

LEMMA TypesSession ==
  ASSUME Types, NEW s \in Sessions, Session(s)
  PROVE  Types'
<1>1. CASE start_recording(s)
  BY <1>1, StartEffect, Zenon DEF start_recording, Types, NoStop, manager, sockets, writers
<1>2. CASE JoinAgain(s)
  BY <1>2, ZenonT(40) DEF JoinAgain, Types, Threads, Stages, manager, sockets, writers
<1>3. CASE stop_recording(s)
  BY <1>3, Zenon DEF stop_recording, Types, change_state, driver_state, sockets, writers, sessions
<1>4. CASE BackToIdle(s)
  BY <1>4, Zenon DEF BackToIdle, Types, change_state, driver_state, sockets, writers
<1>5. CASE accept_and_process(s) \/ Disconnect(s) \/ close_socket_handler(s) \/ TellEnd(s)
  BY <1>5, Zenon DEF accept_and_process, Disconnect, close_socket_handler, TellEnd, Types, manager,
     sockets, writers
<1> QED BY <1>1, <1>2, <1>3, <1>4, <1>5, Zenon DEF Session

LEMMA TypesNext == Types /\ [Next]_vars => Types'
<1>1. Types /\ UNCHANGED vars => Types'
  BY Zenon DEF Types, vars, manager, sockets, writers, sessions
<1> QED BY <1>1, TypesThread, TypesWriter, TypesSession, Zenon DEF Next

-----------------------------------------------------------------------------
LEMMA UserInit == Init => UInv
<1> SUFFICES ASSUME Init PROVE UInv
  OBVIOUS
<1>1. \A t \in Runs : thread[t].at = "none"
  BY Zenon DEF Init, NotStarted
<1>2. stop.in = "none"
  BY Zenon DEF Init, NoStop
<1> QED BY <1>1, <1>2, TypesInit, Zenon
        DEF Init, UInv, Told, Stopped, OneRunAtATime, StopEndsRecording, Active

\* A step of the thread of a run leaves it the only one that is active.
LEMMA OnlyThread ==
  ASSUME UInv, NEW t \in Runs, Active(t), UNCHANGED sessions,
         \A u \in Runs : u # t => thread'[u] = thread[u],
         state' \in {"file_saved", "error"} => ~Active(t)'
  PROVE  /\ Told' /\ OneRunAtATime'
         /\ \A u \in Runs : u # t => ~Active(u) /\ ~Active(u)'
BY Zenon DEF UInv, Told, OneRunAtATime, Active, sessions

LEMMA UserThread ==
  ASSUME UInv, NEW t \in Runs, RunThread(t)
  PROVE  UInv'
<1> DEFINE r == thread[t]
           q == thread'[t]
<1>1. Types /\ Types'
  BY TypesThread, Zenon DEF UInv
<1>2. stop \in [in : driver_state \cup {"none"}, since : Nat] /\ r.i \in Nat
  BY <1>1, Zenon DEF Types, Threads
<1>3. /\ Told' /\ OneRunAtATime'
      /\ \A u \in Runs : u # t => ~Active(u) /\ ~Active(u)'
  <2>1. CASE send_create_file_requests(t)
    BY <1>1, <2>1, GotoType, OnlyThread, Zenon DEF send_create_file_requests, Stages, Active, change_state
  <2>2. CASE ReceiveAck(t)
    BY <1>1, <2>2, AckEffect, OnlyThread, Zenon DEF ReceiveAck, Active, manager, UInv, Told
  <2>3. CASE FilesCreated(t)
    BY <1>1, <2>3, GotoType, OnlyThread, Zenon DEF FilesCreated, Stages, Active, change_state
  <2>4. CASE record_images(t)
    BY <1>1, <2>4, GotoType, OnlyThread, Zenon DEF record_images, Stages, Active, manager, UInv, Told
  <2>5. CASE ImageReceived(t)
    BY <1>1, <2>5, ImageEffect, OnlyThread, Zenon DEF ImageReceived, Active, UInv, Told
  <2>6. CASE NoImage(t)
    BY <1>1, <2>6, GotoType, OnlyThread, Zenon DEF NoImage, Stages, Active, manager, UInv, Told
  <2>7. CASE DataRecorded(t)
    BY <1>1, <2>7, GotoType, OnlyThread, Zenon DEF DataRecorded, Stages, Active, change_state, manager, UInv, Told
  <2>8. CASE FilesSaved(t)
    BY <1>1, <2>8, GotoType, OnlyThread, Zenon DEF FilesSaved, Stages, Active, change_state
  <2> QED BY <2>1, <2>2, <2>3, <2>4, <2>5, <2>6, <2>7, <2>8, Zenon DEF RunThread
<1>4. Stopped' /\ StopEndsRecording'
  <2>0. \A u \in Runs : u # t =>
          thread'[u].at \notin {"spawned", "create", "record", "receive"}
    BY <1>3, Zenon DEF Active
  <2>1. CASE send_create_file_requests(t)
    BY <1>1, <1>2, <2>0, <2>1, GotoType, Zenon
       DEF send_create_file_requests, Stages, UInv, Stopped, StopEndsRecording, change_state
  <2>2. CASE ReceiveAck(t)
    BY <1>1, <1>2, <2>0, <2>2, AckEffect DEF ReceiveAck, UInv, Stopped, StopEndsRecording, manager
  <2>3. CASE FilesCreated(t)
    BY <1>1, <1>2, <2>0, <2>3, GotoType, Zenon
       DEF FilesCreated, Stages, UInv, Stopped, StopEndsRecording, change_state
  <2>4. CASE record_images(t)
    BY <1>1, <1>2, <2>0, <2>4, GotoType
       DEF record_images, Stages, UInv, Stopped, StopEndsRecording, manager, is_recording
  <2>5. CASE ImageReceived(t)
    <3>1. /\ state' = IF r.i = 0 THEN "recording" ELSE state
          /\ r.at = "receive" /\ q.at = "record" /\ q.i = r.i + 1
          /\ stop'.in = stop.in /\ (stop.in # "none" => stop'.since = stop.since + 1)
      BY <1>1, <2>5, ImageEffect, Zenon DEF ImageReceived
    <3>2. stop.in = "recording" => state = "stop" /\ r.i > 0 /\ stop.since = 0
      BY <3>1, Zenon DEF UInv, Stopped
    <3> QED BY <1>2, <2>0, <3>1, <3>2 DEF Stopped, StopEndsRecording
  <2>6. CASE NoImage(t)
    BY <1>1, <1>2, <2>0, <2>6, GotoType
       DEF NoImage, Stages, UInv, Stopped, StopEndsRecording, manager
  <2>7. CASE DataRecorded(t)
    BY <1>1, <1>2, <2>0, <2>7, GotoType, Zenon
       DEF DataRecorded, Stages, UInv, Stopped, StopEndsRecording, change_state, manager
  <2>8. CASE FilesSaved(t)
    BY <1>1, <1>2, <2>0, <2>8, GotoType, Zenon
       DEF FilesSaved, Stages, UInv, Stopped, StopEndsRecording, change_state
  <2> QED BY <2>1, <2>2, <2>3, <2>4, <2>5, <2>6, <2>7, <2>8, Zenon DEF RunThread
<1> QED BY <1>1, <1>3, <1>4, Zenon DEF UInv

LEMMA UserWriter ==
  ASSUME UInv, NEW w \in Writers, WriterLoop(w)
  PROVE  UInv'
<1>1. Types'
  BY TypesWriter, Zenon DEF UInv
<1>2. UNCHANGED <<state, thread, stop, monitor, waiting>>
  BY Zenon DEF WriterLoop, manager, sessions
<1> QED BY <1>1, <1>2, Zenon DEF UInv, Told, Stopped, OneRunAtATime, StopEndsRecording, Active

LEMMA UserSession ==
  ASSUME SingleUser, UInv, NEW s \in Sessions, Session(s)
  PROVE  UInv'
<1>1. Types /\ Types'
  BY TypesSession, Zenon DEF UInv
<1>2. stop \in [in : driver_state \cup {"none"}, since : Nat]
  BY <1>1, Zenon DEF Types
<1>3. Sessions = {s}
  BY Zenon DEF SingleUser
<1>4. CASE start_recording(s)
  <2>1. PICK t \in Runs :
          /\ \A u \in Runs : u # t => thread'[u] = thread[u]
          /\ thread'[t].at = "spawned" /\ thread'[t].i = 0
    BY <1>1, <1>4, StartEffect, Zenon
  <2>2. \A u \in Runs : ~Active(u)
    BY <1>4, Zenon DEF start_recording, UInv, Told, SingleUser
  <2>3. \A u \in Runs : u # t => ~Active(u)'
    BY <2>1, <2>2, Zenon DEF Active
  <2>4. /\ state = "idle" /\ state' = "idle" /\ stop'.in = "none"
        /\ monitor' = monitor /\ monitor[s] # "final" /\ waiting'[s]
    BY <1>1, <1>4, Zenon DEF start_recording, manager, NoStop, UInv, Told, Types
  <2>5. \A u \in Runs : u # t =>
          thread'[u].at \notin {"spawned", "create", "record", "receive"}
    BY <2>3, Zenon DEF Active
  <2>6. Told' /\ OneRunAtATime'
    BY <1>3, <2>3, <2>4, Zenon DEF Told, OneRunAtATime
  <2> QED BY <1>1, <2>1, <2>4, <2>5, <2>6, Zenon DEF UInv, Stopped, StopEndsRecording
<1>5. CASE JoinAgain(s)
  <2>1. \A u \in Runs : ~Active(u)'
    BY <1>1, <1>5 DEF JoinAgain, Active, Types, Threads
  <2>2. \A u \in Runs : thread'[u].at \notin {"spawned", "create", "record", "receive"}
    BY <2>1, Zenon DEF Active
  <2>3. /\ monitor'[s] = "gone" /\ stop' = stop
    BY <1>5, Zenon DEF JoinAgain
  <2> QED BY <1>1, <1>3, <2>1, <2>2, <2>3, Zenon
          DEF UInv, Told, Stopped, OneRunAtATime, StopEndsRecording
<1>6. CASE stop_recording(s)
  <2>1. /\ thread' = thread /\ monitor' = monitor /\ waiting' = waiting
        /\ state \in {"recording", "waiting_for_first_image", "creating_file"}
        /\ state' = "stop" /\ stop'.in = state /\ stop'.since = 0
    BY <1>6, Zenon DEF stop_recording, sessions, is_recording, change_state
  <2> QED BY <1>1, <2>1 DEF UInv, Told, Stopped, OneRunAtATime, StopEndsRecording, Active
<1>7. CASE BackToIdle(s)
  <2>1. \A u \in Runs : ~Active(u)
    BY <1>7, Zenon DEF BackToIdle, UInv, Told
  <2>2. /\ thread' = thread /\ stop' = stop /\ waiting' = waiting
        /\ monitor'[s] = "wait"
    BY <1>1, <1>7, Zenon DEF BackToIdle, Types
  <2>3. \A u \in Runs : ~Active(u)'
    BY <2>1, <2>2, Zenon DEF Active
  <2>4. \A u \in Runs : thread'[u].at \notin {"spawned", "create", "record", "receive"}
    BY <2>3 DEF Active
  <2> QED BY <1>1, <1>3, <2>2, <2>3, <2>4, Zenon
          DEF UInv, Told, Stopped, OneRunAtATime, StopEndsRecording
<1>8. CASE TellEnd(s)
  <2>1. \A u \in Runs : ~Active(u)
    BY <1>8, Zenon DEF TellEnd, UInv, Told
  <2>2. /\ thread' = thread /\ stop' = stop /\ state' = state
        /\ state \in {"file_saved", "error"}
    BY <1>8, Zenon DEF TellEnd, manager
  <2>3. \A u \in Runs : ~Active(u)'
    BY <2>1, <2>2, Zenon DEF Active
  <2>4. \A u \in Runs : thread'[u].at \notin {"spawned", "create", "record", "receive"}
    BY <2>3 DEF Active
  <2> QED BY <1>1, <1>3, <2>2, <2>3, <2>4, Zenon
          DEF UInv, Told, Stopped, OneRunAtATime, StopEndsRecording
<1>9. CASE accept_and_process(s) \/ Disconnect(s) \/ close_socket_handler(s)
  <2>1. /\ thread' = thread /\ stop' = stop /\ state' = state /\ waiting' = waiting
        /\ monitor'[s] # "final"
    BY <1>1, <1>9, Zenon DEF accept_and_process, Disconnect, close_socket_handler, manager, Types
  <2> QED BY <1>1, <1>3, <2>1
          DEF UInv, Told, Stopped, OneRunAtATime, StopEndsRecording, Active
<1> QED BY <1>4, <1>5, <1>6, <1>7, <1>8, <1>9, Zenon DEF Session

LEMMA UserInvariance ==
  ASSUME SingleUser PROVE Spec => []UInv
<1>1. UInv /\ [Next]_vars => UInv'
  <2>1. UInv /\ UNCHANGED vars => UInv'
    BY TypesNext, Zenon DEF UInv, vars, manager, sessions, Told, Stopped, OneRunAtATime,
       StopEndsRecording, Active
  <2> QED BY <2>1, UserThread, UserWriter, UserSession, Zenon DEF Next
<1> QED BY <1>1, UserInit, PTL DEF Spec

\* While a run is active no other one is started, for any number of writers,
\* images and runs and whatever fails, as long as there is one user and the
\* user waits for the end of a run.
THEOREM RunsDoNotOverlap ==
  ASSUME SingleUser PROVE Spec => []OneRunAtATime
<1>1. UInv => OneRunAtATime
  BY Zenon DEF UInv
<1> QED BY <1>1, UserInvariance, PTL

\* A stop of a running recording lets at most one more image through.
THEOREM StopIsPrompt ==
  ASSUME SingleUser PROVE Spec => []StopEndsRecording
<1>1. UInv => StopEndsRecording
  BY Zenon DEF UInv
<1> QED BY <1>1, UserInvariance, PTL

-----------------------------------------------------------------------------
(* The files of a run.                                                     *)

\* A writer gets every Stride(w)-th image, the first one being Offset(w).
Stride(w) ==
  IF ~with_metadata_writer THEN n_sockets ELSE IF w = 0 THEN 1 ELSE n_sockets - 1

Offset(w) ==
  IF ~with_metadata_writer THEN w ELSE IF w = 0 THEN 0 ELSE w - 1

Nth(w, k) == (k - 1) * Stride(w) + Offset(w)

\* Of the first i images, n are for writer w.
Share(w, n, i) == Nth(w, n + 1) >= i /\ (n > 0 => Nth(w, n) < i)

\* The images of a file are the first ones of the writer's share, in order.
Holds(w, t, g) == \A k \in DOMAIN g : g[k] = <<t, Nth(w, k)>>

Opened(w, t) == file[w].run = t /\ Holds(w, t, file[w].images)

Written(w) == Len(file[w].images)

\* The first n commands that wait for a writer are for the images that follow
\* the ones it has written.
Asked(w, t, n) ==
  \A k \in 1 .. n : to_writer[w][k] = Command("record", t, Nth(w, Written(w) + k))

\* All answers read so far in this phase were SUCCESS.
Good(t) == thread[t].acked = thread[t].next

Calm == conditions.failures = {} /\ conditions.slow = {}

\* No command or answer is under way.
Quiet == exited = {} /\ \A w \in Writers : to_writer[w] = << >> /\ from_writer[w] = << >>

\* What a writer that has done what it was asked has answered: nothing more
\* once its answer was read.
Answered(w, t) == from_writer[w] = IF w < thread[t].next THEN << >> ELSE <<"SUCCESS">>

\* A writer in each phase of a run: what it is asked for, what it has written
\* and what it has answered.  After an answer that is missing or a FAILURE the
\* run can only fail, and little is said of its writers.
Creating(w, t) ==
  /\ to_writer[w] \in {<< >>, <<Command("create", t, 0)>>}
  /\ Good(t) =>
       \/ /\ to_writer[w] = << >> /\ w \notin exited
          /\ file[w] = [run |-> t, images |-> << >>]
          /\ Answered(w, t)
       \/ /\ w >= thread[t].next
          /\ to_writer[w] = <<Command("create", t, 0)>> /\ from_writer[w] = << >>
          /\ w \notin exited
       \/ /\ w >= thread[t].next /\ ~Calm
          /\ to_writer[w] = << >> /\ from_writer[w] \in {<< >>, <<"FAILURE">>}

Recording(w, t) ==
  /\ from_writer[w] = << >>
  /\ Opened(w, t)
  /\ Asked(w, t, Len(to_writer[w]))
  /\ Share(w, Written(w) + Len(to_writer[w]), thread[t].i)

Confirming(w, t) ==
  /\ Opened(w, t)
  /\ \/ /\ to_writer[w] = << >>
        /\ Share(w, Written(w), thread[t].i)
        /\ Good(t) => Answered(w, t)
     \/ /\ to_writer[w] # << >>
        /\ to_writer[w][Len(to_writer[w])] = Command("confirm", t, 0)
        /\ Asked(w, t, Len(to_writer[w]) - 1)
        /\ Share(w, Written(w) + Len(to_writer[w]) - 1, thread[t].i)
        /\ from_writer[w] = << >>
        /\ Good(t) => w >= thread[t].next

\* A closed file with all images of the run that are for this writer.
SavedFile(w, t) ==
  \E g \in saved[w] :
    /\ g.run = t /\ Holds(w, t, g.images) /\ Share(w, Len(g.images), thread[t].i)

Closing(w, t) ==
  \/ /\ to_writer[w] = << >>
     /\ SavedFile(w, t)
     /\ Good(t) => Answered(w, t)
  \/ /\ to_writer[w] = <<Command("close", t, 0)>> /\ from_writer[w] = << >>
     /\ Opened(w, t)
     /\ Share(w, Written(w), thread[t].i)
     /\ Good(t) => w >= thread[t].next

Locals ==
  \A t \in Runs :
    /\ thread[t].at # "none" => t <= conditions.runs
    /\ thread[t].at \in {"spawned", "create"} => thread[t].i = 0
    /\ thread[t].acked <= thread[t].next
    /\ thread[t].at \in {"spawned", "record", "receive"} => Good(t)
    /\ Active(t) /\ Calm => Good(t)

Progress ==
  \A t \in Runs :
    /\ thread[t].at = "spawned" => Quiet
    /\ thread[t].at = "create" => \A w \in Writers : Creating(w, t)
    /\ thread[t].at \in {"record", "receive"} => \A w \in Writers : Recording(w, t)
    /\ thread[t].at = "confirm" => \A w \in Writers : Confirming(w, t)
    /\ thread[t].at = "close" => \A w \in Writers : Closing(w, t)
    /\ thread[t].at \in {"record", "receive", "confirm", "close"} => exited = {}
    /\ thread[t].at = "saved" => \A w \in Writers : SavedFile(w, t)

\* Nothing is left of a run that has ended well.
Between ==
  /\ (\A t \in Runs : thread[t].at = "none") => Quiet
  /\ Calm /\ (\A t \in Runs : ~Active(t)) /\ (\A s \in Sessions : monitor[s] # "gone") => Quiet
  /\ Calm => exited = {}

\* Images are only written to a file that is open, and nothing that could close
\* it comes before them.
RecordsHaveFile ==
  \A w \in Writers : \A k \in DOMAIN to_writer[w] :
    to_writer[w][k].do = "record" =>
      /\ file[w].run # 0
      /\ \A l \in 1 .. k : to_writer[w][l].do = "record"

PInv == Locals /\ Progress /\ Between /\ RecordsHaveFile /\ NoWriteWithoutFile

-----------------------------------------------------------------------------
LEMMA ProductMonotone ==
  ASSUME NEW S \in Nat, NEW a \in Int, NEW b \in Int, a <= b
  PROVE  a * S <= b * S
OBVIOUS

LEMMA ProductNext ==
  ASSUME NEW S \in Nat, NEW a \in Int
  PROVE  (a + 1) * S = a * S + S
OBVIOUS

LEMMA DivMod ==
  ASSUME NEW S \in Nat \ {0}, NEW i \in Nat
  PROVE  /\ i \div S \in Nat /\ i % S \in 0 .. S - 1
         /\ i = (i \div S) * S + (i % S)
OBVIOUS

\* Quotient and remainder order the numbers, and are unique.
LEMMA QuotientOrder ==
  ASSUME NEW S \in Nat \ {0}, NEW o \in 0 .. S - 1, NEW p \in 0 .. S - 1,
         NEW a \in Int, NEW b \in Int, a * S + o <= b * S + p
  PROVE  a <= b /\ (a * S + o = b * S + p => a = b /\ o = p)
<1>1. a <= b
  <2> SUFFICES ASSUME b + 1 <= a PROVE FALSE
    OBVIOUS
  <2>1. (b + 1) * S <= a * S
    BY ProductMonotone
  <2>2. (b + 1) * S = b * S + S
    BY ProductNext, Zenon
  <2> QED BY <2>1, <2>2
<1>2. ASSUME a * S + o = b * S + p PROVE a = b
  <2> SUFFICES ASSUME a + 1 <= b PROVE FALSE
    BY <1>1
  <2>1. (a + 1) * S <= b * S
    BY ProductMonotone
  <2>2. (a + 1) * S = a * S + S
    BY ProductNext, Zenon
  <2> QED BY <1>2, <2>1, <2>2
<1> QED BY <1>1, <1>2

LEMMA StrideType ==
  ASSUME NEW w \in Writers
  PROVE  Stride(w) \in Nat \ {0} /\ Offset(w) \in 0 .. Stride(w) - 1
BY ConstantsAssumption DEF Writers, Stride, Offset

LEMMA NthType ==
  ASSUME NEW w \in Writers, NEW k \in Int
  PROVE  /\ Nth(w, k) \in Int
         /\ k >= 1 => Nth(w, k) \in Nat
         /\ Nth(w, k + 1) = Nth(w, k) + Stride(w)
<1> DEFINE S == Stride(w)
<1>1. S \in Nat \ {0} /\ Offset(w) \in 0 .. S - 1
  BY StrideType, Zenon
<1> HIDE DEF S
<1>2. (k - 1) * S \in Int
  BY <1>1
<1>3. k >= 1 => (k - 1) * S >= 0
  BY <1>1, ProductMonotone
<1>4. ((k - 1) + 1) * S = (k - 1) * S + S
  BY <1>1, ProductNext
<1>5. (k + 1) - 1 = (k - 1) + 1
  OBVIOUS
<1> QED BY <1>1, <1>2, <1>3, <1>4, <1>5 DEF Nth, S

\* The writers that an image goes to, by the remainder of its number.
LEMMA ReceiversOf ==
  ASSUME NEW w \in Writers, NEW i \in Nat
  PROVE  w \in Receivers(i) <=> i % Stride(w) = Offset(w)
<1>1. i % 1 = 0
  OBVIOUS
<1>2. CASE with_metadata_writer
  <2>1. i % (n_sockets - 1) \in Nat
    BY <1>2, ConstantsAssumption
  <2> QED BY <1>1, <1>2, <2>1, ConstantsAssumption
          DEF Receivers, get_current_writer_index, Stride, Offset, Writers
<1>3. CASE ~with_metadata_writer
  BY <1>3, ConstantsAssumption, Zenon DEF Receivers, get_current_writer_index, Stride, Offset, Writers
<1> QED BY <1>2, <1>3, Zenon

LEMMA ShareStart ==
  ASSUME NEW w \in Writers
  PROVE  Share(w, 0, 0)
BY NthType DEF Share

\* The next image of a writer's share is the one it is sent.
LEMMA ShareTaken ==
  ASSUME NEW w \in Writers, NEW n \in Nat, NEW i \in Nat, Share(w, n, i), w \in Receivers(i)
  PROVE  Nth(w, n + 1) = i /\ Share(w, n + 1, i + 1)
<1> DEFINE S == Stride(w)
           q == i \div S
<1>1. S \in Nat \ {0} /\ Offset(w) \in 0 .. S - 1
  BY StrideType, Zenon
<1>2. q \in Nat /\ i = q * S + Offset(w)
  BY <1>1, DivMod, ReceiversOf, Zenon
<1> HIDE DEF S, q
<1>3. i <= n * S + Offset(w)
  BY DEF Share, Nth, S
<1>4. q <= n
  BY <1>1, <1>2, <1>3, QuotientOrder
<1>5. n > 0 => n <= q
  <2> SUFFICES ASSUME n > 0 PROVE n <= q
    OBVIOUS
  <2>1. (n - 1) * S + Offset(w) < q * S + Offset(w)
    BY <1>2, Zenon DEF Share, Nth, S
  <2>2. n - 1 <= q
    BY <1>1, <1>2, <2>1, QuotientOrder, (n - 1) * S \in Int, q * S \in Int
  <2> QED BY <1>2, <2>1, <2>2
<1>6. Nth(w, n + 1) = i
  <2>1. q = n
    BY <1>2, <1>4, <1>5
  <2> QED BY <1>2, <2>1 DEF Nth, S
<1>7. Nth(w, (n + 1) + 1) = i + S
  BY <1>6, NthType DEF S
<1> QED BY <1>1, <1>6, <1>7 DEF Share

\* An image that is not for a writer leaves its share as it was.
LEMMA ShareLeft ==
  ASSUME NEW w \in Writers, NEW n \in Nat, NEW i \in Nat, Share(w, n, i), w \notin Receivers(i)
  PROVE  Share(w, n, i + 1)
<1> DEFINE S == Stride(w)
           q == i \div S
           p == i % S
<1>1. S \in Nat \ {0} /\ Offset(w) \in 0 .. S - 1
  BY StrideType, Zenon
<1>2. q \in Nat /\ p \in 0 .. S - 1 /\ i = q * S + p /\ p # Offset(w)
  BY <1>1, DivMod, ReceiversOf, Zenon
<1> HIDE DEF S, q, p
<1>3. Nth(w, n + 1) = n * S + Offset(w) /\ n * S + Offset(w) \in Int
  BY <1>1 DEF Nth, S
<1>4. Nth(w, n + 1) # i
  <2> SUFFICES ASSUME n * S + Offset(w) = q * S + p PROVE FALSE
    BY <1>2, <1>3, Zenon
  <2>1. n * S + Offset(w) <= q * S + p
    BY <1>3
  <2>2. n \in Int /\ q \in Int /\ p \in 0 .. S - 1
    BY <1>2
  <2>3. n * S + Offset(w) = q * S + p => n = q /\ Offset(w) = p
    BY <1>1, <2>1, <2>2, QuotientOrder
  <2> QED BY <1>2, <2>3, Zenon
<1>5. n > 0 => Nth(w, n) \in Int
  BY NthType
<1> QED BY <1>3, <1>4, <1>5 DEF Share

-----------------------------------------------------------------------------
LEMMA FieldTypes ==
  ASSUME Types
  PROVE  /\ \A t \in Runs : /\ thread[t].i \in Nat /\ thread[t].next \in Nat
                            /\ thread[t].acked \in Nat
         /\ \A w \in Writers :
              /\ to_writer[w] \in Seq(Cmds) /\ Len(to_writer[w]) \in Nat
              /\ file[w].images \in Seq(Runs \X Nat) /\ Written(w) \in Nat
              /\ from_writer[w] \in Seq({"SUCCESS", "FAILURE"})
         /\ \A w \in Writers : w \in Nat
<1>1. \A t \in Runs : thread[t] \in Threads
  BY Zenon DEF Types
<1>2. \A w \in Writers : /\ to_writer[w] \in Seq(Cmds) /\ file[w] \in Files
                         /\ from_writer[w] \in Seq({"SUCCESS", "FAILURE"})
  BY Zenon DEF Types
<1>3. \A w \in Writers : file[w].images \in Seq(Runs \X Nat)
  BY <1>2, Zenon DEF Files
<1> QED BY <1>1, <1>2, <1>3 DEF Threads, Written, Writers

\* A loop over the answers that has read them all has counted them all only
\* if every answer read last was counted.
LEMMA AckGood ==
  ASSUME Types, Locals, NEW t \in Runs, ReceiveAck(t)
  PROVE  LET w == thread[t].next
         IN  /\ thread'[t].acked <= thread'[t].next
             /\ Good(t)' => /\ Good(t) /\ from_writer[w] # << >>
                            /\ from_writer' = [from_writer EXCEPT ![w] = Tail(@)]
                            /\ Head(from_writer[w]) # "FAILURE"
                            /\ thread'[t].next = w + 1
             /\ Good(t) /\ from_writer[w] = <<"SUCCESS">> => Good(t)'
<1> DEFINE w == thread[t].next
<1>1. /\ w \in Nat /\ thread[t].acked \in Nat /\ thread[t].acked <= w /\ w < n_sockets
      /\ n_sockets \in Nat
  BY FieldTypes, ConstantsAssumption, Zenon DEF Locals, ReceiveAck
<1>2. \/ /\ from_writer[w] = << >>
         /\ thread'[t].next = w + 1 /\ thread'[t].acked = thread[t].acked
      \/ /\ Head(from_writer[w]) = "FAILURE"
         /\ thread'[t].next = n_sockets /\ thread'[t].acked = thread[t].acked
      \/ /\ from_writer[w] # << >>
         /\ from_writer' = [from_writer EXCEPT ![w] = Tail(@)]
         /\ Head(from_writer[w]) # "FAILURE"
         /\ thread'[t].next = w + 1 /\ thread'[t].acked = thread[t].acked + 1
  BY AckEffect, Zenon
<1>3. from_writer[w] = <<"SUCCESS">> =>
        from_writer[w] # << >> /\ Head(from_writer[w]) # "FAILURE"
  OBVIOUS
<1> QED BY <1>1, <1>2, <1>3 DEF Good

\* Nobody answers FAILURE and nobody is late when nothing goes wrong.
LEMMA AckCalm ==
  ASSUME UInv, PInv, NEW t \in Runs, ReceiveAck(t), Calm
  PROVE  Good(t)'
<1> DEFINE w == thread[t].next
<1>1. w \in Writers /\ w \in Nat
  BY AckEffect, FieldTypes, Zenon DEF UInv
<1>2. Good(t) /\ exited = {} /\ crashed = {} /\ conditions.slow = {}
  BY Zenon DEF PInv, Locals, Between, NoWriteWithoutFile, Calm, Active, ReceiveAck
<1>3. Types /\ Locals
  BY Zenon DEF UInv, PInv
<1>4. thread[t].at \in {"create", "confirm", "close"}
  BY Zenon DEF ReceiveAck
<1>5. \/ from_writer[w] = <<"SUCCESS">>
      \/ from_writer[w] = << >> /\ to_writer[w] # << >>
  <2>1. CASE thread[t].at = "create"
    <3>1. Creating(w, t)
      BY <1>1, <2>1, Zenon DEF PInv, Progress
    <3> QED BY <1>1, <1>2, <3>1 DEF Creating, Answered
  <2>2. CASE thread[t].at = "confirm"
    <3>1. Confirming(w, t)
      BY <1>1, <2>2, Zenon DEF PInv, Progress
    <3> QED BY <1>1, <1>2, <3>1 DEF Confirming, Answered
  <2>3. CASE thread[t].at = "close"
    <3>1. Closing(w, t)
      BY <1>1, <2>3, Zenon DEF PInv, Progress
    <3> QED BY <1>1, <1>2, <3>1 DEF Closing, Answered
  <2> QED BY <1>4, <2>1, <2>2, <2>3, Zenon
<1>6. from_writer[w] = <<"SUCCESS">>
  BY <1>2, <1>3, <1>5, AckEffect, Zenon
<1> QED BY <1>2, <1>3, <1>6, AckGood, Zenon

\* The answer of the writer whose turn it is has been read, and those of the
\* others are as they were.
LEMMA AckAnswered ==
  ASSUME UInv, PInv, NEW t \in Runs, ReceiveAck(t), Good(t)', NEW w \in Writers
  PROVE  /\ Answered(w, t) => Answered(w, t)'
         /\ w # thread[t].next => from_writer'[w] = from_writer[w]
         /\ w # thread[t].next /\ w >= thread[t].next => w >= thread'[t].next
         /\ w = thread[t].next => from_writer[w] # << >> /\ from_writer[w] # <<"FAILURE">>
<1> DEFINE x == thread[t].next
<1>1. Types /\ Locals /\ x \in Nat /\ x \in Writers /\ w \in Nat
  BY FieldTypes, AckEffect, Zenon DEF UInv, PInv
<1>2. /\ from_writer[x] # << >>
      /\ from_writer' = [from_writer EXCEPT ![x] = Tail(@)]
      /\ Head(from_writer[x]) # "FAILURE"
      /\ thread'[t].next = x + 1
  BY <1>1, AckGood, Zenon
<1>3. from_writer \in [Writers -> Seq({"SUCCESS", "FAILURE"})]
  BY <1>1, Zenon DEF Types
<1>4. CASE w = x
  <2>1. from_writer[w] = <<"SUCCESS">> => from_writer'[w] = << >>
    BY <1>1, <1>2, <1>3, <1>4
  <2>2. from_writer[w] # <<"FAILURE">>
    BY <1>2, <1>4
  <2>3. Answered(w, t) => from_writer[w] = <<"SUCCESS">>
    BY <1>1, <1>4 DEF Answered
  <2>4. from_writer'[w] = << >> => Answered(w, t)'
    <3>1. w < thread'[t].next
      BY <1>1, <1>2, <1>4
    <3> QED BY <3>1, Zenon DEF Answered
  <2> QED BY <1>2, <1>4, <2>1, <2>2, <2>3, <2>4, Zenon
<1>5. CASE w # x
  BY <1>1, <1>2, <1>3, <1>5 DEF Answered
<1> QED BY <1>4, <1>5, Zenon

LEMMA CreatingAck ==
  ASSUME UInv, PInv, NEW t \in Runs, ReceiveAck(t), thread[t].at = "create", NEW w \in Writers
  PROVE  Creating(w, t)'
<1>1. Creating(w, t) /\ UNCHANGED <<conditions, to_writer, file, exited>>
  BY Zenon DEF PInv, Progress, ReceiveAck, writers
<1>2. CASE ~Good(t)'
  BY <1>1, <1>2, Zenon DEF Creating
<1>3. CASE Good(t)'
  <2>1. Good(t)
    BY <1>3, AckGood, Zenon DEF UInv, PInv
  <2> QED BY <1>1, <1>3, <2>1, AckAnswered, Zenon DEF Creating, Calm
<1> QED BY <1>2, <1>3, Zenon

LEMMA ConfirmingAck ==
  ASSUME UInv, PInv, NEW t \in Runs, ReceiveAck(t), thread[t].at = "confirm", NEW w \in Writers
  PROVE  Confirming(w, t)'
<1>1. Confirming(w, t) /\ UNCHANGED <<to_writer, file>> /\ thread'[t].i = thread[t].i
  BY AckEffect, Zenon DEF UInv, PInv, Progress, ReceiveAck, writers
<1>2. from_writer[w] = << >> => from_writer'[w] = << >>
  BY AckEffect, Zenon DEF UInv, Types
<1>3. Good(t)' => /\ Good(t)
                  /\ Answered(w, t) => Answered(w, t)'
                  /\ from_writer[w] = << >> /\ w >= thread[t].next => w >= thread'[t].next
  BY AckGood, AckAnswered, Zenon DEF UInv, PInv
<1> QED BY <1>1, <1>2, <1>3, Zenon DEF Confirming, Opened, Asked, Written

LEMMA ClosingAck ==
  ASSUME UInv, PInv, NEW t \in Runs, ReceiveAck(t), thread[t].at = "close", NEW w \in Writers
  PROVE  Closing(w, t)'
<1>1. Closing(w, t) /\ UNCHANGED <<to_writer, file, saved>> /\ thread'[t].i = thread[t].i
  BY AckEffect, Zenon DEF UInv, PInv, Progress, ReceiveAck, writers
<1>2. from_writer[w] = << >> => from_writer'[w] = << >>
  BY AckEffect, Zenon DEF UInv, Types
<1>3. Good(t)' => /\ Good(t)
                  /\ Answered(w, t) => Answered(w, t)'
                  /\ from_writer[w] = << >> /\ w >= thread[t].next => w >= thread'[t].next
  BY AckGood, AckAnswered, Zenon DEF UInv, PInv
<1>4. SavedFile(w, t) => SavedFile(w, t)'
  BY <1>1, Zenon DEF SavedFile
<1> QED BY <1>1, <1>2, <1>3, <1>4, Zenon DEF Closing, Opened, Written

\* A command added to what a writer has not read yet.
LEMMA Appended ==
  ASSUME Types, NEW w \in Writers, NEW c \in Cmds, to_writer'[w] = Append(to_writer[w], c)
  PROVE  /\ Len(to_writer'[w]) = Len(to_writer[w]) + 1
         /\ to_writer'[w][Len(to_writer[w]) + 1] = c
         /\ \A k \in 1 .. Len(to_writer[w]) : to_writer'[w][k] = to_writer[w][k]
         /\ to_writer'[w] # << >>
         /\ to_writer[w] = << >> => to_writer'[w] = <<c>>
<1>1. to_writer[w] \in Seq(Cmds)
  BY Zenon DEF Types
<1>2. to_writer[w] = << >> => to_writer'[w] = <<c>>
  BY Append(<< >>, c) = <<c>>, Zenon
<1>3. Len(to_writer'[w]) = Len(to_writer[w]) + 1 /\ to_writer'[w] \in Seq(Cmds)
  BY <1>1
<1>4. to_writer'[w] # << >>
  BY <1>1, <1>3
<1> QED BY <1>1, <1>2, <1>3, <1>4

LEMMA CreatingStart ==
  ASSUME UInv, PInv, NEW t \in Runs, send_create_file_requests(t), NEW w \in Writers
  PROVE  Creating(w, t)'
<1>1. /\ Quiet
      /\ to_writer'[w] = Append(to_writer[w], Command("create", t, 0))
      /\ UNCHANGED <<from_writer, exited>>
      /\ thread' = Goto(t, "create")
  BY Zenon DEF PInv, Progress, send_create_file_requests, send_command_to_all_writers, writers
<1>2. thread'[t].next = 0 /\ w >= 0
  BY <1>1, GotoType DEF UInv, Stages, Writers
<1>3. to_writer'[w] = <<Command("create", t, 0)>>
  BY <1>1, CommandType, Appended, ZenonT(40) DEF UInv, Quiet
<1> QED BY <1>1, <1>2, <1>3, Zenon DEF Creating, Quiet

LEMMA RecordingStart ==
  ASSUME UInv, PInv, NEW t \in Runs, FilesCreated(t), did_all_writers_acknowledge(t),
         NEW w \in Writers
  PROVE  Recording(w, t)' /\ w \notin exited
<1>1. /\ Creating(w, t) /\ thread[t].i = 0
      /\ thread[t].next = n_sockets /\ thread[t].acked = n_sockets
      /\ UNCHANGED <<to_writer, from_writer, file>>
      /\ thread' = Goto(t, "record")
  BY Zenon DEF PInv, Progress, Locals, FilesCreated, did_all_writers_acknowledge, sockets, writers
<1>2. thread'[t].i = 0
  BY <1>1, GotoType, Zenon DEF UInv, Stages
<1>3. w < thread[t].next
  BY <1>1, ConstantsAssumption DEF Writers
<1>4. /\ to_writer[w] = << >> /\ from_writer[w] = << >> /\ w \notin exited
      /\ file[w].run = t /\ file[w].images = << >>
  <2>1. ~(w >= thread[t].next) /\ Good(t)
    BY <1>1, <1>3, ConstantsAssumption DEF Writers, Good
  <2> QED BY <1>1, <1>3, <2>1 DEF Creating, Answered
<1> QED BY <1>1, <1>2, <1>4, ShareStart DEF Recording, Opened, Holds, Asked, Written

LEMMA RecordingImage ==
  ASSUME UInv, PInv, NEW t \in Runs, ImageReceived(t), NEW w \in Writers
  PROVE  Recording(w, t)'
<1> DEFINE i == thread[t].i
           n == Len(to_writer[w])
<1>1. /\ Recording(w, t)
      /\ UNCHANGED <<from_writer, file>>
      /\ to_writer'[w] = IF w \in Receivers(i) THEN Append(to_writer[w], Command("record", t, i))
                         ELSE to_writer[w]
  BY Zenon DEF PInv, Progress, ImageReceived, writers
<1>2. thread'[t].i = i + 1 /\ i \in Nat /\ n \in Nat /\ Written(w) \in Nat
  BY ImageEffect, FieldTypes, Zenon DEF UInv
<1>3. Opened(w, t)' /\ Written(w)' = Written(w)
  BY <1>1, Zenon DEF Recording, Opened, Written
<1>4. CASE w \in Receivers(i)
  <2>1. /\ Len(to_writer'[w]) = n + 1
        /\ to_writer'[w][n + 1] = Command("record", t, i)
        /\ \A k \in 1 .. n : to_writer'[w][k] = to_writer[w][k]
    BY <1>1, <1>2, <1>4, CommandType, Appended, Zenon DEF UInv
  <2>2. Nth(w, Written(w) + (n + 1)) = i /\ Share(w, Written(w) + (n + 1), i + 1)
    <3>1. Written(w) + n \in Nat /\ Written(w) + (n + 1) = (Written(w) + n) + 1
      BY <1>2
    <3> QED BY <1>1, <1>2, <1>4, <3>1, ShareTaken, Zenon DEF Recording
  <2>3. Asked(w, t, Len(to_writer[w]))'
    <3> SUFFICES ASSUME NEW k \in 1 .. n + 1
                 PROVE  to_writer'[w][k] = Command("record", t, Nth(w, Written(w) + k))
      BY <1>3, <2>1, Zenon DEF Asked
    <3>1. CASE k \in 1 .. n
      BY <1>1, <2>1, <3>1, Zenon DEF Recording, Asked
    <3>2. CASE k = n + 1
      BY <1>2, <2>1, <2>2, <3>2, Zenon
    <3> QED BY <1>2, <3>1, <3>2
  <2>4. Share(w, Written(w) + Len(to_writer[w]), thread[t].i)'
    BY <1>2, <1>3, <2>1, <2>2, Zenon
  <2> QED BY <1>1, <1>3, <2>1, <2>3, <2>4, Zenon DEF Recording
<1>5. CASE w \notin Receivers(i)
  <2>1. Share(w, Written(w) + n, i + 1)
    BY <1>1, <1>2, <1>5, ShareLeft DEF Recording
  <2> QED BY <1>1, <1>2, <1>3, <1>5, <2>1, Zenon DEF Recording, Asked
<1> QED BY <1>4, <1>5, Zenon

LEMMA ConfirmingStart ==
  ASSUME UInv, PInv, NEW t \in Runs, thread[t].at = "record", thread' = Goto(t, "confirm"),
         send_command_to_all_writers("confirm", t), UNCHANGED <<from_writer, file>>,
         NEW w \in Writers
  PROVE  Confirming(w, t)'
<1> DEFINE n == Len(to_writer[w])
<1>1. Recording(w, t)
  BY Zenon DEF PInv, Progress
<1>2. /\ thread'[t].i = thread[t].i /\ thread'[t].next = 0 /\ w >= 0
      /\ n \in Nat /\ Written(w) \in Nat
  BY GotoType, FieldTypes DEF UInv, Stages, Writers
<1>3. to_writer'[w] = Append(to_writer[w], Command("confirm", t, 0))
  BY Zenon DEF send_command_to_all_writers
<1>4. /\ Len(to_writer'[w]) = n + 1 /\ to_writer'[w] # << >>
      /\ to_writer'[w][n + 1] = Command("confirm", t, 0)
      /\ \A k \in 1 .. n : to_writer'[w][k] = to_writer[w][k]
  BY <1>3, CommandType, Appended, Zenon DEF UInv
<1>5. Opened(w, t)' /\ Written(w)' = Written(w)
  BY <1>1, Zenon DEF Recording, Opened, Written
<1>6. Len(to_writer'[w]) - 1 = n /\ Written(w)' + Len(to_writer'[w]) - 1 = Written(w) + n
  BY <1>2, <1>4, <1>5
<1>7. Asked(w, t, Len(to_writer[w]) - 1)'
  BY <1>1, <1>4, <1>5, <1>6, Zenon DEF Asked, Recording
<1>8. Share(w, Written(w) + Len(to_writer[w]) - 1, thread[t].i)'
  BY <1>1, <1>2, <1>6, Zenon DEF Recording
<1> QED BY <1>1, <1>2, <1>4, <1>5, <1>7, <1>8, Zenon DEF Confirming, Recording

LEMMA ClosingStart ==
  ASSUME UInv, PInv, NEW t \in Runs, DataRecorded(t), did_all_writers_acknowledge(t),
         NEW w \in Writers
  PROVE  Closing(w, t)'
<1>1. /\ Confirming(w, t)
      /\ thread[t].next = n_sockets /\ thread[t].acked = n_sockets
      /\ UNCHANGED <<from_writer, file>>
      /\ thread' = Goto(t, "close")
      /\ to_writer'[w] = Append(to_writer[w], Command("close", t, 0))
  BY Zenon DEF PInv, Progress, DataRecorded, did_all_writers_acknowledge, writers,
     send_command_to_all_writers
<1>2. thread'[t].i = thread[t].i /\ thread'[t].next = 0 /\ w >= 0
  BY <1>1, GotoType DEF UInv, Stages, Writers
<1>3. w < thread[t].next /\ ~(w >= thread[t].next) /\ Good(t)
  BY <1>1, ConstantsAssumption DEF Writers, Good
<1>4. /\ to_writer[w] = << >> /\ from_writer[w] = << >>
      /\ Opened(w, t) /\ Share(w, Written(w), thread[t].i)
  BY <1>1, <1>3, Zenon DEF Confirming, Answered
<1>5. to_writer'[w] = <<Command("close", t, 0)>>
  BY <1>1, <1>4, CommandType, Appended, Zenon DEF UInv
<1> QED BY <1>1, <1>2, <1>4, <1>5, Zenon DEF Closing, Opened, Written

LEMMA SavedAtEnd ==
  ASSUME UInv, PInv, NEW t \in Runs, FilesSaved(t), did_all_writers_acknowledge(t),
         NEW w \in Writers
  PROVE  /\ SavedFile(w, t)'
         /\ to_writer[w] = << >> /\ from_writer[w] = << >>
<1>1. /\ Closing(w, t)
      /\ thread[t].next = n_sockets /\ thread[t].acked = n_sockets
      /\ UNCHANGED saved /\ thread' = Goto(t, "saved")
  BY Zenon DEF PInv, Progress, FilesSaved, did_all_writers_acknowledge, writers
<1>2. thread'[t].i = thread[t].i
  BY <1>1, GotoType, Zenon DEF UInv, Stages
<1>3. w < thread[t].next /\ ~(w >= thread[t].next) /\ Good(t)
  BY <1>1, ConstantsAssumption DEF Writers, Good
<1>4. to_writer[w] = << >> /\ SavedFile(w, t) /\ from_writer[w] = << >>
  BY <1>1, <1>3, Zenon DEF Closing, Answered
<1> QED BY <1>1, <1>2, <1>4, Zenon DEF SavedFile

LEMMA ProgressThread ==
  ASSUME UInv, PInv, NEW t \in Runs, RunThread(t)
  PROVE  Progress'
<1> DEFINE At(a) == thread'[t].at = a
<1>1. \A u \in Runs : u # t => thread'[u] = thread[u] /\ ~Active(u)
  <2>1. Active(t) /\ OneRunAtATime
    BY Zenon DEF UInv, Active, RunThread, send_create_file_requests, ReceiveAck, FilesCreated,
       record_images, ImageReceived, NoImage, DataRecorded, FilesSaved
  <2>2. \A u \in Runs : u # t => thread'[u] = thread[u]
    BY GotoType, AckEffect, ImageEffect, Zenon
       DEF UInv, Stages, RunThread, send_create_file_requests, FilesCreated, record_images,
           NoImage, DataRecorded, FilesSaved
  <2> QED BY <2>1, <2>2, Zenon DEF OneRunAtATime
<1>2. UNCHANGED <<saved, exited>>
  BY Zenon DEF RunThread, send_create_file_requests, ReceiveAck, FilesCreated, record_images,
     ImageReceived, NoImage, DataRecorded, FilesSaved, writers
<1>3. \A u \in Runs : u # t =>
        /\ thread'[u].at \notin {"spawned", "create", "record", "receive", "confirm", "close"}
        /\ thread'[u].at = "saved" => \A w \in Writers : SavedFile(w, u)'
  BY <1>1, <1>2, Zenon DEF Active, PInv, Progress, SavedFile
<1>4. /\ At("spawned") => Quiet'
      /\ At("create") => \A w \in Writers : Creating(w, t)'
      /\ thread'[t].at \in {"record", "receive"} => \A w \in Writers : Recording(w, t)'
      /\ At("confirm") => \A w \in Writers : Confirming(w, t)'
      /\ At("close") => \A w \in Writers : Closing(w, t)'
      /\ thread'[t].at \in {"record", "receive", "confirm", "close"} => exited = {}
      /\ At("saved") => \A w \in Writers : SavedFile(w, t)'
  <2>0. \A a \in Stages : thread' = Goto(t, a) => At(a) /\ thread'[t].i = thread[t].i
    BY GotoType, Zenon DEF UInv
  <2>1. CASE send_create_file_requests(t)
    BY <2>0, <2>1, CreatingStart, Zenon DEF send_create_file_requests, Stages
  <2>2. CASE ReceiveAck(t)
    BY <2>2, AckEffect, CreatingAck, ConfirmingAck, ClosingAck, Zenon DEF ReceiveAck, UInv, PInv, Progress
  <2>3. CASE FilesCreated(t)
    <3>1. CASE did_all_writers_acknowledge(t)
      <4>1. exited = {}
        BY <2>3, <3>1, RecordingStart, Zenon DEF UInv, Types
      <4> QED BY <2>0, <2>3, <3>1, <4>1, RecordingStart, Zenon DEF FilesCreated, Stages
    <3>2. CASE ~did_all_writers_acknowledge(t)
      BY <2>0, <2>3, <3>2, Zenon DEF FilesCreated, Stages
    <3> QED BY <3>1, <3>2, Zenon
  <2>4. CASE record_images(t)
    <3>1. CASE thread' = Goto(t, "receive") /\ UNCHANGED to_writer
      <4>1. thread[t].at = "record" /\ UNCHANGED <<from_writer, file>>
        BY <2>4, Zenon DEF record_images, writers
      <4>2. \A w \in Writers : Recording(w, t)'
        BY <2>0, <3>1, <4>1, ZenonT(40) DEF PInv, Progress, Recording, Opened, Asked, Written, Stages
      <4> QED BY <2>0, <3>1, <4>1, <4>2, Zenon DEF PInv, Progress, Stages
    <3>2. CASE send_command_to_all_writers("confirm", t) /\ thread' = Goto(t, "confirm")
      <4>1. thread[t].at = "record" /\ UNCHANGED <<from_writer, file>>
        BY <2>4 DEF record_images, writers
      <4> QED BY <2>0, <3>2, <4>1, ConfirmingStart, Zenon DEF PInv, Progress, Stages
    <3> QED BY <2>4, <3>1, <3>2, Zenon DEF record_images
  <2>5. CASE ImageReceived(t)
    BY <2>5, ImageEffect, RecordingImage, Zenon DEF ImageReceived, UInv, PInv, Progress
  <2>6. CASE NoImage(t)
    <3>1. thread[t].at = "receive" /\ UNCHANGED <<to_writer, from_writer, file>>
      BY <2>6, Zenon DEF NoImage, sockets, writers
    <3>2. \A w \in Writers : Recording(w, t)'
      BY <2>0, <2>6, <3>1, ZenonT(40) DEF NoImage, PInv, Progress, Recording, Opened, Asked, Written, Stages
    <3> QED BY <2>0, <2>6, <3>1, <3>2, Zenon DEF NoImage, PInv, Progress, Stages
  <2>7. CASE DataRecorded(t)
    <3>1. CASE did_all_writers_acknowledge(t)
      BY <2>0, <2>7, <3>1, ClosingStart, Zenon DEF DataRecorded, PInv, Progress, Stages
    <3>2. CASE ~did_all_writers_acknowledge(t)
      BY <2>0, <2>7, <3>2, Zenon DEF DataRecorded, Stages
    <3> QED BY <3>1, <3>2
  <2>8. CASE FilesSaved(t)
    BY <2>0, <2>8, SavedAtEnd, Zenon DEF FilesSaved, Stages
  <2> QED BY <2>1, <2>2, <2>3, <2>4, <2>5, <2>6, <2>7, <2>8, Zenon DEF RunThread
<1> QED BY <1>2, <1>3, <1>4, Zenon DEF Progress

LEMMA LocalsThread ==
  ASSUME UInv, PInv, NEW t \in Runs, RunThread(t)
  PROVE  Locals'
<1>1. Types /\ Locals /\ UNCHANGED conditions
  BY Zenon DEF UInv, PInv, RunThread, send_create_file_requests, ReceiveAck, FilesCreated,
     record_images, ImageReceived, NoImage, DataRecorded, FilesSaved
<1>2. \A u \in Runs : u # t => thread'[u] = thread[u]
  BY <1>1, GotoType, AckEffect, ImageEffect, ZenonT(40)
     DEF Stages, RunThread, send_create_file_requests, FilesCreated, record_images, NoImage,
         DataRecorded, FilesSaved
<1>3. CASE \E a \in Stages : /\ thread' = Goto(t, a)
                             /\ thread[t].at # "none" /\ a # "spawned"
                             /\ a = "create" => thread[t].at = "spawned"
  <2>1. PICK a \in Stages : /\ thread' = Goto(t, a)
                            /\ thread[t].at # "none" /\ a # "spawned"
                            /\ a = "create" => thread[t].at = "spawned"
    BY <1>3, Zenon
  <2>2. /\ thread'[t].at = a /\ thread'[t].i = thread[t].i
        /\ thread'[t].next = 0 /\ thread'[t].acked = 0
    BY <1>1, <2>1, GotoType, Zenon
  <2> QED BY <1>1, <1>2, <2>1, <2>2 DEF Locals, Good, Calm, Active
<1>4. CASE ReceiveAck(t)
  <2>1. /\ thread'[t].at = thread[t].at /\ thread'[t].i = thread[t].i
        /\ thread'[t].acked <= thread'[t].next
        /\ Calm => Good(t)'
        /\ thread[t].at \in {"create", "confirm", "close"}
    BY <1>1, <1>4, AckEffect, AckGood, AckCalm, Zenon DEF ReceiveAck
  <2> QED BY <1>1, <1>2, <2>1, Zenon DEF Locals, Good, Calm, Active
<1>5. CASE ImageReceived(t)
  <2>1. /\ thread[t].at = "receive" /\ thread'[t].at = "record"
        /\ thread'[t].next = thread[t].next /\ thread'[t].acked = thread[t].acked
    BY <1>1, <1>5, ImageEffect, Zenon DEF ImageReceived
  <2> QED BY <1>1, <1>2, <2>1, Zenon DEF Locals, Good, Calm, Active
<1> QED BY <1>3, <1>4, <1>5, Zenon
        DEF Stages, RunThread, send_create_file_requests, FilesCreated, record_images, NoImage,
            DataRecorded, FilesSaved

LEMMA BetweenThread ==
  ASSUME UInv, PInv, NEW t \in Runs, RunThread(t)
  PROVE  Between'
<1>1. Types /\ Locals /\ Between /\ UNCHANGED <<conditions, exited>>
  BY Zenon DEF UInv, PInv, RunThread, send_create_file_requests, ReceiveAck, FilesCreated,
     record_images, ImageReceived, NoImage, DataRecorded, FilesSaved, writers
<1>2. Active(t)
  BY Zenon DEF Active, RunThread, send_create_file_requests, ReceiveAck, FilesCreated, record_images,
     ImageReceived, NoImage, DataRecorded, FilesSaved
<1>3. Active(t)' \/ (~Calm /\ thread'[t].at # "none") \/ (Quiet' /\ thread'[t].at # "none")
  <2>0. \A a \in Stages : thread' = Goto(t, a) => thread'[t].at = a
    BY <1>1, GotoType, Zenon
  <2>1. CASE send_create_file_requests(t) \/ record_images(t) \/ NoImage(t)
    BY <2>0, <2>1, Zenon DEF send_create_file_requests, record_images, NoImage, Active, Stages
  <2>2. CASE ReceiveAck(t) \/ ImageReceived(t)
    BY <1>1, <1>2, <2>2, AckEffect, ImageEffect, Zenon DEF Active
  <2>3. Calm /\ thread[t].next = n_sockets => did_all_writers_acknowledge(t)
    BY <1>1, <1>2, Zenon DEF Locals, Good, did_all_writers_acknowledge
  <2>4. CASE FilesCreated(t)
    BY <2>0, <2>3, <2>4, Zenon DEF FilesCreated, Active, Stages
  <2>5. CASE DataRecorded(t)
    BY <2>0, <2>3, <2>5, Zenon DEF DataRecorded, Active, Stages
  <2>6. CASE FilesSaved(t) /\ did_all_writers_acknowledge(t)
    <3>1. exited = {} /\ UNCHANGED <<to_writer, from_writer>> /\ thread'[t].at = "saved"
      BY <2>0, <2>6, Zenon DEF FilesSaved, sockets, PInv, Progress, Stages
    <3> QED BY <1>1, <2>6, <3>1, SavedAtEnd, Zenon DEF Quiet
  <2>7. CASE FilesSaved(t) /\ ~did_all_writers_acknowledge(t)
    BY <2>0, <2>3, <2>7, Zenon DEF FilesSaved, Stages
  <2> QED BY <2>1, <2>2, <2>4, <2>5, <2>6, <2>7, Zenon DEF RunThread
<1> QED BY <1>1, <1>3, Zenon DEF Between, Active, Calm

\* A command that is added keeps the records in front.
LEMMA RecordsAppended ==
  ASSUME Types, RecordsHaveFile, NEW w \in Writers, NEW c \in Cmds,
         to_writer'[w] = Append(to_writer[w], c), UNCHANGED file,
         c.do = "record" => /\ file[w].run # 0
                            /\ \A k \in DOMAIN to_writer[w] : to_writer[w][k].do = "record"
  PROVE  \A k \in DOMAIN to_writer'[w] : to_writer'[w][k].do = "record" =>
           /\ file'[w].run # 0
           /\ \A l \in 1 .. k : to_writer'[w][l].do = "record"
<1> DEFINE n == Len(to_writer[w])
<1>1. to_writer[w] \in Seq(Cmds) /\ n \in Nat /\ DOMAIN to_writer[w] = 1 .. n
  BY DEF Types
<1>2. /\ Len(to_writer'[w]) = n + 1 /\ to_writer'[w][n + 1] = c
      /\ \A k \in 1 .. n : to_writer'[w][k] = to_writer[w][k]
      /\ DOMAIN to_writer'[w] = 1 .. n + 1
  BY <1>1, Appended
<1> SUFFICES ASSUME NEW k \in 1 .. n + 1, to_writer'[w][k].do = "record"
             PROVE  file'[w].run # 0 /\ \A l \in 1 .. k : to_writer'[w][l].do = "record"
  BY <1>2, Zenon
<1>3. CASE k \in 1 .. n
  <2>1. file[w].run # 0 /\ \A l \in 1 .. k : to_writer[w][l].do = "record"
    BY <1>1, <1>2, <1>3 DEF RecordsHaveFile
  <2> QED BY <1>1, <1>2, <1>3, <2>1
<1>4. CASE k = n + 1
  BY <1>1, <1>2, <1>4
<1> QED BY <1>1, <1>3, <1>4, SMTT(40)

LEMMA RecordsThread ==
  ASSUME UInv, PInv, NEW t \in Runs, RunThread(t)
  PROVE  RecordsHaveFile' /\ NoWriteWithoutFile'
<1>1. Types /\ RecordsHaveFile /\ UNCHANGED <<file, crashed>>
  BY Zenon DEF UInv, PInv, RunThread, send_create_file_requests, ReceiveAck, FilesCreated,
     record_images, ImageReceived, NoImage, DataRecorded, FilesSaved, writers
<1>2. NoWriteWithoutFile'
  BY <1>1, Zenon DEF PInv, NoWriteWithoutFile
<1>3. CASE UNCHANGED to_writer
  BY <1>1, <1>2, <1>3, Zenon DEF RecordsHaveFile
<1>4. CASE \E do \in {"create", "confirm", "close"} : send_command_to_all_writers(do, t)
  <2>1. PICK do \in {"create", "confirm", "close"} : send_command_to_all_writers(do, t)
    BY <1>4, Zenon
  <2>2. Command(do, t, 0) \in Cmds /\ Command(do, t, 0).do = do
    BY CommandType, Zenon DEF Command
  <2>3. \A w \in Writers : to_writer'[w] = Append(to_writer[w], Command(do, t, 0))
    BY <2>1, Zenon DEF send_command_to_all_writers
  <2> QED BY <1>1, <1>2, <2>2, <2>3, RecordsAppended, Zenon DEF RecordsHaveFile
<1>5. CASE ImageReceived(t)
  <2> DEFINE c == Command("record", t, thread[t].i)
  <2>1. c \in Cmds
    BY <1>1, FieldTypes, CommandType, Zenon
  <2>2. \A w \in Writers : to_writer'[w] = Append(to_writer[w], c) \/ to_writer'[w] = to_writer[w]
    BY <1>5, Zenon DEF ImageReceived
  <2>3. \A w \in Writers : /\ file[w].run # 0
                           /\ \A k \in DOMAIN to_writer[w] : to_writer[w][k].do = "record"
    <3> SUFFICES ASSUME NEW w \in Writers
                 PROVE  /\ file[w].run # 0
                        /\ \A k \in DOMAIN to_writer[w] : to_writer[w][k].do = "record"
      OBVIOUS
    <3>1. Recording(w, t)
      BY <1>5, Zenon DEF ImageReceived, PInv, Progress
    <3>2. DOMAIN to_writer[w] = 1 .. Len(to_writer[w])
      BY <1>1 DEF Types
    <3>3. file[w].run = t /\ t # 0
      BY <3>1 DEF Recording, Opened, Runs
    <3>4. \A x : Command("record", t, x).do = "record"
      BY Zenon DEF Command
    <3> QED BY <3>1, <3>2, <3>3, <3>4, Zenon DEF Recording, Asked
  <2> HIDE DEF c
  <2>4. \A w \in Writers : \A k \in DOMAIN to_writer'[w] :
          to_writer'[w][k].do = "record" =>
            /\ file'[w].run # 0 /\ \A l \in 1 .. k : to_writer'[w][l].do = "record"
    <3> SUFFICES ASSUME NEW w \in Writers
                 PROVE  \A k \in DOMAIN to_writer'[w] :
                          to_writer'[w][k].do = "record" =>
                            /\ file'[w].run # 0
                            /\ \A l \in 1 .. k : to_writer'[w][l].do = "record"
      OBVIOUS
    <3>1. CASE to_writer'[w] = to_writer[w]
      BY <1>1, <3>1, Zenon DEF RecordsHaveFile
    <3>2. CASE to_writer'[w] = Append(to_writer[w], c)
      BY <1>1, <2>1, <2>3, <3>2, RecordsAppended, Zenon
    <3> QED BY <2>2, <3>1, <3>2, Zenon
  <2> QED BY <1>2, <2>4, Zenon DEF RecordsHaveFile
<1> QED BY <1>3, <1>4, <1>5, Zenon
        DEF RunThread, send_create_file_requests, ReceiveAck, FilesCreated, record_images,
            NoImage, DataRecorded, FilesSaved, sockets

-----------------------------------------------------------------------------
LEMMA Taken ==
  ASSUME Types, NEW w \in Writers, WriterLoop(w)
  PROVE  LET n == Len(to_writer[w])
         IN  /\ n \in Nat \ {0} /\ Head(to_writer[w]) = to_writer[w][1]
             /\ DOMAIN to_writer[w] = 1 .. n
             /\ to_writer[w][1] \in Cmds
             /\ Len(to_writer'[w]) = n - 1 /\ DOMAIN to_writer'[w] = 1 .. n - 1
             /\ to_writer'[w] = << >> <=> n = 1
             /\ \A k \in 1 .. n - 1 : to_writer'[w][k] = to_writer[w][k + 1]
             /\ UNCHANGED <<thread, conditions, monitor>>
             /\ w \notin exited
             /\ exited' \subseteq exited \cup {w}
             /\ conditions.failures = {} => exited' = exited
             /\ \A v \in Writers : v # w => /\ to_writer'[v] = to_writer[v]
                                            /\ from_writer'[v] = from_writer[v]
                                            /\ file'[v] = file[v]
             /\ \A v \in Writers : saved[v] \subseteq saved'[v]
<1> DEFINE q == to_writer[w]
           n == Len(q)
<1>1. q \in Seq(Cmds) /\ q # << >>
  BY Zenon DEF Types, WriterLoop
<1>2. /\ n \in Nat \ {0} /\ Head(q) = q[1] /\ q[1] \in Cmds /\ DOMAIN q = 1 .. n
      /\ Tail(q) \in Seq(Cmds) /\ Len(Tail(q)) = n - 1 /\ DOMAIN Tail(q) = 1 .. n - 1
      /\ \A k \in 1 .. n - 1 : Tail(q)[k] = q[k + 1]
  BY <1>1
<1>3. Tail(q) = << >> <=> n = 1
  <2>1. \A p \in Seq(Cmds) : p # << >> => Len(p) # 0
    OBVIOUS
  <2>2. Len(<< >>) = 0
    OBVIOUS
  <2>3. Len(Tail(q)) = 0 <=> n = 1
    BY <1>2
  <2> QED BY <1>2, <2>1, <2>2, <2>3, Zenon
<1>4. /\ to_writer'[w] = Tail(q) /\ UNCHANGED <<thread, conditions, monitor>>
      /\ w \notin exited /\ \A v \in Writers : v # w => to_writer'[v] = to_writer[v]
  BY Zenon DEF WriterLoop, Types, sessions
<1>5. /\ exited' \subseteq exited \cup {w}
      /\ conditions.failures = {} => exited' = exited
      /\ \A v \in Writers : v # w => from_writer'[v] = from_writer[v] /\ file'[v] = file[v]
      /\ \A v \in Writers : saved[v] \subseteq saved'[v]
  <2> DEFINE cmd == Head(q)
  <2> HIDE DEF cmd
  <2>0. file \in [Writers -> Files] /\ from_writer \in [Writers -> Seq({"SUCCESS", "FAILURE"})]
        /\ saved \in [Writers -> SUBSET Files]
    BY Zenon DEF Types
  <2>1. CASE create_file(w, cmd)
    BY <2>0, <2>1, ZenonT(40) DEF create_file, Respond, Closed
  <2>2. CASE cmd \in Cmds /\ record_image(w, cmd)
    BY <2>0, <2>2, RecordEffect, Zenon DEF record_image
  <2>3. CASE close_file(w) /\ UNCHANGED exited
    BY <2>0, <2>3, Zenon DEF close_file, Respond, Closed
  <2>4. CASE Respond(w, "SUCCESS") /\ UNCHANGED writers
    BY <2>0, <2>4, Zenon DEF Respond, writers
  <2> QED BY <1>2, <2>1, <2>2, <2>3, <2>4, Zenon DEF WriterLoop, cmd
<1> QED BY <1>2, <1>3, <1>4, <1>5, Zenon

\* Which step a command leads to.
LEMMA TakenCommand ==
  ASSUME Types, NEW w \in Writers, WriterLoop(w), NEW t \in Runs, NEW i \in Nat,
         NEW do, to_writer[w][1] = Command(do, t, i)
  PROVE  /\ do = "create" => create_file(w, Command(do, t, i)) /\ crashed' = crashed
         /\ do = "record" => record_image(w, Command(do, t, i))
         /\ do = "close" => close_file(w) /\ crashed' = crashed
         /\ do = "confirm" => Respond(w, "SUCCESS") /\ UNCHANGED writers
<1>1. Head(to_writer[w]) = Command(do, t, i)
  BY Taken, Zenon
<1>2. Command(do, t, i).do = do
  BY Zenon DEF Command
<1> QED BY <1>1, <1>2, Zenon DEF WriterLoop

\* An image that is written is the next one of the file.
LEMMA RecordStep ==
  ASSUME Types, NEW t \in Runs, NEW w \in Writers, Opened(w, t),
         record_image(w, Command("record", t, Nth(w, Written(w) + 1)))
  PROVE  Opened(w, t)' /\ Written(w)' = Written(w) + 1 /\ from_writer' = from_writer
<1> DEFINE c == Command("record", t, Nth(w, Written(w) + 1))
           g == file[w].images
           h == file'[w].images
<1>1. Written(w) \in Nat /\ g \in Seq(Runs \X Nat)
  BY FieldTypes, Zenon
<1>2. Nth(w, Written(w) + 1) \in Nat
  BY <1>1, NthType
<1>3. c \in Cmds /\ c.run = t /\ c.image = Nth(w, Written(w) + 1)
  BY <1>2, CommandType, Zenon DEF Command
<1>4. file[w].run = t /\ t # 0
  BY DEF Opened, Runs
<1>5. file'[w].run = t /\ h = Append(g, <<t, Nth(w, Written(w) + 1)>>)
  BY <1>3, <1>4, RecordEffect, Zenon
<1>6. <<t, Nth(w, Written(w) + 1)>> \in Runs \X Nat
  BY <1>2, Zenon
<1>7. /\ Len(h) = Len(g) + 1 /\ h \in Seq(Runs \X Nat)
      /\ h[Len(g) + 1] = <<t, Nth(w, Written(w) + 1)>>
      /\ \A k \in 1 .. Len(g) : h[k] = g[k]
  BY <1>1, <1>5, <1>6, SMTT(40)
<1>8. DOMAIN g = 1 .. Len(g) /\ DOMAIN h = 1 .. Len(g) + 1 /\ Len(g) \in Nat
  BY <1>1, <1>7
<1>9. \A k \in DOMAIN h : h[k] = <<t, Nth(w, k)>>
  <2> SUFFICES ASSUME NEW k \in 1 .. Len(g) + 1 PROVE h[k] = <<t, Nth(w, k)>>
    BY <1>8, Zenon
  <2>1. CASE k \in 1 .. Len(g)
    BY <1>7, <1>8, <2>1, Zenon DEF Opened, Holds
  <2>2. CASE k = Len(g) + 1
    BY <1>7, <2>2, Zenon DEF Written
  <2> QED BY <1>8, <2>1, <2>2
<1> QED BY <1>5, <1>7, <1>9, Zenon DEF Opened, Holds, Written, record_image

\* The next images that a writer is asked for, after it has written one.
LEMMA AskedStep ==
  ASSUME Types, NEW t \in Runs, NEW w \in Writers, WriterLoop(w), NEW n \in Nat,
         n < Len(to_writer[w]), Asked(w, t, n + 1), Written(w)' = Written(w) + 1
  PROVE  \A k \in 1 .. n : to_writer'[w][k] = Command("record", t, Nth(w, Written(w)' + k))
<1> SUFFICES ASSUME NEW k \in 1 .. n
             PROVE  to_writer'[w][k] = Command("record", t, Nth(w, Written(w)' + k))
  OBVIOUS
<1>1. Written(w) \in Nat /\ k \in Int /\ k + 1 \in 1 .. n + 1 /\ k \in 1 .. Len(to_writer[w]) - 1
  BY FieldTypes
<1>2. to_writer'[w][k] = to_writer[w][k + 1]
  BY <1>1, Taken
<1>3. Written(w)' + k = Written(w) + (k + 1)
  BY <1>1
<1> QED BY <1>1, <1>2, <1>3, Zenon DEF Asked

LEMMA CreatingWriter ==
  ASSUME UInv, PInv, NEW w \in Writers, WriterLoop(w), NEW t \in Runs,
         thread[t].at = "create", NEW v \in Writers
  PROVE  Creating(v, t)'
<1>1. Types /\ Creating(v, t)
  BY Zenon DEF UInv, PInv, Progress
<1>2. CASE v # w
  <2>1. /\ UNCHANGED <<thread, conditions>> /\ to_writer'[v] = to_writer[v]
        /\ from_writer'[v] = from_writer[v] /\ file'[v] = file[v]
        /\ v \notin exited => v \notin exited'
    BY <1>1, <1>2, Taken
  <2> QED BY <1>1, <2>1, Zenon DEF Creating, Good, Calm, Answered
<1>3. CASE v = w
  <2> DEFINE c == Command("create", t, 0)
  <2>1. to_writer[w] # << >> /\ to_writer[w] = <<c>>
    BY <1>1, <1>3, Taken, ZenonT(40) DEF Creating, WriterLoop
  <2>2. /\ to_writer'[w] = << >> /\ UNCHANGED <<thread, conditions>>
        /\ create_file(w, c)
    BY <1>1, <2>1, Taken, TakenCommand
  <2>3. CASE ~Good(t)
    BY <1>3, <2>2, <2>3, Zenon DEF Creating, Good
  <2>4. CASE Good(t)
    <3>1. w >= thread[t].next /\ from_writer[w] = << >> /\ w \notin exited
      BY <1>1, <1>3, <2>1, <2>4, Zenon DEF Creating
    <3>2. /\ file \in [Writers -> Files] /\ w \in Nat /\ thread[t].next \in Nat
          /\ from_writer \in [Writers -> Seq({"SUCCESS", "FAILURE"})]
      BY <1>1, FieldTypes, Zenon DEF Types
    <3>3. \A code \in {"SUCCESS", "FAILURE"} : Respond(w, code) => from_writer'[w] = <<code>>
      <4> TAKE code \in {"SUCCESS", "FAILURE"}
      <4>1. Respond(w, code) => from_writer'[w] = Append(<< >>, code)
        BY <3>1, <3>2, Zenon DEF Respond
      <4> QED BY <4>1
    <3>4. CASE /\ file' = [file EXCEPT ![w] = [run |-> c.run, images |-> << >>]]
               /\ Respond(w, "SUCCESS") /\ UNCHANGED exited
      <4>1. file'[w] = [run |-> t, images |-> << >>]
        BY <3>2, <3>4, Zenon DEF Command
      <4>2. Answered(w, t)'
        BY <2>2, <3>1, <3>2, <3>3, <3>4, SMTT(40) DEF Answered
      <4> QED BY <1>3, <2>2, <3>1, <3>4, <4>1, <4>2, Zenon DEF Creating
    <3>5. CASE conditions.failures # {} /\ (Respond(w, "FAILURE") \/ UNCHANGED from_writer)
      BY <1>3, <2>2, <3>1, <3>3, <3>5, Zenon DEF Creating, Calm
    <3> QED BY <2>2, <3>4, <3>5, Zenon DEF create_file
  <2> QED BY <2>3, <2>4, Zenon
<1> QED BY <1>2, <1>3, Zenon

LEMMA RecordingWriter ==
  ASSUME UInv, PInv, NEW w \in Writers, WriterLoop(w), NEW t \in Runs,
         thread[t].at \in {"record", "receive"}, NEW v \in Writers
  PROVE  Recording(v, t)'
<1>1. Types /\ Recording(v, t)
  BY Zenon DEF UInv, PInv, Progress
<1>2. CASE v # w
  <2>1. /\ UNCHANGED thread /\ to_writer'[v] = to_writer[v]
        /\ from_writer'[v] = from_writer[v] /\ file'[v] = file[v]
    BY <1>1, <1>2, Taken, Zenon
  <2> QED BY <1>1, <2>1, Zenon DEF Recording, Opened, Asked, Written
<1>3. CASE v = w
  <2> DEFINE n == Len(to_writer[w])
  <2>1. /\ n \in Nat \ {0} /\ Len(to_writer'[w]) = n - 1 /\ UNCHANGED thread
        /\ Written(w) \in Nat
    BY <1>1, Taken, FieldTypes, Zenon
  <2>2. Opened(w, t) /\ Asked(w, t, n) /\ from_writer[w] = << >>
    BY <1>1, <1>3, Zenon DEF Recording
  <2>3. to_writer[w][1] = Command("record", t, Nth(w, Written(w) + 1))
    BY <2>1, <2>2 DEF Asked
  <2>4. record_image(w, Command("record", t, Nth(w, Written(w) + 1)))
    <3>1. Nth(w, Written(w) + 1) \in Nat
      BY <2>1, NthType, Written(w) + 1 \in Int, Written(w) + 1 >= 1, Zenon
    <3> QED BY <1>1, <2>3, <3>1, TakenCommand, Zenon
  <2>5. Opened(w, t)' /\ Written(w)' = Written(w) + 1 /\ from_writer' = from_writer
    BY <1>1, <2>2, <2>4, RecordStep, Zenon
  <2>6. \A k \in 1 .. n - 1 : to_writer'[w][k] = Command("record", t, Nth(w, Written(w)' + k))
    <3>1. n - 1 \in Nat /\ n - 1 < Len(to_writer[w]) /\ (n - 1) + 1 = n
      BY <2>1
    <3> QED BY <1>1, <2>2, <2>5, <3>1, AskedStep, Zenon
  <2>7. Asked(w, t, Len(to_writer[w]))'
    BY <2>1, <2>6, Zenon DEF Asked
  <2>8. Written(w)' + Len(to_writer'[w]) = Written(w) + n
    BY <2>1, <2>5
  <2> QED BY <1>1, <1>3, <2>1, <2>2, <2>5, <2>7, <2>8, Zenon DEF Recording
<1> QED BY <1>2, <1>3, Zenon

\* The answer of a writer that has none waiting.
LEMMA FirstAnswer ==
  ASSUME Types, NEW w \in Writers, from_writer[w] = << >>, Respond(w, "SUCCESS")
  PROVE  from_writer'[w] = <<"SUCCESS">>
<1>1. from_writer'[w] = Append(<< >>, "SUCCESS")
  BY Zenon DEF Types, Respond
<1> QED BY <1>1

LEMMA ConfirmingWriter ==
  ASSUME UInv, PInv, NEW w \in Writers, WriterLoop(w), NEW t \in Runs,
         thread[t].at = "confirm", NEW v \in Writers
  PROVE  Confirming(v, t)'
<1>1. Types /\ Confirming(v, t)
  BY Zenon DEF UInv, PInv, Progress
<1>2. CASE v # w
  <2>1. /\ UNCHANGED thread /\ to_writer'[v] = to_writer[v]
        /\ from_writer'[v] = from_writer[v] /\ file'[v] = file[v]
    BY <1>1, <1>2, Taken
  <2> QED BY <1>1, <2>1, Zenon DEF Confirming, Opened, Asked, Written, Good, Answered
<1>3. CASE v = w
  <2> DEFINE n == Len(to_writer[w])
  <2>1. /\ n \in Nat \ {0} /\ Len(to_writer'[w]) = n - 1 /\ UNCHANGED thread
        /\ Written(w) \in Nat
        /\ to_writer'[w] = << >> <=> n = 1
        /\ w \in Nat /\ thread[t].next \in Nat
    BY <1>1, Taken, FieldTypes, Zenon
  <2>2. /\ Opened(w, t) /\ Asked(w, t, n - 1) /\ from_writer[w] = << >>
        /\ to_writer[w][n] = Command("confirm", t, 0)
        /\ Share(w, Written(w) + n - 1, thread[t].i)
        /\ Good(t) => w >= thread[t].next
    BY <1>1, <1>3, Zenon DEF Confirming, WriterLoop
  <2>3. CASE n = 1
    <3>1. Respond(w, "SUCCESS") /\ UNCHANGED file
      BY <1>1, <2>2, <2>3, TakenCommand, Zenon DEF writers
    <3>2. from_writer'[w] = <<"SUCCESS">>
      BY <1>1, <2>2, <3>1, FirstAnswer, Zenon
    <3>3. Good(t)' => Answered(w, t)'
      BY <2>1, <2>2, <3>2 DEF Good, Answered
    <3>4. Opened(w, t)' /\ Written(w)' = Written(w) /\ Written(w) + n - 1 = Written(w)
      BY <2>1, <2>2, <2>3, <3>1 DEF Opened, Written
    <3>5. Share(w, Written(w), thread[t].i)'
      BY <2>1, <2>2, <3>4, Zenon
    <3> QED BY <1>3, <2>1, <2>3, <3>3, <3>4, <3>5, Zenon DEF Confirming
  <2>4. CASE n > 1
    <3>1. to_writer[w][1] = Command("record", t, Nth(w, Written(w) + 1))
      BY <2>1, <2>2, <2>4 DEF Asked
    <3>2. Nth(w, Written(w) + 1) \in Nat
      BY <2>1, NthType, Written(w) + 1 \in Int, Written(w) + 1 >= 1, Zenon
    <3>3. record_image(w, Command("record", t, Nth(w, Written(w) + 1)))
      BY <1>1, <3>1, <3>2, TakenCommand, Zenon
    <3>4. Opened(w, t)' /\ Written(w)' = Written(w) + 1 /\ from_writer' = from_writer
      BY <1>1, <2>2, <3>3, RecordStep, Zenon
    <3>5. \A k \in 1 .. n - 2 : to_writer'[w][k] = Command("record", t, Nth(w, Written(w)' + k))
      <4>1. n - 2 \in Nat /\ n - 2 < Len(to_writer[w]) /\ (n - 2) + 1 = n - 1
        BY <2>1, <2>4
      <4> QED BY <1>1, <2>2, <3>4, <4>1, AskedStep, Zenon
    <3>6. Asked(w, t, Len(to_writer[w]) - 1)'
      <4>1. Len(to_writer'[w]) - 1 = n - 2
        BY <2>1
      <4> QED BY <3>5, <4>1, Zenon DEF Asked
    <3>7. to_writer'[w] # << >> /\ to_writer'[w][Len(to_writer'[w])] = Command("confirm", t, 0)
      <4>1. n - 1 \in 1 .. n - 1 /\ (n - 1) + 1 = n
        BY <2>1, <2>4
      <4>2. to_writer'[w][n - 1] = to_writer[w][(n - 1) + 1]
        BY <1>1, <4>1, Taken
      <4> QED BY <2>1, <2>2, <2>4, <4>1, <4>2
    <3>8. Share(w, Written(w) + Len(to_writer[w]) - 1, thread[t].i)'
      <4> HIDE DEF n
      <4>1. n \in Int /\ Written(w) \in Int /\ Written(w)' = Written(w) + 1
        BY <2>1, <3>4
      <4>2. Written(w)' + (n - 1) - 1 = Written(w) + n - 1
        BY <4>1
      <4> QED BY <2>1, <2>2, <4>2, Zenon
    <3>9. Good(t)' => w >= thread'[t].next
      BY <2>1, <2>2, Zenon DEF Good
    <3> QED BY <1>3, <2>2, <3>4, <3>6, <3>7, <3>8, <3>9, ZenonT(40) DEF Confirming
  <2> QED BY <2>1, <2>3, <2>4
<1> QED BY <1>2, <1>3, Zenon

LEMMA SavedKept ==
  ASSUME Types, NEW w \in Writers, WriterLoop(w), NEW t \in Runs, NEW v \in Writers,
         SavedFile(v, t)
  PROVE  SavedFile(v, t)'
<1>1. UNCHANGED thread /\ saved[v] \subseteq saved'[v]
  BY Taken, Zenon
<1> QED BY <1>1, Zenon DEF SavedFile

LEMMA ClosingWriter ==
  ASSUME UInv, PInv, NEW w \in Writers, WriterLoop(w), NEW t \in Runs,
         thread[t].at = "close", NEW v \in Writers
  PROVE  Closing(v, t)'
<1>1. Types /\ Closing(v, t)
  BY Zenon DEF UInv, PInv, Progress
<1>2. CASE v # w
  <2>1. /\ UNCHANGED thread /\ to_writer'[v] = to_writer[v]
        /\ from_writer'[v] = from_writer[v] /\ file'[v] = file[v]
    BY <1>1, <1>2, Taken
  <2> QED BY <1>1, <2>1, SavedKept, Zenon DEF Closing, Opened, Written, Good, Answered
<1>3. CASE v = w
  <2>1. /\ to_writer[w] = <<Command("close", t, 0)>> /\ from_writer[w] = << >>
        /\ Opened(w, t) /\ Share(w, Written(w), thread[t].i)
        /\ Good(t) => w >= thread[t].next
    BY <1>1, <1>3, ZenonT(40) DEF Closing, WriterLoop
  <2>2. close_file(w) /\ to_writer'[w] = << >> /\ UNCHANGED thread
    BY <1>1, <2>1, Taken, TakenCommand
  <2>3. from_writer'[w] = <<"SUCCESS">>
    BY <1>1, <2>1, <2>2, FirstAnswer, ZenonT(40) DEF close_file
  <2>4. Good(t)' => Answered(w, t)'
    <3>1. w \in Nat /\ thread[t].next \in Nat
      BY <1>1, FieldTypes, Zenon
    <3> QED BY <2>1, <2>2, <2>3, <3>1 DEF Good, Answered
  <2>5. file[w] \in saved'[w]
    <3>1. file[w] # NoFile
      BY <2>1 DEF Opened, NoFile, Runs
    <3> QED BY <1>1, <2>2, <3>1, ZenonT(40) DEF close_file, Closed, Types
  <2>6. SavedFile(w, t)'
    BY <2>1, <2>2, <2>5, Zenon DEF SavedFile, Opened, Written
  <2> QED BY <1>3, <2>2, <2>4, <2>6, Zenon DEF Closing
<1> QED BY <1>2, <1>3, Zenon

LEMMA RecordsWriter ==
  ASSUME UInv, PInv, NEW w \in Writers, WriterLoop(w)
  PROVE  RecordsHaveFile' /\ NoWriteWithoutFile'
<1> DEFINE n == Len(to_writer[w])
           c == to_writer[w][1]
<1>1. Types /\ RecordsHaveFile /\ crashed = {}
  BY Zenon DEF UInv, PInv, NoWriteWithoutFile
<1>2. /\ n \in Nat \ {0} /\ DOMAIN to_writer[w] = 1 .. n /\ c \in Cmds
      /\ DOMAIN to_writer'[w] = 1 .. n - 1
      /\ \A k \in 1 .. n - 1 : to_writer'[w][k] = to_writer[w][k + 1]
      /\ Head(to_writer[w]) = c
      /\ \A v \in Writers : v # w => to_writer'[v] = to_writer[v] /\ file'[v] = file[v]
  BY <1>1, Taken, ZenonT(40)
<1>3. CASE c.do # "record"
  <2>1. crashed' = crashed
    BY <1>2, <1>3, Zenon DEF WriterLoop, writers
  <2>2. \A k \in 1 .. n : to_writer[w][k].do # "record"
    BY <1>1, <1>2, <1>3, 1 \in 1 .. n, SMTT(40) DEF RecordsHaveFile
  <2>3. \A k \in DOMAIN to_writer'[w] : to_writer'[w][k].do # "record"
    BY <1>2, <2>2
  <2>4. RecordsHaveFile'
    <3> SUFFICES ASSUME NEW v \in Writers, NEW k \in DOMAIN to_writer'[v],
                        to_writer'[v][k].do = "record"
                 PROVE  file'[v].run # 0 /\ \A l \in 1 .. k : to_writer'[v][l].do = "record"
      BY Zenon DEF RecordsHaveFile
    <3>1. v # w
      BY <2>3, Zenon
    <3> QED BY <1>1, <1>2, <3>1 DEF RecordsHaveFile
  <2> QED BY <1>1, <2>1, <2>4, Zenon DEF NoWriteWithoutFile
<1>4. CASE c.do = "record"
  <2>1. record_image(w, c)
    BY <1>2, <1>4, Zenon DEF WriterLoop
  <2>2. file[w].run # 0
    BY <1>1, <1>2, <1>4, 1 \in 1 .. n, Zenon DEF RecordsHaveFile
  <2>3. file'[w].run # 0 /\ crashed' = crashed
    BY <1>1, <1>2, <2>1, <2>2, RecordEffect, Zenon
  <2>4. RecordsHaveFile'
    <3> SUFFICES ASSUME NEW v \in Writers, NEW k \in DOMAIN to_writer'[v],
                        to_writer'[v][k].do = "record"
                 PROVE  file'[v].run # 0 /\ \A l \in 1 .. k : to_writer'[v][l].do = "record"
      BY DEF RecordsHaveFile
    <3>1. CASE v # w
      BY <1>1, <1>2, <3>1 DEF RecordsHaveFile
    <3>2. CASE v = w
      <4>1. k \in 1 .. n - 1 /\ k + 1 \in 1 .. n /\ to_writer[w][k + 1].do = "record"
        BY <1>2, <3>2, SMTT(40)
      <4>2. \A l \in 1 .. k + 1 : to_writer[w][l].do = "record"
        BY <1>1, <1>2, <4>1, Zenon DEF RecordsHaveFile
      <4>3. ASSUME NEW l \in 1 .. k PROVE to_writer'[w][l].do = "record"
        <5>1. l \in 1 .. n - 1 /\ l + 1 \in 1 .. k + 1
          BY <1>2, <4>1
        <5> QED BY <1>2, <4>2, <5>1
      <4> QED BY <2>3, <3>2, <4>3, Zenon
    <3> QED BY <3>1, <3>2, Zenon
  <2> QED BY <1>1, <2>3, <2>4, Zenon DEF NoWriteWithoutFile
<1> QED BY <1>3, <1>4, Zenon

LEMMA ProgressWriter ==
  ASSUME UInv, PInv, NEW w \in Writers, WriterLoop(w)
  PROVE  PInv'
<1>1. /\ Types /\ Locals /\ Progress /\ Between
      /\ UNCHANGED <<thread, conditions, monitor>>
      /\ to_writer[w] # << >> /\ ~Quiet
      /\ exited' \subseteq exited \cup {w} /\ (conditions.failures = {} => exited' = exited)
  BY Taken, Zenon DEF UInv, PInv, WriterLoop, Quiet
<1>2. Locals'
  BY <1>1, Zenon DEF Locals, Good, Active, Calm
<1>3. Between'
  BY <1>1, Zenon DEF Between, Calm, Active
<1>4. \A t \in Runs :
        thread[t].at \in {"record", "receive", "confirm", "close"} => exited' = {}
  <2> SUFFICES ASSUME NEW t \in Runs, thread[t].at \in {"record", "receive", "confirm", "close"}
               PROVE  exited' = exited
    BY <1>1, Zenon DEF Progress
  <2>1. \A do, i : Command(do, t, i).do = do
    BY Zenon DEF Command
  <2>2. to_writer[w][1].do # "create"
    <3>1. CASE thread[t].at \in {"record", "receive"}
      <4>1. Recording(w, t)
        BY <1>1, <3>1, Zenon DEF Progress
      <4> QED BY <1>1, <2>1, <4>1, Taken DEF Recording, Asked
    <3>2. CASE thread[t].at = "confirm"
      <4>1. Confirming(w, t)
        BY <1>1, <3>2, Zenon DEF Progress
      <4>2. /\ Len(to_writer[w]) \in Nat \ {0} /\ Asked(w, t, Len(to_writer[w]) - 1)
            /\ to_writer[w][Len(to_writer[w])] = Command("confirm", t, 0)
        BY <1>1, <4>1, Taken, Zenon DEF Confirming
      <4> QED BY <2>1, <4>2 DEF Asked
    <3>3. CASE thread[t].at = "close"
      <4>1. Closing(w, t)
        BY <1>1, <3>3, Zenon DEF Progress
      <4> QED BY <1>1, <2>1, <4>1 DEF Closing
    <3> QED BY <3>1, <3>2, <3>3, ZenonT(40)
  <2> QED BY <1>1, <2>2, Taken, Zenon DEF WriterLoop, record_image, writers
<1>5. \A t \in Runs : thread[t].at # "spawned"
  BY <1>1, Zenon DEF Progress
<1>6. Progress'
  BY <1>1, <1>4, <1>5, CreatingWriter, RecordingWriter, ConfirmingWriter, ClosingWriter, SavedKept, Zenon
     DEF Progress
<1> QED BY <1>2, <1>3, <1>6, RecordsWriter, Zenon DEF PInv

-----------------------------------------------------------------------------
LEMMA ProgressInit == Init => PInv
<1> SUFFICES ASSUME Init PROVE PInv
  OBVIOUS
<1>1. \A t \in Runs : /\ thread[t].at = "none" /\ thread[t].i = 0
                      /\ thread[t].next = 0 /\ thread[t].acked = 0
  BY Zenon DEF Init, NotStarted
<1>2. /\ \A w \in Writers : to_writer[w] = << >> /\ from_writer[w] = << >>
      /\ exited = {} /\ crashed = {}
  BY Zenon DEF Init
<1>3. Locals /\ Progress
  BY <1>1 DEF Locals, Progress, Good, Active
<1>4. Between /\ RecordsHaveFile /\ NoWriteWithoutFile
  BY <1>2 DEF Between, Quiet, RecordsHaveFile, NoWriteWithoutFile
<1> QED BY <1>3, <1>4, Zenon DEF PInv

\* No answer of an earlier run is left when a run starts.
LEMMA QuietAtStart ==
  ASSUME SingleUser, Orderly, UInv, PInv, NEW s \in Sessions, start_recording(s)
  PROVE  Quiet
<1>1. Types /\ Locals /\ Between
  BY Zenon DEF UInv, PInv
<1>2. CASE Calm
  <2>1. \A t \in Runs : ~Active(t)
    BY Zenon DEF start_recording, SingleUser, UInv, Told
  <2>2. \A r \in Sessions : monitor[r] # "gone"
    BY Zenon DEF start_recording, SingleUser, IsOpen
  <2> QED BY <1>1, <1>2, <2>1, <2>2, Zenon DEF Between
<1>3. CASE ~Calm
  <2>1. conditions.runs <= 1 /\ conditions.runs \in Nat
    BY <1>1, <1>3, ConstantsAssumption DEF Orderly, Calm, Types
  <2>2. PICK t \in Runs : t <= conditions.runs /\ thread[t].at = "none"
    BY <1>1, StartEffect, Zenon
  <2>3. \A u \in Runs : u # t => thread[u].at = "none"
    BY <1>1, <2>1, <2>2 DEF Locals, Runs
  <2> QED BY <1>1, <2>2, <2>3, Zenon DEF Between
<1> QED BY <1>2, <1>3, Zenon

\* What the threads and the writers have in hand is all that Progress is about.
LEMMA ProgressKept ==
  ASSUME Progress,
         UNCHANGED <<conditions, thread, to_writer, from_writer, file, exited, saved>>
  PROVE  Progress'
<1>0. /\ Quiet' <=> Quiet
      /\ \A t \in Runs : Good(t)' <=> Good(t)
      /\ \A w \in Writers : Written(w)' = Written(w)
      /\ \A t \in Runs, w \in Writers : /\ Answered(w, t)' <=> Answered(w, t)
                                        /\ Opened(w, t)' <=> Opened(w, t)
  BY Zenon DEF Quiet, Good, Written, Answered, Opened
<1>1. \A t \in Runs, w \in Writers : SavedFile(w, t) => SavedFile(w, t)'
  BY ZenonT(40) DEF SavedFile
<1>2. \A t \in Runs, w \in Writers : Creating(w, t) => Creating(w, t)'
  BY <1>0 DEF Creating, Calm
<1>3. \A t \in Runs, w \in Writers : Recording(w, t) => Recording(w, t)'
  BY <1>0, ZenonT(40) DEF Recording, Asked
<1>4. \A t \in Runs, w \in Writers : Confirming(w, t) => Confirming(w, t)'
  BY <1>0 DEF Confirming, Asked
<1>5. \A t \in Runs, w \in Writers : Closing(w, t) => Closing(w, t)'
  BY <1>0, <1>1, Zenon DEF Closing
<1> QED BY <1>0, <1>1, <1>2, <1>3, <1>4, <1>5, Zenon DEF Progress

LEMMA ProgressSession ==
  ASSUME SingleUser, Orderly, UInv, PInv, NEW s \in Sessions, Session(s)
  PROVE  PInv'
<1>1. /\ Types /\ Locals /\ Progress /\ Between /\ RecordsHaveFile /\ NoWriteWithoutFile
      /\ UNCHANGED <<conditions, to_writer, from_writer, file, crashed, exited, saved>>
  BY Zenon DEF UInv, PInv, Session, accept_and_process, Disconnect, start_recording,
     close_socket_handler, JoinAgain, stop_recording, TellEnd, BackToIdle, sockets, writers
<1>2. RecordsHaveFile' /\ NoWriteWithoutFile' /\ Quiet' = Quiet /\ Calm' = Calm
  BY <1>1, Zenon DEF RecordsHaveFile, NoWriteWithoutFile, Quiet, Calm
<1>3. ASSUME NEW t \in Runs, thread'[t].at = "saved", thread'[t].i = thread[t].i,
             thread[t].at = "saved", NEW w \in Writers
      PROVE  SavedFile(w, t)'
  BY <1>1, <1>3, Zenon DEF Progress, SavedFile
<1>4. CASE start_recording(s)
  <2>1. PICK t \in Runs :
          /\ t <= conditions.runs /\ thread[t].at = "none"
          /\ \A u \in Runs : u # t => thread'[u] = thread[u]
          /\ thread'[t].at = "spawned" /\ thread'[t].i = 0
          /\ thread'[t].next = 0 /\ thread'[t].acked = 0
    BY <1>1, <1>4, StartEffect, Zenon
  <2>2. \A u \in Runs : ~Active(u)
    BY <1>4, Zenon DEF start_recording, SingleUser, UInv, Told
  <2>3. \A u \in Runs : u # t => ~Active(u)' /\ thread'[u] = thread[u]
    BY <2>1, <2>2, Zenon DEF Active
  <2>4. Locals'
    BY <1>1, <1>2, <2>1 DEF Locals, Good, Active
  <2>5. Quiet
    BY <1>4, QuietAtStart, Zenon
  <2>6. Progress'
    <3> SUFFICES ASSUME NEW u \in Runs
                 PROVE  /\ thread'[u].at \in {"none", "spawned", "saved", "failed", "ended"}
                        /\ thread'[u].at = "saved" => \A w \in Writers : SavedFile(w, u)'
      BY <1>2, <2>5, Zenon DEF Progress
    <3>1. CASE u = t
      BY <2>1, <3>1, Zenon
    <3>2. CASE u # t
      <4>1. thread'[u] = thread[u] /\ thread[u] \in Threads /\ ~Active(u)
        BY <1>1, <2>2, <2>3, <3>2, Zenon DEF Types
      <4> QED BY <1>3, <4>1, Zenon DEF Active, Threads, Stages
    <3> QED BY <3>1, <3>2, Zenon
  <2>7. Between'
    BY <1>1, <1>2, <2>5, Zenon DEF Between
  <2> QED BY <1>2, <2>4, <2>6, <2>7, Zenon DEF PInv
<1>5. CASE JoinAgain(s)
  <2>1. \A t \in Runs :
          /\ thread'[t].i = thread[t].i /\ thread'[t].next = thread[t].next
          /\ thread'[t].acked = thread[t].acked
          /\ ~Active(t) => thread'[t].at = thread[t].at
          /\ Active(t) => thread'[t].at = "ended"
    BY <1>1, <1>5, ZenonT(40) DEF JoinAgain, Types, Threads
  <2>2. \A t \in Runs : /\ ~Active(t)'
                        /\ thread'[t].at \in {"saved", "none"} => thread[t].at = thread'[t].at
                        /\ thread[t].at = "none" => thread'[t].at = "none"
    BY <2>1, Zenon DEF Active
  <2>3. Locals'
    BY <1>1, <1>2, <2>1, <2>2 DEF Locals, Good, Active
  <2>4. Progress'
    BY <1>3, <2>1, <2>2, Zenon DEF Progress, Active
  <2>5. Between'
    <3>1. monitor'[s] = "gone"
      BY <1>5, Zenon DEF JoinAgain
    <3> QED BY <1>1, <1>2, <2>2, <3>1, Zenon DEF Between
  <2> QED BY <1>2, <2>3, <2>4, <2>5, Zenon DEF PInv
<1>6. CASE UNCHANGED thread /\ \A r \in Sessions : monitor[r] = "gone" => monitor'[r] = "gone"
  <2>1. Locals' /\ Between'
    BY <1>1, <1>2, <1>6, Zenon DEF Locals, Between, Good, Active
  <2>2. Progress'
    BY <1>1, <1>6, ProgressKept, Zenon
  <2> QED BY <1>2, <2>1, <2>2, Zenon DEF PInv
<1>7. ~start_recording(s) /\ ~JoinAgain(s) =>
        UNCHANGED thread /\ \A r \in Sessions : monitor[r] = "gone" => monitor'[r] = "gone"
  BY <1>1, Zenon DEF Session, accept_and_process, Disconnect, close_socket_handler, stop_recording,
     TellEnd, BackToIdle, sessions, Types
<1> QED BY <1>4, <1>5, <1>6, <1>7, Zenon

LEMMA ProgressStutter ==
  ASSUME UInv, PInv, UNCHANGED vars
  PROVE  PInv'
<1>1. UNCHANGED <<conditions, thread, to_writer, from_writer, file, crashed, exited, saved, monitor>>
  BY Zenon DEF vars, sockets, writers, sessions
<1>2. Progress'
  BY <1>1, ProgressKept, Zenon DEF PInv
<1>3. Locals' /\ Between'
  BY <1>1, Zenon DEF PInv, Locals, Between, Quiet, Good, Active, Calm
<1>4. RecordsHaveFile' /\ NoWriteWithoutFile'
  BY <1>1, Zenon DEF PInv, RecordsHaveFile, NoWriteWithoutFile
<1> QED BY <1>2, <1>3, <1>4, Zenon DEF PInv

LEMMA Invariance ==
  ASSUME SingleUser, Orderly PROVE Spec => [](UInv /\ PInv)
<1>1. UInv /\ PInv /\ [Next]_vars => PInv'
  <2> SUFFICES ASSUME UInv, PInv, [Next]_vars PROVE PInv'
    OBVIOUS
  <2>1. ASSUME NEW t \in Runs, RunThread(t) PROVE PInv'
    BY <2>1, ProgressThread, LocalsThread, BetweenThread, RecordsThread, Zenon DEF PInv
  <2> QED BY <2>1, ProgressWriter, ProgressSession, ProgressStutter, Zenon DEF Next
<1> QED BY <1>1, ProgressInit, UserInvariance, PTL DEF Spec

\* No writer is asked to write an image before it has a file, for any number
\* of writers, images and runs: one user, and no second run after writers that
\* failed or were late.
THEOREM WritersHaveFiles ==
  ASSUME SingleUser, Orderly PROVE Spec => []NoWriteWithoutFile
<1>1. PInv => NoWriteWithoutFile
  BY Zenon DEF PInv
<1> QED BY <1>1, Invariance, PTL

-----------------------------------------------------------------------------
LEMMA NthOrder ==
  ASSUME NEW w \in Writers, NEW k \in Int, NEW l \in Int, l < k
  PROVE  Nth(w, l) < Nth(w, k)
<1> DEFINE S == Stride(w)
<1>1. S \in Nat \ {0} /\ Offset(w) \in 0 .. S - 1
  BY StrideType, Zenon
<1> HIDE DEF S
<1>2. l * S <= (k - 1) * S
  BY <1>1, ProductMonotone, l <= k - 1
<1>3. l * S = (l - 1) * S + S
  BY <1>1, ProductNext, (l - 1) + 1 = l
<1> QED BY <1>1, <1>2, <1>3 DEF Nth, S

\* An image below n is in the share of n images of the writers it is sent to,
\* and of no other.
LEMMA ShareHolds ==
  ASSUME NEW w \in Writers, NEW m \in Nat, NEW n \in Nat, Share(w, m, n),
         NEW i \in 0 .. n - 1
  PROVE  w \in Receivers(i) <=> \E k \in 1 .. m : Nth(w, k) = i
<1> DEFINE S == Stride(w)
           q == i \div S
           p == i % S
<1>0. i \in Nat /\ i < n
  OBVIOUS
<1>1. S \in Nat \ {0} /\ Offset(w) \in 0 .. S - 1
  BY StrideType, Zenon
<1>2. q \in Nat /\ p \in 0 .. S - 1 /\ i = q * S + p
  BY <1>0, <1>1, DivMod, Zenon
<1>3. w \in Receivers(i) <=> p = Offset(w)
  BY <1>0, ReceiversOf, Zenon
<1> HIDE DEF S, q, p
<1>4. \A k \in Int : Nth(w, k) = (k - 1) * S + Offset(w)
  BY Zenon DEF Nth, S
<1>5. ASSUME NEW k \in 1 .. m, Nth(w, k) = i PROVE p = Offset(w)
  <2>1. k - 1 \in Int /\ q \in Int
    BY <1>2
  <2>2. (k - 1) * S + Offset(w) <= q * S + p
    BY <1>0, <1>2, <1>4, <1>5
  <2>3. (k - 1) * S + Offset(w) = q * S + p => k - 1 = q /\ Offset(w) = p
    BY <1>1, <1>2, <2>1, <2>2, QuotientOrder
  <2> QED BY <1>2, <1>4, <1>5, <2>3
<1>6. ASSUME p = Offset(w) PROVE \E k \in 1 .. m : Nth(w, k) = i
  <2>1. q + 1 \in Int /\ (q + 1) - 1 = q /\ m + 1 \in Int
    BY <1>2
  <2>2. Nth(w, q + 1) = i
    BY <1>2, <1>4, <1>6, <2>1, Zenon
  <2>3. Nth(w, q + 1) < Nth(w, m + 1)
    BY <1>0, <2>1, <2>2, NthType DEF Share
  <2>4. q + 1 <= m
    <3> SUFFICES ASSUME m + 1 <= q + 1 PROVE FALSE
      BY <1>2
    <3>1. CASE m + 1 = q + 1
      BY <2>1, <2>3, <3>1, NthType
    <3>2. CASE m + 1 < q + 1
      BY <2>1, <2>3, <3>2, NthOrder, NthType
    <3> QED BY <1>2, <3>1, <3>2
  <2> QED BY <1>2, <2>2, <2>4
<1> QED BY <1>3, <1>5, <1>6, Zenon

\* Every image goes to one data writer.
LEMMA OneDataWriter ==
  ASSUME NEW i \in Nat
  PROVE  /\ get_current_writer_index(i) \in DataWriters
         /\ \A v \in DataWriters : v \in Receivers(i) <=> v = get_current_writer_index(i)
<1>1. CASE with_metadata_writer
  <2>1. i % (n_sockets - 1) \in 0 .. n_sockets - 2
    BY <1>1, ConstantsAssumption
  <2> QED BY <1>1, <2>1, ConstantsAssumption
          DEF Receivers, get_current_writer_index, DataWriters, Writers
<1>2. CASE ~with_metadata_writer
  <2>1. i % n_sockets \in 0 .. n_sockets - 1
    BY ConstantsAssumption
  <2> QED BY <1>2, <2>1, ConstantsAssumption, Zenon
          DEF Receivers, get_current_writer_index, DataWriters, Writers
<1> QED BY <1>1, <1>2, Zenon

\* The shares of two data writers differ by one image at most.
LEMMA SharesAreEven ==
  ASSUME NEW v \in DataWriters, NEW w \in DataWriters, NEW a \in Nat, NEW b \in Nat,
         NEW n \in Nat, Share(v, a, n), Share(w, b, n)
  PROVE  a <= b + 1
<1> SUFFICES ASSUME a > 0 PROVE a <= b + 1
  OBVIOUS
<1>0. v \in Writers /\ w \in Writers
  BY Zenon DEF DataWriters
<1> DEFINE S == Stride(w)
<1>1. S \in Nat \ {0} /\ Offset(w) \in 0 .. S - 1 /\ Offset(v) \in 0 .. S - 1 /\ Stride(v) = S
  BY <1>0, StrideType, ConstantsAssumption, Zenon DEF DataWriters, Stride
<1> HIDE DEF S
<1>2. Nth(v, a) = (a - 1) * S + Offset(v) /\ Nth(w, b + 1) = b * S + Offset(w)
  BY <1>1 DEF Nth, S
<1>3. (a - 1) * S + Offset(v) <= b * S + Offset(w)
  BY <1>0, <1>2, NthType DEF Share
<1>4. a - 1 \in Int /\ b \in Int
  OBVIOUS
<1>5. a - 1 <= b
  BY <1>1, <1>3, <1>4, QuotientOrder
<1> QED BY <1>5

\* The shares of n images make up the files of a complete run.
LEMMA SharesAreComplete ==
  ASSUME NEW t \in Runs, NEW n \in Nat, NEW f \in [Writers -> Seq(Runs \X Nat)],
         \A w \in Writers : Holds(w, t, f[w]) /\ Share(w, Len(f[w]), n)
  PROVE  CompleteFiles(t, n, f)
<1>1. \A w \in Writers : /\ f[w] \in Seq(Runs \X Nat) /\ Len(f[w]) \in Nat
                         /\ DOMAIN f[w] = 1 .. Len(f[w])
  OBVIOUS
<1>2. \A w \in Writers : \A k \in DOMAIN f[w] :
        /\ f[w][k][1] = t /\ f[w][k][2] = Nth(w, k)
        /\ f[w][k] = <<t, Nth(w, k)>>
  BY DEF Holds
<1>3. ASSUME NEW w \in Writers, NEW k \in DOMAIN f[w], NEW l \in 1 .. k - 1
      PROVE  f[w][l][2] < f[w][k][2]
  <2>1. l \in DOMAIN f[w] /\ k \in Int /\ l \in Int /\ l < k
    BY <1>1
  <2> QED BY <1>2, <2>1, NthOrder, Zenon
<1>4. \A w \in Writers : \A i \in 0 .. n - 1 : <<t, i>> \in Range(f[w]) <=> w \in Receivers(i)
  <2> TAKE w \in Writers
  <2> TAKE i \in 0 .. n - 1
  <2>1. <<t, i>> \in Range(f[w]) <=> \E k \in DOMAIN f[w] : Nth(w, k) = i
    BY <1>2 DEF Range
  <2>2. w \in Receivers(i) <=> \E k \in 1 .. Len(f[w]) : Nth(w, k) = i
    BY <1>1, ShareHolds
  <2> QED BY <1>1, <2>1, <2>2, Zenon
<1>5. ASSUME NEW i \in 0 .. n - 1
      PROVE  \E w \in DataWriters : \A v \in DataWriters : <<t, i>> \in Range(f[v]) <=> v = w
  <2>1. i \in Nat /\ DataWriters \subseteq Writers
    BY DEF DataWriters
  <2> QED BY <1>4, <2>1, OneDataWriter, Zenon
<1>6. \A v, w \in DataWriters : Len(f[v]) <= Len(f[w]) + 1
  BY <1>1, SharesAreEven, Zenon DEF DataWriters
<1>7. ASSUME with_metadata_writer PROVE Range(f[0]) = {<<t, i>> : i \in 0 .. n - 1}
  <2>1. 0 \in Writers
    BY ConstantsAssumption DEF Writers
  <2>2. \A i \in 0 .. n - 1 : <<t, i>> \in Range(f[0])
    BY <1>4, <1>7, <2>1, Zenon DEF Receivers
  <2>3. \A k \in DOMAIN f[0] : Nth(0, k) \in 0 .. n - 1
    <3> TAKE k \in DOMAIN f[0]
    <3>1. k \in 1 .. Len(f[0]) /\ Len(f[0]) \in Nat /\ k \in Int
      BY <1>1, <2>1
    <3>2. Nth(0, Len(f[0])) < n
      BY <2>1, <3>1 DEF Share
    <3>3. k < Len(f[0]) => Nth(0, k) < Nth(0, Len(f[0]))
      BY <2>1, <3>1, NthOrder
    <3>4. Nth(0, k) \in Nat /\ Nth(0, Len(f[0])) \in Int
      BY <2>1, <3>1, NthType
    <3> QED BY <3>1, <3>2, <3>3, <3>4
  <2>4. \A x \in Range(f[0]) : x \in {<<t, i>> : i \in 0 .. n - 1}
    BY <1>2, <2>1, <2>3 DEF Range
  <2> QED BY <2>2, <2>4, Zenon
<1> QED BY <1>2, <1>3, <1>5, <1>6, <1>7, Zenon DEF CompleteFiles

\* A run that ends with file_saved has left complete and closed files, for any
\* number of writers, images and runs: one user, and no second run after
\* writers that failed or were late.
THEOREM SavedFilesAreComplete ==
  ASSUME SingleUser, Orderly PROVE Spec => []SavedIsComplete
<1>1. UInv /\ PInv => SavedIsComplete
  <2> SUFFICES ASSUME UInv, PInv, NEW t \in Runs, thread[t].at = "saved"
               PROVE  \E f \in [Writers -> UNION {{g.images : g \in saved[w]} : w \in Writers}] :
                        /\ \A w \in Writers : [run |-> t, images |-> f[w]] \in saved[w]
                        /\ CompleteFiles(t, thread[t].i, f)
    BY Zenon DEF SavedIsComplete
  <2> DEFINE Of(w, g) == /\ g.run = t /\ Holds(w, t, g.images)
                         /\ Share(w, Len(g.images), thread[t].i)
             G(w) == CHOOSE g \in saved[w] : Of(w, g)
             f == [w \in Writers |-> G(w).images]
  <2>1. \A w \in Writers : saved[w] \subseteq Files /\ thread[t].i \in Nat
    BY FieldTypes, Zenon DEF UInv, Types
  <2>2. \A w \in Writers : G(w) \in saved[w] /\ Of(w, G(w))
    <3>1. \A w \in Writers : \E g \in saved[w] : Of(w, g)
      BY Zenon DEF PInv, Progress, SavedFile
    <3> QED BY <3>1, Zenon
  <2> HIDE DEF G
  <2>3. \A w \in Writers : /\ f[w] = G(w).images /\ f[w] \in Seq(Runs \X Nat)
                           /\ G(w) = [run |-> t, images |-> f[w]]
    <3> TAKE w \in Writers
    <3>1. G(w) \in Files /\ G(w).run = t /\ f[w] = G(w).images
      BY <2>1, <2>2, Zenon
    <3> QED BY <3>1, Zenon DEF Files
  <2>4. f \in [Writers -> UNION {{g.images : g \in saved[w]} : w \in Writers}]
    BY <2>2
  <2>5. \A w \in Writers : [run |-> t, images |-> f[w]] \in saved[w]
    BY <2>2, <2>3, Zenon
  <2>6. f \in [Writers -> Seq(Runs \X Nat)]
    BY <2>3, Zenon
  <2>7. \A w \in Writers : Holds(w, t, f[w]) /\ Share(w, Len(f[w]), thread[t].i)
    BY <2>2, <2>3, Zenon
  <2> HIDE DEF f
  <2>8. thread[t].i \in Nat
    BY FieldTypes, Zenon DEF UInv
  <2>9. CompleteFiles(t, thread[t].i, f)
    BY <2>6, <2>7, <2>8, SharesAreComplete, Zenon
  <2> QED BY <2>4, <2>5, <2>9, Zenon
<1> QED BY <1>1, Invariance, PTL

=============================================================================
