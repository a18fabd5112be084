--------------------------- MODULE CameraReceiver ---------------------------
(***************************************************************************)
(* std_array10_recv and std_bsread_recv: the images of a camera come over  *)
(* several ZMQ connections and go into the RAM buffer of the image stream. *)
(* The connections are read one after the other; at the end of each round  *)
(* the images of the round are announced in the order of their ids.        *)
(***************************************************************************)
EXTENDS Integers, Sequences, FiniteSets

LOCAL INSTANCE SequencesExt
LOCAL INSTANCE FiniteSetsExt

CONSTANTS
  Receivers,              \* [protocol, type] of the receivers in question
  number_of_connections,
  n_slots,                \* slots of the RAM buffer
  MaxFrames,              \* bound on the frames of the camera
  MaxFaults               \* bound on the messages without a frame number

ASSUME CameraAssumption ==
  /\ Receivers \subseteq [protocol : {"array10", "bsread"}, type : {"pull", "sub"}]
  /\ number_of_connections \in Nat \ {0}
  /\ n_slots \in Nat \ {0} /\ n_slots >= number_of_connections
  /\ MaxFrames \in Nat
  /\ MaxFaults \in Nat

VARIABLES
  receiver,    \* the member of Receivers that runs
  connection,  \* connection -> messages of the camera, not read yet
  at,          \* the connection to read next; after the last, announce
  meta_id,     \* image id in the metadata kept from message to message
  image_order, \* ids of the images of this round
  ring,        \* slot -> the image whose bytes it holds
  n_frames,    \* frames sent by the camera
  n_faults,
  published,   \* history: ids announced, in this order
  late,        \* history: frames not there yet when their turn came
  spoilt       \* history: images that share a slot with foreign bytes

camera == <<receiver, connection, at, meta_id, image_order, n_faults, late>>

Connections == 1 .. number_of_connections

NoImage == 0

Slot(id) == id % n_slots

\* PUSH deals the frames out in turn; PUB gives every connection every frame.
ConnectionsOf(frame) ==
  {c \in Connections : receiver.type = "sub" \/ c = 1 + ((frame - 1) % number_of_connections)}

\* The camera sends the next frame; a message may carry nothing that can be
\* read as its frame (array-1.0) or no channel (bsread).
send_frame(intact) ==
  LET frame == n_frames + 1
  IN  /\ frame <= MaxFrames
      /\ intact \/ n_faults < MaxFaults
      /\ connection' = [c \in Connections |->
           IF c \in ConnectionsOf(frame)
           THEN Append(connection[c], [frame |-> frame, intact |-> intact])
           ELSE connection[c]]
      /\ n_frames' = frame
      /\ n_faults' = IF intact THEN n_faults ELSE n_faults + 1
      /\ UNCHANGED <<receiver, at, meta_id, image_order, ring, published, late, spoilt>>

\* The image id under which the message is stored: array-1.0 keeps the last
\* one when the header cannot be parsed.
IdOf(msg) == IF msg.intact THEN msg.frame ELSE meta_id

\* The bytes go to their slot at once, the metadata wait for the round's end.
Keep(msg, id) ==
  /\ ring' = [ring EXCEPT ![Slot(id)] = msg.frame]
  /\ image_order' = image_order \cup {id}
  /\ spoilt' = IF msg.intact THEN spoilt \ {id} ELSE spoilt \cup {id}

\* One message of one connection is read.
Receive(protocol) ==
  /\ receiver.protocol = protocol
  /\ at \in Connections /\ connection[at] # << >>
  /\ connection' = [connection EXCEPT ![at] = Tail(@)]
  /\ at' = at + 1
  /\ UNCHANGED <<receiver, n_frames, n_faults, published, late>>

\* std_array10_recv stores the second part of every message.
array10_receive ==
  /\ Receive("array10")
  /\ LET msg == Head(connection[at])
     IN  meta_id' = IdOf(msg) /\ Keep(msg, IdOf(msg))

\* std_bsread_recv stores the first channel under the pulse id.
bsread_receive ==
  /\ Receive("bsread")
  /\ LET msg == Head(connection[at])
     IN  \/ msg.intact /\ Keep(msg, msg.frame)
         \/ ~msg.intact /\ UNCHANGED <<image_order, ring, spoilt>>
  /\ UNCHANGED meta_id

\* A second without a message.
receive_timeout ==
  /\ at \in Connections /\ connection[at] = << >>
  /\ late' = late \cup {f \in n_frames + 1 .. MaxFrames : at \in ConnectionsOf(f)}
  /\ at' = at + 1
  /\ UNCHANGED <<receiver, connection, meta_id, image_order, ring, n_frames, n_faults,
                 published, spoilt>>

Ascending(S) == SetToSortSeq(S, <)

\* Slip: the images are announced in the order of the connections.
announce_descending ==
  /\ at = number_of_connections + 1
  /\ published' = published \o Reverse(Ascending(image_order))
  /\ image_order' = {}
  /\ at' = 1
  /\ UNCHANGED <<receiver, connection, meta_id, ring, n_frames, n_faults, late, spoilt>>

announce ==
  /\ at = number_of_connections + 1
  /\ published' = published \o Ascending(image_order)
  /\ image_order' = {}
  /\ at' = 1
  /\ UNCHANGED <<receiver, connection, meta_id, ring, n_frames, n_faults, late, spoilt>>

InitReceiver ==
  /\ receiver \in Receivers
  /\ connection = [c \in Connections |-> << >>]
  /\ at = 1
  /\ meta_id = 0
  /\ image_order = {}
  /\ ring = [s \in 0 .. n_slots - 1 |-> NoImage]
  /\ n_frames = 0
  /\ n_faults = 0
  /\ published = << >>
  /\ late = {}
  /\ spoilt = {}

-----------------------------------------------------------------------------

\* Type correctness of the connections, the buffer and the receiver.
ReceiverTypeOK ==
  /\ receiver \in Receivers
  /\ \A c \in Connections : \A k \in DOMAIN connection[c] :
       connection[c][k] \in [frame : 1 .. MaxFrames, intact : BOOLEAN]
  /\ at \in 1 .. number_of_connections + 1
  /\ meta_id \in 0 .. MaxFrames
  /\ image_order \subseteq 0 .. MaxFrames
  /\ ring \in [0 .. n_slots - 1 -> 0 .. MaxFrames]

\* Whatever the receivers read with a frame number they announce.  With PUSH
\* they announce it exactly once, and after a newer image only if its
\* connection was found empty when it was its turn.
AnnouncedOnceInOrder ==
  LET unread == UNION {{connection[c][k].frame : k \in DOMAIN connection[c]} : c \in Connections}
  IN  n_faults = 0 =>
        /\ (1 .. n_frames) \ (unread \cup image_order) \subseteq Range(published)
        /\ receiver.type = "pull" =>
             \A i, j \in DOMAIN published : i < j =>
               \/ published[i] < published[j]
               \/ published[i] > published[j] /\ published[j] \in late
=============================================================================
