--------------------------- MODULE ImageAssembly ---------------------------
(***************************************************************************)
(* What a synchronizer promises to the services behind it, whatever its    *)
(* cache looks like: several sources each report the parts of images in    *)
(* increasing order of image id (with gaps when data is lost), and an      *)
(* image id is published only when every source of its group has reported  *)
(* it, at most once, and in strictly increasing order within the group.    *)
(*                                                                         *)
(* ModuleSync and StreamSync are shown to implement this specification.    *)
(***************************************************************************)
EXTENDS Naturals, Sequences

CONSTANTS
  Sources,         \* the modules or image parts that make up the images
  Images,          \* the image ids
  SourceGroup(_),  \* the group a source belongs to
  ImageGroup(_)    \* the group of sources that carries an image

VARIABLES
  delivered,  \* delivered[s]: the ids source s has reported
  published   \* the ids sent out, oldest first

vars == <<delivered, published>>

Carriers(id) == {s \in Sources : SourceGroup(s) = ImageGroup(id)}

Complete(id) == \A s \in Carriers(id) : id \in delivered[s]

Newest(id) ==
  \A i \in DOMAIN published :
    ImageGroup(published[i]) = ImageGroup(id) => published[i] < id

Init ==
  /\ delivered = [s \in Sources |-> {}]
  /\ published = << >>

\* Source s reports its part of an image newer than all it reported before.
Deliver(s, id) ==
  /\ s \in Carriers(id)
  /\ \A i \in delivered[s] : i < id
  /\ delivered' = [delivered EXCEPT ![s] = @ \cup {id}]

\* The image goes out; its last part may have arrived in the same step.
Publish(id) ==
  /\ Carriers(id) # {}
  /\ Complete(id)'
  /\ Newest(id)
  /\ published' = Append(published, id)

Next ==
  \/ \E s \in Sources, id \in Images : Deliver(s, id) /\ UNCHANGED published
  \/ \E id \in Images : Publish(id) /\ UNCHANGED delivered
  \/ \E s \in Sources, id \in Images : Deliver(s, id) /\ Publish(id)

Spec == Init /\ [][Next]_vars
=============================================================================
