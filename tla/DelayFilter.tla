---------------------------- MODULE DelayFilter ----------------------------
(***************************************************************************)
(* std_delay_filter: holds back the metadata of images in a circular       *)
(* buffer and forwards it in the same order, either when it is older than  *)
(* delay_filter_timeout or when the buffer is full, so that the image data *)
(* is still in the shared ring buffer of the detector when it is used.     *)
(***************************************************************************)
EXTENDS Integers, Sequences

CONSTANTS
  slots,       \* slots of the detector's ring buffer
  min_history, \* min_history_needed_for_operation, 998 in the code
  Period,      \* delay_filter_timeout, in clock ticks
  MaxGap,      \* consecutive ids of the stream differ by at most this much
  MaxImages    \* bound on the images of one behaviour

ASSUME FilterAssumption ==
  /\ slots \in Nat /\ min_history \in Nat
  /\ slots >= min_history + 2
  /\ Period \in Nat
  /\ MaxGap \in Nat \ {0}
  /\ MaxImages \in Nat

VARIABLES
  inbox,     \* messages of the input stream not read yet
  buffer_,   \* circular buffer: [age since the push, image id]
  begin_,    \* oldest entry
  end_,      \* next free entry
  received,  \* history: ids pushed so far
  forwarded  \* history: ids forwarded, each with the newest id at that time

filter_vars == <<inbox, buffer_, begin_, end_, received, forwarded>>

\* Slip: one slot too many is used for the delay.
size_off_by_one == slots - min_history + 1

size == slots - min_history

Expired == Period + 1

\* What moving a message out of its slot, or creating it, leaves there.
EmptyMeta == 0

increment(index) == (index + 1) % size

-----------------------------------------------------------------------------
(* The stream and the clock.                                               *)

Last(s) == IF s = << >> THEN EmptyMeta ELSE s[Len(s)]

\* A message is published on the input stream; ids grow, with gaps where the
\* synchronizer gave an image up.
Publish ==
  /\ Len(received \o inbox) < MaxImages
  /\ \E gap \in 1 .. MaxGap : inbox' = Append(inbox, Last(received \o inbox) + gap)
  /\ UNCHANGED <<buffer_, begin_, end_, received, forwarded>>

\* Entries older than the period are all alike.
Older(age) == IF age < Expired THEN age + 1 ELSE age

Tick ==
  /\ buffer_' = [i \in DOMAIN buffer_ |-> [buffer_[i] EXCEPT !.age = Older(@)]]
  /\ buffer_' # buffer_
  /\ UNCHANGED <<inbox, begin_, end_, received, forwarded>>

-----------------------------------------------------------------------------
(* One iteration of the loop in main: push, then at most one pop.          *)

push(id) == [buffer_ EXCEPT ![end_] = [age |-> 0, id |-> id]]

\* index == end_ means full here: pop only ever follows a push.  The clock is
\* read again and may have moved on since the push.
MayPop(b, e) == begin_ = e \/ \E passed \in 0 .. 1 : b[begin_].age + passed > Period

\* Slip: a full buffer is not told from an empty one.
MayKeep_when_full(b, e) == b[begin_].age <= Period

MayKeep(b, e) == begin_ # e /\ b[begin_].age <= Period

forward(b, newest) ==
  /\ begin_' = increment(begin_)
  /\ buffer_' = [b EXCEPT ![begin_].id = EmptyMeta]
  /\ forwarded' = Append(forwarded, [id |-> b[begin_].id, newest |-> newest])

process ==
  /\ inbox # << >>
  /\ LET id == Head(inbox)
         b  == push(id)
         e  == increment(end_)
     IN  /\ inbox' = Tail(inbox)
         /\ received' = Append(received, id)
         /\ end_' = e
         /\ \/ MayPop(b, e) /\ forward(b, id)
            \/ MayKeep(b, e) /\ buffer_' = b /\ UNCHANGED <<begin_, forwarded>>

-----------------------------------------------------------------------------

FilterInit ==
  /\ inbox = << >>
  /\ buffer_ = [i \in 0 .. size - 1 |-> [age |-> Expired, id |-> EmptyMeta]]
  /\ begin_ = 0
  /\ end_ = 0
  /\ received = << >>
  /\ forwarded = << >>

FilterNext == Publish \/ Tick \/ process

FilterSpec == FilterInit /\ [][FilterNext]_filter_vars

\* Time passes and the loop runs; the stream may end at any time.
FilterFairSpec == FilterSpec /\ WF_filter_vars(Tick) /\ WF_filter_vars(process)

-----------------------------------------------------------------------------

\* Type correctness; the indices stay inside the buffer.
FilterTypeOK ==
  /\ inbox \in Seq(Nat)
  /\ buffer_ \in [0 .. size - 1 -> [age : 0 .. Expired, id : Nat]]
  /\ begin_ \in 0 .. size - 1
  /\ end_ \in 0 .. size - 1
  /\ received \in Seq(Nat)
  /\ forwarded \in Seq([id : Nat, newest : Nat])

\* The images leave in the order in which they came, none is skipped, sent
\* twice, overwritten in the circular buffer, or sent as an empty message.
ForwardedInOrder ==
  /\ Len(forwarded) <= Len(received)
  /\ \A k \in 1 .. Len(forwarded) : forwarded[k].id = received[k]

\* A forwarded image is at most slots - min_history - 1 ids behind the newest
\* one: a writer that is less than min_history images ahead of the metadata has
\* not overwritten its slot of the ring buffer yet.
StillInRing ==
  \A k \in 1 .. Len(forwarded) : forwarded[k].newest - forwarded[k].id + min_history < slots

\* processing.md: delay_filter_timeout is the maximum time after which images
\* are forwarded; so every image that came in is forwarded at some time.
DelayIsBounded ==
  \A n \in 1 .. MaxImages : Len(received) >= n ~> Len(forwarded) >= n

=============================================================================
