---------------------------- MODULE BboPublisher ----------------------------
(***************************************************************************)
(* The publisher of the best bid and offer, src/src/bbo_publisher.cpp, and *)
(* the frames of src/src/bbo_protocol.cpp.  Every reader of the snapshot   *)
(* runs a publisher of its own: a call of try_publish() is a read of the   *)
(* snapshot and, when the read returns a state, a step that writes a frame *)
(* unless the state is the one that was written last.                      *)
(***************************************************************************)
EXTENDS BboSnapshot

VARIABLE publishers   \* of each reader: last_published_ and the last frame written, if any

pvars == <<version, fields, writer, readers, published, publishers>>

-----------------------------------------------------------------------------
(* Frames.                                                                 *)

BboProtocolVersion == 1

\* A side is encoded as presence, price and quantity; an absent one is all zero.
encode_side(side) ==
  IF side[1] = NoPrice THEN <<0, 0, 0>> ELSE <<1, side[1], side[2]>>

encode_bbo_frame(state) ==
  [version |-> BboProtocolVersion, bid |-> encode_side(state.bid), ask |-> encode_side(state.ask)]

canonical_side(side) == side[1] \in 0 .. 1 /\ (side[1] = 0 => side = <<0, 0, 0>>)
decode_side(side) == IF side[1] = 1 THEN <<side[2], side[3]>> ELSE <<NoPrice, 0>>

\* The decoded state, or nothing.
decode_bbo_frame(frame) ==
  {[bid |-> decode_side(frame.bid), ask |-> decode_side(frame.ask)] :
    accepted \in {f \in {frame} : /\ f.version = BboProtocolVersion
                                  /\ canonical_side(f.bid) /\ canonical_side(f.ask)}}

-----------------------------------------------------------------------------
(* The rest of try_publish(), after the read.                              *)

\* Mutant of written: the state is remembered before it is written.
written_early(publisher, state, writable) ==
  IF publisher.last_published = {state} THEN publisher
  ELSE [last_published |-> {state},
        frame |-> IF writable THEN {encode_bbo_frame(state)} ELSE publisher.frame]

\* An output of the wrong size is an error, and the state counts as not published.
written(publisher, state, writable) ==
  IF publisher.last_published = {state} \/ ~writable THEN publisher
  ELSE [last_published |-> {state}, frame |-> {encode_bbo_frame(state)}]

\* The read has returned a state.
try_publish(r, writable) ==
  /\ end_read(r)
  /\ publishers' = [publishers EXCEPT ![r] = written(@, readers[r].result, writable)]

-----------------------------------------------------------------------------

PInit == Init /\ publishers = [r \in Readers |-> [last_published |-> {}, frame |-> {}]]

Poll(r) == begin_read(r) /\ UNCHANGED publishers

\* The read itself; without a state the call returns snapshot_unavailable.
ReadOn(r) == (load_version(r) \/ load_field(r) \/ check_version(r)) /\ UNCHANGED publishers

PNext ==
  \/ Publish /\ UNCHANGED publishers
  \/ \E r \in Readers : Poll(r) \/ ReadOn(r) \/ \E writable \in BOOLEAN : try_publish(r, writable)

\* The matching thread may stop anywhere.  A reader that is inside a call keeps
\* running, calls again, and does not pass an output of the wrong size for ever.
PSpec ==
  /\ PInit /\ [][PNext]_pvars
  /\ \A r \in Readers :
       /\ WF_pvars(ReadOn(r))
       /\ WF_pvars(\E writable \in BOOLEAN : try_publish(r, writable))
       /\ WF_pvars(Poll(r))
       /\ SF_pvars(try_publish(r, TRUE))

-----------------------------------------------------------------------------
(* Properties.                                                             *)

\* The feed catches up: when the matching thread stops publishing, the last frame
\* that try_publish() wrote ends up being the last published state, and a reader of
\* the frame decodes exactly that state, whatever was missed in between by reads
\* that gave up and by outputs that failed.
FeedCatchesUp ==
  <>[](writer.step = 0) =>
    <>[](\A r \in Readers : \E frame \in publishers[r].frame :
           decode_bbo_frame(frame) = {published[Len(published)]})

=============================================================================
