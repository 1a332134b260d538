---------------------------- MODULE MCConnection ----------------------------
(***************************************************************************)
(* Up to three frames, with no, one or three bytes behind the header, and  *)
(* one stream whose first frame has a length of two bytes.  The bytes of a *)
(* header tell frames apart; other bytes are different from length bytes.  *)
(***************************************************************************)
EXTENDS Connection, SequencesExt

FrameOf(id, length) ==
  << 0, id, 0, 0, length \div 256, length % 256 >> \o [ b \in 1 .. length |-> 7 + id ]

MCStreams ==
  { FlattenSeq([ n \in DOMAIN lengths |-> FrameOf(n, lengths[n]) ])
      : lengths \in SeqOf({ 0, 1, 3 }, 3) \cup { << 256, 1 >> } }
=============================================================================
