---------------------------- MODULE MCRecordLink ----------------------------
(* Instances of RecordLink for TLC. *)
EXTENDS RecordLink

Bytes == 0..11

(* Records that are empty, look like lengths and ends of packets, and a    *)
(* packet that makes the buffers grow, one that is too long, and none.     *)
TestPackets ==
  {<<>>, <<<<>>>>, <<<<1>>, <<NL, NL>>>>, <<<<2, NL, 11, 11, 11>>, <<>>>>,
   <<<<1, NL, 1, NL, NL, 11, 11, 11>>>>}

=============================================================================
