---------------------------- MODULE MCLocalServices ----------------------------
(***************************************************************************)
(* A small instance of LocalServices for TLC, with two more parts, the     *)
(* readers of the pilot bridge's frames and of the encoder's pages.        *)
(***************************************************************************)
EXTENDS LocalServices, StreamReaders, TLC

\* The voice servers a VOICE reply may name are alike.
Symmetry == Permutations(Hosts)

\* Far from the field only one controller is in reach.
Reach == [p \in Places |-> IF p = "near" THEN Controllers ELSE {"c1"}]

-----------------------------------------------------------------------------
MCInit ==
    /\ part \in Services \cup {"frames", "ogg"}
    /\ PartsInit
    /\ FramesInit /\ (Idle("frames") => stream = <<TogglePacket>>)
    /\ OggInit /\ (Idle("ogg") => \A i \in DOMAIN packets : packets[i] = <<>>)

MCNext ==
    /\ PartsNext
    /\ IF part = "frames" THEN FramesNext ELSE UNCHANGED framesVars
    /\ IF part = "ogg" THEN OggNext ELSE UNCHANGED oggVars

MCSpec == MCInit /\ [][MCNext]_<<part, proxyVars, webVars, framesVars, oggVars>>

-----------------------------------------------------------------------------
\* However a stream is cut into chunks or pages, what was written is what is read.
StreamsReassembled == FramesSurviveChunking /\ PacketsSurvivePaging
==============================================================================
