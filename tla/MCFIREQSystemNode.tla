--------------------------- MODULE MCFIREQSystemNode ---------------------------
(* A design with one DMA behind a switch of three FIFOs, one with a DMA for each *)
(* of two FIFOs.                                                                 *)
EXTENDS FIREQSystemNode

CONSTANTS a, b

MCAcqs == {a, b}

MCTopologies ==
    { << << <<a, "m00">>, <<a, "m01">>, <<b, "m01">> >> >>,
      << << <<a, "m01">> >>, << <<b, "m00">> >> >> }

\* A shot of 2, 1 and 1 bytes, or of 6, 2 and 1: two shots of 2 fit in a FIFO of 5
\* bytes, one of 6 does not.
MCDurations == {1, 3}

MCCounts == {0, 1, 3, 5}
=============================================================================
