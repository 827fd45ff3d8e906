--------------------------------- MODULE Pipe ---------------------------------
(***************************************************************************)
(* What a byte stream promises to its reader: bytes come out in the order  *)
(* they went in, none twice and none missing, until the stream is cut.     *)
(* Whatever is in transit at the cut may lose its end, and nothing is      *)
(* added any more.                                                         *)
(***************************************************************************)
EXTENDS Sequences, SequencesExt

VARIABLES
    transit,   \* what was sent and not yet received, oldest first
    got,       \* everything that was received
    cut        \* has the stream been cut?

Send == ~cut /\ IsPrefix(transit, transit') /\ UNCHANGED <<got, cut>>

Receive ==
    /\ \E n \in 1 .. Len(transit) :
          /\ got' = got \o SubSeq(transit, 1, n)
          /\ transit' = SubSeq(transit, n + 1, Len(transit))
    /\ UNCHANGED cut

Cut == ~cut /\ cut' /\ IsPrefix(transit', transit) /\ UNCHANGED got

PipeInit == transit = << >> /\ got = << >> /\ ~cut

PipeSpec == PipeInit /\ [][Send \/ Receive \/ Cut]_<<transit, got, cut>>
=============================================================================
