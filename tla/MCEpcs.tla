------------------------------- MODULE MCEpcs -------------------------------
(***************************************************************************)
(* A flash of four sectors of two pages of two bytes, two bits to a byte.  *)
(* Slot 0 is the lower half: a preamble, and two frames of data and CRC.   *)
(***************************************************************************)
EXTENDS Epcs

MCFrames == {2, 4}
MCEdit == {0}
MCSource == <<{1}, {0}, {}, {0}, {0, 1}>>

\* Slot 0 holds a bitstream, in the bit order of the flash: twice data {1} of
\* the file with CRC {0, 1}.  Slot 1 is blank, or holds another image; the
\* byte after an image belongs to nobody.
Boots == <<{1}, {0}, {0, 1}, {0}, {0, 1}>>
Held(slot1, tail) ==
    [x \in 0 .. 15 |-> CASE x < LEN -> Boots[x + 1]
                         [] x \in EPCS_TPU_BASE .. EPCS_TPU_BASE + LEN - 1
                               -> slot1[x - EPCS_TPU_BASE + 1]
                         [] OTHER -> tail]
MCFlashes == {Held([x \in 1 .. LEN |-> Ones], Ones),
              Held(<<{}, {0, 1}, {1}, {0}, {1}>>, {1})}
=============================================================================
