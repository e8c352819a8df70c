-------------------------------- MODULE MuLaw --------------------------------
(***************************************************************************)
(* The pure-Python telephone codec of app/telephony/audio_convert.py, used *)
(* where the interpreter has no audioop (Python 3.13 and later): samples   *)
(* of 16 bits, codes of 8.  The state is one sample that walks from the    *)
(* quietest to the loudest, so that a step compares two neighbours.        *)
(***************************************************************************)
EXTENDS Integers, Sequences

CONSTANTS Loudest,   \* the walk goes from -Loudest to Loudest, at most 32767
          Step       \* in steps of this many values, at least 1

VARIABLE sample

Bias == 132                                  \* 0x84
SegmentEnds == [e \in 0..7 |-> 252 * 2^e]    \* _SEG_ULAW_END: 0xFC << e

Least(a, b) == IF a <= b THEN a ELSE b

(* A code before its bits are inverted: sign, exponent, mantissa.           *)
pcm16_to_ulaw(s) ==
  LET size == Least((IF s < 0 THEN -s ELSE s) \div 4, 8191) + Bias
      e == CHOOSE k \in 0..7 : /\ size <= SegmentEnds[k]
                               /\ \A j \in 0..(k - 1) : size > SegmentEnds[j]
  IN [negative |-> s < 0, exponent |-> e, mantissa |-> (size \div 2^(e + 3)) % 16]

ulaw_to_pcm16(u) ==
  LET size == (u.mantissa * 8 + Bias) * 2^u.exponent - Bias
      s    == IF u.negative THEN -size ELSE size
  IN IF s * 4 > 32767 THEN 32767 ELSE IF s * 4 < -32768 THEN -32768 ELSE s * 4

Heard(s) == ulaw_to_pcm16(pcm16_to_ulaw(s))

Init == sample = -Loudest
Next == sample < Loudest /\ sample' = Least(sample + Step, Loudest)
Spec == Init /\ [][Next]_sample

-----------------------------------------------------------------------------
(* A G.711 code is ordered like the samples it stands for: a sample that is *)
(* not lower than another is not heard lower (_pcm16_to_ulaw_pure,          *)
(* _ulaw_to_pcm16_pure).                                                    *)
OrderKept == [][Heard(sample) <= Heard(sample')]_sample
=============================================================================
