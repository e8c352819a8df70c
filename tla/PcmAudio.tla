------------------------------ MODULE PcmAudio ------------------------------
(***************************************************************************)
(* The audio operations of the reply path: cutting a byte stream into      *)
(* frames and resampling it (app/voice/audio.py).                          *)
(*                                                                         *)
(* Byte k of a provider's audio is <<k>>, a padding byte <<>>.  An         *)
(* interpolated sample v is the pair of samples and the fraction it is     *)
(* made of, and its two bytes are <<v, 1>> and <<v, 2>>.                   *)
(***************************************************************************)
EXTENDS Naturals, Sequences, SequencesExt

CONSTANTS FrameBytes,   \* VOICE_PCM_FRAME_BYTES
          SrcRate,      \* the provider's sample rate and the pipeline's, by
          DstRate       \* their ratio: 24000 and 16000 are 3 and 2

ASSUME PcmAssumption == /\ FrameBytes \in Nat \ {0}
                        /\ SrcRate \in Nat \ {0} /\ DstRate \in Nat \ {0}

Pad == <<>>

(* chunk_pcm_bytes: the whole frames of data, and the remainder.            *)
chunk_pcm_bytes(data) ==
  LET n == Len(data) \div FrameBytes
  IN [frames |-> [j \in 1..n |-> SubSeq(data, (j - 1) * FrameBytes + 1, j * FrameBytes)],
      rest   |-> SubSeq(data, n * FrameBytes + 1, Len(data))]

(* bytes.ljust(frame_bytes, 0) of a remainder.                              *)
Padded(data) == [j \in 1..FrameBytes |-> IF j <= Len(data) THEN data[j] ELSE Pad]

-----------------------------------------------------------------------------
(* Pcm16Resampler.  pos counts in units of 1/DstRate of a source sample.    *)
NewResampler == [pos |-> 0, last |-> <<>>, odd |-> <<>>]

Samples(data) == [i \in 1..(Len(data) \div 2) |-> <<data[2 * i - 1], data[2 * i]>>]
Bytes(v) == <<<<v, 1>>, <<v, 2>>>>

(* The samples at pos, pos + step, ... before the last one.                 *)
Outputs(pos, samples) ==
  LET end == (Len(samples) - 1) * DstRate
      n   == IF pos < end THEN (end - pos + SrcRate - 1) \div SrcRate ELSE 0
      p(j) == pos + (j - 1) * SrcRate
  IN [j \in 1..n |-> <<samples[p(j) \div DstRate + 1], samples[p(j) \div DstRate + 2],
                       p(j) % DstRate>>]

process_NoCarry(r, chunk) ==
  LET data == IF Len(r.odd \o chunk) % 2 = 1 THEN Front(r.odd \o chunk) ELSE r.odd \o chunk
      samples == Samples(data)
      out == Outputs(r.pos, samples)
  IN IF data = <<>> THEN [r |-> [r EXCEPT !.odd = r.odd \o chunk], out |-> data]
     ELSE [r   |-> [pos  |-> r.pos + Len(out) * SrcRate - (Len(samples) - 1) * DstRate,
                    last |-> <<>>, odd |-> SubSeq(r.odd \o chunk, Len(data) + 1, Len(r.odd \o chunk))],
           out |-> FlattenSeq([j \in DOMAIN out |-> Bytes(out[j])])]
process(r, chunk) ==
  LET all  == r.odd \o chunk
      data == IF Len(all) % 2 = 1 THEN Front(all) ELSE all
      odd  == SubSeq(all, Len(data) + 1, Len(all))
      samples == r.last \o Samples(data)
      out  == Outputs(r.pos, samples)
  IN IF SrcRate = DstRate \/ data = <<>> THEN [r |-> [r EXCEPT !.odd = odd], out |-> data]
     ELSE [r   |-> [pos  |-> r.pos + Len(out) * SrcRate - (Len(samples) - 1) * DstRate,
                    last |-> <<Last(samples)>>, odd |-> odd],
           out |-> FlattenSeq([j \in DOMAIN out |-> Bytes(out[j])])]
=============================================================================
