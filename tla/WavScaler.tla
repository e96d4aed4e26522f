------------------------------ MODULE WavScaler ------------------------------
(***************************************************************************)
(* ScalePcmWavInMemory (aplay_audio_player.cpp): the walk over the chunks  *)
(* of a wav file and the scaling of its samples, in the machine words the  *)
(* program computes with.  The sizes in the file are anything; a byte is   *)
(* known by its offset, and what the samples become is left out.           *)
(***************************************************************************)
EXTENDS Integers

CONSTANT WORD   \* number of values of a size_t, and of a size in the file

ASSUME WordAssumption == WORD \in Nat /\ WORD > 44

VARIABLES wav,     \* where the scaler is
          size,    \* wav_bytes->size()
          cursor,
          fmt,     \* bits_per_sample of the last fmt chunk, 0 without one
          data,    \* data_offset and data_size of the last data chunk
          sample,  \* i of the sample loop
          touched  \* first and last offset of the last access

wavVars == <<wav, size, cursor, fmt, data, sample, touched>>

Word == 0 .. WORD - 1
Plus(a, b) == (a + b) % WORD
Minus(a, b) == (a - b) % WORD

NoData == [offset |-> 0, length |-> 0, have |-> FALSE]
Nothing == [first |-> 0, last |-> -1]
Access(first, last) == [first |-> first, last |-> last]

WavInit ==
  /\ wav = "start" /\ size \in Word
  /\ cursor = 0 /\ fmt = 0 /\ data = NoData /\ sample = 0 /\ touched = Nothing

Refuse == wav' = "refused" /\ UNCHANGED <<size, cursor, fmt, data, sample, touched>>

(* A file that is too small or not a wav file is refused.                  *)
CheckHeader ==
  /\ wav = "start"
  /\ \/ Refuse
     \/ /\ size >= 44
        /\ wav' = "walk" /\ cursor' = 12 /\ touched' = Access(0, 11)
        /\ UNCHANGED <<size, fmt, data, sample>>

(* mutant: the header of the chunk is not counted                          *)
TooLongLoose(n) == n > Minus(size, cursor)

TooLong(n) == n > Minus(size, Plus(cursor, 8))

InWalk == wav = "walk" /\ cursor <= Minus(size, 8)

ChunkRefused(n) ==
  /\ InWalk
  /\ TooLong(n)
  /\ Refuse

(* To the next chunk, behind the padding of an odd size.                   *)
Skip(n) ==
  LET end == Plus(Plus(cursor, 8), n) IN
  IF n % 2 > Minus(size, end)
  THEN wav' = "refused" /\ UNCHANGED cursor
  ELSE cursor' = Plus(end, n % 2) /\ UNCHANGED wav

FmtChunk(n, bits) ==
  /\ InWalk /\ ~TooLong(n)
  /\ IF n < 16
     THEN Refuse
     ELSE /\ fmt' = bits
          /\ touched' = Access(cursor, Plus(Plus(cursor, 8), 15))
          /\ Skip(n)
          /\ UNCHANGED <<size, data, sample>>

DataChunk(n) ==
  /\ InWalk /\ ~TooLong(n)
  /\ data' = [offset |-> Plus(cursor, 8), length |-> n, have |-> TRUE]
  /\ touched' = Access(cursor, Plus(cursor, 7))
  /\ Skip(n)
  /\ UNCHANGED <<size, fmt, sample>>

OtherChunk(n) ==
  /\ InWalk /\ ~TooLong(n)
  /\ touched' = Access(cursor, Plus(cursor, 7))
  /\ Skip(n)
  /\ UNCHANGED <<size, fmt, data, sample>>

(* The encoding may be another than PCM.                                   *)
WalkEnds ==
  /\ wav = "walk" /\ cursor > Minus(size, 8)
  /\ \/ Refuse
     \/ /\ data.have /\ fmt \in {8, 16}
        /\ fmt = 16 => data.length % 2 = 0
        /\ wav' = "scale"
        /\ UNCHANGED <<size, cursor, fmt, data, sample, touched>>

Width == fmt \div 8

Scale ==
  /\ wav = "scale"
  /\ IF Plus(sample, Width - 1) < data.length
     THEN /\ touched' = Access(Plus(data.offset, sample),
                               Plus(Plus(data.offset, sample), Width - 1))
          /\ sample' = Plus(sample, Width)
          /\ UNCHANGED wav
     ELSE wav' = "scaled" /\ UNCHANGED <<touched, sample>>
  /\ UNCHANGED <<size, cursor, fmt, data>>

WavNext ==
  \/ CheckHeader
  \/ \E n \in Word : \/ ChunkRefused(n)
                     \/ \E bits \in {8, 16, 24} : FmtChunk(n, bits)
                     \/ DataChunk(n) \/ OtherChunk(n)
  \/ WalkEnds \/ Scale

WavSpec == WavInit /\ [][WavNext]_wavVars

-----------------------------------------------------------------------------
(* Whatever sizes a file claims, no byte outside of it is read or written  *)
(* (aplay_audio_player.cpp:130-138, 168, 188-214).                         *)
WavReadsInside == 0 <= touched.first /\ touched.last < size

=============================================================================
