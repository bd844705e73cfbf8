----------------------------- MODULE SoundRing ------------------------------
(* The sound of the desktop: a shared memory used as a ring, which the       *)
(* capture fills (ProcessCaptureSound.cb_sound_data, app_desktop/capture.py) *)
(* and the encoder of a session empties (ProcessEncoder.encode_sound,        *)
(* app_desktop/encoder.py), each while it holds the condition of the ring.   *)
(* The writer never waits for the reader.  A byte of sound is its number in  *)
(* the stream.                                                               *)
EXTENDS Integers, Sequences

CONSTANTS
  Size,        \* bytes of the ring (two seconds of sound)
  Burst,       \* the largest number of bytes the library hands over at once
  MaxBytes     \* bound: bytes of the stream

ASSUME RingAssumption ==
  Size \in Nat /\ Burst \in 1..(Size - 1) /\ MaxBytes \in Nat

VARIABLES
  open,        \* the first byte of the memory is "O"
  cells,       \* what it holds
  count,       \* bytes of the stream so far
  frame,       \* _frameid, and the copy of it in the memory
  limit,       \* _memmap_limit of the writer, and its copy in the memory
  enabled,     \* _sound_enable of the encoder
  readFrame,   \* _sound_cid
  readLimit,   \* _sound_memmap_limit of the reader, -1 before the first read
  heard        \* what the reader was given last

vars == <<open, cells, count, frame, limit, enabled, readFrame, readLimit, heard>>

Init ==
  /\ open = TRUE /\ cells = [i \in 0..(Size - 1) |-> 0] /\ count = 0
  /\ frame = 0 /\ limit = 0
  /\ enabled = TRUE /\ readFrame = 0 /\ readLimit = -1 /\ heard = <<>>

\* mutant: one byte less goes before the end
ToEndShort(sz) == IF limit + sz >= Size THEN Size - limit - 1 ELSE 0

\* towrite: what goes before the end, when the burst reaches it.
ToEnd(sz) == IF limit + sz >= Size THEN Size - limit ELSE 0

\* cb_sound_data: what does not fit before the end goes to the beginning.
Write(sz) ==
  /\ open /\ count + sz <= MaxBytes
  /\ LET start == IF limit + sz >= Size THEN 0 ELSE limit
         rest == sz - ToEnd(sz)
     IN  /\ cells' = [i \in 0..(Size - 1) |->
                        IF i \in limit..(limit + ToEnd(sz) - 1) THEN count + 1 + (i - limit)
                        ELSE IF i \in start..(start + rest - 1)
                          THEN count + 1 + ToEnd(sz) + (i - start)
                        ELSE cells[i]]
         /\ limit' = start + rest
  /\ frame' = frame + 1 /\ count' = count + sz
  /\ UNCHANGED <<open, enabled, readFrame, readLimit, heard>>

\* The cells from i up to, not including, j.
Cells(i, j) == [k \in 1..(j - i) |-> cells[i + k - 1]]

\* encode_sound: nothing at first; then from where the last read ended to
\* where the last write did, by way of the end when that is not further on.
Read ==
  /\ open /\ enabled /\ readFrame # frame
  /\ readFrame' = frame /\ readLimit' = limit
  /\ heard' = IF readLimit = -1 THEN <<>>
              ELSE IF readLimit < limit THEN Cells(readLimit, limit)
              ELSE Cells(readLimit, Size) \o Cells(0, limit)
  /\ UNCHANGED <<open, cells, count, frame, limit, enabled>>

\* SET_SOUND_ENABLE: the reader lets the ring turn meanwhile.
SetSoundEnable ==
  /\ enabled' = ~enabled
  /\ UNCHANGED <<open, cells, count, frame, limit, readFrame, readLimit, heard>>

\* The agent gives up the memory.
Close == /\ open /\ open' = FALSE
         /\ UNCHANGED <<cells, count, frame, limit, enabled, readFrame, readLimit, heard>>

Next == (\E sz \in 1..Burst : Write(sz)) \/ Read \/ SetSoundEnable \/ Close

Spec == Init /\ [][Next]_vars

-----------------------------------------------------------------------------
\* What the client hears at a time is one run of the stream that ends with
\* what was captured last: a reader that was left behind, by whole turns of
\* the ring even, misses sound but never hears it out of order or twice.
SoundInOrder ==
  [][heard' # heard =>
       /\ \A k \in 1..Len(heard') : heard'[k] = count - Len(heard') + k
       /\ heard # <<>> /\ heard' # <<>> => heard[Len(heard)] < heard'[1]]_vars

\* A reader that is not left behind by a turn of the ring misses nothing.
SoundComplete ==
  [][heard # <<>> /\ heard' # heard /\ count - heard[Len(heard)] <= Size
       => heard' # <<>> /\ heard'[1] = heard[Len(heard)] + 1]_vars

\* A client hears what was captured in order, each piece once, and misses none of it
\* unless the ring went round.
SoundWhole == SoundInOrder /\ SoundComplete

=============================================================================
