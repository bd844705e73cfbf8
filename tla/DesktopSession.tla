--------------------------- MODULE DesktopSession ---------------------------
(* A desktop session (DesktopSession, app_desktop/desktop.py), the encoder   *)
(* process it keeps (app_desktop/encoder.py) and its client.  Three threads: *)
(* the session asks the encoder for a frame (ENCODE) each time               *)
(* _frame_intervall_event is set; a reader per encoder passes what it sends  *)
(* to the client and, at the end of each request (FRAME_NEXT), waits until   *)
(* the client is not too late and sets the event; the web socket counts the  *)
(* acknowledgements.                                                         *)
(*                                                                           *)
(* Time is abstracted: a reader that paces may go on whenever the frames     *)
(* not acknowledged are few enough or recent enough, and must once they are  *)
(* all acknowledged.                                                         *)
EXTENDS Integers, Sequences, SequencesExt

CONSTANTS
  MaxEnc,        \* bound: encoders of the session
  MaxShown,      \* bound: memories the capture shows
  MaxUnread      \* bound: messages under way to the client

None == 0
Enc == 1..MaxEnc
NoReader == "none"

VARIABLES
  capture,       \* the capture: "stopped", "started" or "ended"
  memory,        \* get_monitors(): None, or the number of its memory
  session,       \* the thread of the session: "run", "ended"
  told,          \* _bdestroy
  waiting,       \* _init_counter is not None
  encoder,       \* _process_encoder: None or its number
  encoders,      \* encoders started
  running,       \* the encoders that run
  inited,        \* _process_encoder_init
  set,           \* _process_encoder_monitorsid
  event,         \* _frame_intervall_event
  asked,         \* requests ENCODE each encoder has to serve
  sent,          \* what each encoder sent and nobody read
  reader,        \* the thread that reads: "none", "read", "pace" or "ended"
  on,            \* the encoder whose stream it reads
  distance,      \* _frame_distance
  pinging,       \* _ping_check
  toClient,      \* messages under way to the client
  acks           \* acknowledgements under way: what each one answers

sessionVars == <<session, told, waiting>>
encVars == <<encoder, encoders, running, inited, set, asked>>
clientVars == <<distance, pinging, toClient, acks>>
readerVars == <<reader, on>>
vars == <<capture, memory, sessionVars, encVars, event, sent, readerVars, clientVars>>

Init ==
  /\ capture = "stopped" /\ memory = None
  /\ session = "run" /\ told = FALSE /\ waiting = TRUE
  /\ encoder = None /\ encoders = 0 /\ running = {} /\ inited = FALSE /\ set = None
  /\ event = FALSE /\ asked = [e \in Enc |-> 0] /\ sent = [e \in Enc |-> <<>>]
  /\ reader = [e \in Enc |-> NoReader]
  /\ on = [e \in Enc |-> None]
  /\ distance = 0 /\ pinging = FALSE /\ toClient = <<>> /\ acks = <<>>

-----------------------------------------------------------------------------
(* The capture, as the session sees it                                       *)

CaptureChanges ==
  /\ capture # "ended"
  /\ \/ capture' = "started" /\ capture = "stopped" /\ UNCHANGED memory
     \/ capture' \in {"stopped", "ended"} /\ capture' # capture /\ memory' = None
     \/ /\ capture = "started" /\ memory < MaxShown
        /\ memory' = memory + 1 /\ UNCHANGED capture
  /\ UNCHANGED <<sessionVars, encVars, event, sent, readerVars, clientVars>>

-----------------------------------------------------------------------------
(* The thread of the session                                                 *)

\* check_destroy.
GoesOn == /\ session = "run" /\ ~told /\ capture # "ended"
          /\ encoder # None => encoder \in running

\* _destroy_process_encoder: the stream is closed and forgotten and the process
\* told to close; the thread that reads is not waited for.
DestroyEncoder ==
  /\ encoder' = None /\ running' = running \ {encoder} /\ inited' = FALSE /\ set' = None
  /\ asked' = [e \in Enc |-> 0] /\ sent' = [e \in Enc |-> <<>>]
  /\ UNCHANGED encoders

\* The capture is stopped: the encoder that was given its memory goes with it.
SessionSeesStop ==
  /\ GoesOn /\ capture = "stopped"
  /\ inited /\ DestroyEncoder
  /\ UNCHANGED <<capture, memory, sessionVars, event, readerVars, clientVars>>

\* The capture is started and there is no encoder: one is started, with a
\* thread that reads it.
StartEncoder ==
  /\ GoesOn /\ capture = "started" /\ encoder = None /\ encoders < MaxEnc
  /\ encoders' = encoders + 1 /\ encoder' = encoders + 1
  /\ running' = running \union {encoders + 1}
  /\ reader' = [reader EXCEPT ![encoders + 1] = "read"]
  /\ on' = [on EXCEPT ![encoders + 1] = encoders + 1]
  /\ UNCHANGED <<capture, memory, sessionVars, inited, set, asked, event, sent, clientVars>>

\* INIT, when the client has said what it accepts and there are monitors.
InitEncoder ==
  /\ GoesOn /\ capture = "started" /\ memory # None /\ encoder # None /\ ~inited
  /\ inited' = TRUE /\ event' = TRUE
  /\ UNCHANGED <<capture, memory, sessionVars, encoder, encoders, running, set, asked,
                 sent, readerVars, clientVars>>

\* The memory is not the one the encoder was given (SET_MONITORS), and the
\* event is set: the frame is asked for.
AskFrame ==
  /\ GoesOn /\ capture = "started" /\ memory # None /\ inited
  /\ set # memory \/ event
  /\ set' = memory /\ event' = FALSE
  /\ asked' = IF event THEN [asked EXCEPT ![encoder] = @ + 1] ELSE asked
  /\ UNCHANGED <<capture, memory, sessionVars, encoder, encoders, running, inited,
                 sent, readerVars, clientVars>>

\* A request fails because the encoder is gone, before check_destroy sees it.
AskFails ==
  /\ session = "run" /\ ~told /\ inited /\ encoder \notin running
  /\ DestroyEncoder
  /\ UNCHANGED <<capture, memory, sessionVars, event, readerVars, clientVars>>

\* The thread ends: the session is destroyed, its capture is, its encoder has
\* gone, or nothing was read in the first 15 seconds.  A client that is left
\* hears why, and its web socket is closed.
SessionEnds ==
  /\ session = "run"
  /\ ~GoesOn \/ waiting
  /\ session' = "ended" /\ told' = TRUE /\ waiting' = FALSE
  /\ DestroyEncoder
  /\ UNCHANGED <<capture, memory, event, readerVars, clientVars>>

-----------------------------------------------------------------------------
(* The encoder                                                               *)

\* ENCODE: the image of the memory, if it changed before the memory was given
\* up or the client asked for another monitor; then the end of the request.
Encode(e) ==
  /\ e \in running /\ asked[e] > 0 /\ sent[e] = <<>>
  /\ asked' = [asked EXCEPT ![e] = @ - 1]
  /\ \E m \in {<<"next">>, <<"frame", "next">>, <<"empty", "next">>} :
        sent' = [sent EXCEPT ![e] = m]
  /\ UNCHANGED <<capture, memory, sessionVars, encoder, encoders, running, inited, set,
                 event, readerVars, clientVars>>

EncoderDies ==
  /\ \E e \in running : running' = running \ {e}
  /\ UNCHANGED <<capture, memory, sessionVars, encoder, encoders, inited, set, asked,
                 event, sent, readerVars, clientVars>>

-----------------------------------------------------------------------------
(* The thread that reads the encoder, by the number of the one it began with *)

\* read_bytes on the stream of the session as it is when the read begins.
Reads(e, m) == /\ reader[e] = "read" /\ on[e] = encoder
               /\ sent[encoder] # <<>> /\ Head(sent[encoder]) = m
               /\ sent' = [sent EXCEPT ![encoder] = Tail(@)]
               /\ waiting' = FALSE

\* A frame counts as sent until the client acknowledges it; an empty one is
\* acknowledged at once and not sent.  With all acknowledged, and five seconds
\* after the last time, a ping goes before it and takes the next answer.
ReadFrame(e) ==
  /\ Reads(e, "frame") /\ Len(toClient) + Len(acks) < MaxUnread
  /\ distance' = distance + 1
  /\ \/ /\ ~pinging /\ distance = 0
        /\ pinging' = TRUE /\ toClient' = toClient \o <<"ping", "frame">>
     \/ /\ toClient' = Append(toClient, "frame") /\ UNCHANGED pinging
  /\ UNCHANGED <<capture, memory, session, told, encVars, event, readerVars, acks>>

ReadEmpty(e) ==
  /\ Reads(e, "empty")
  /\ UNCHANGED <<capture, memory, session, told, encVars, event, readerVars, clientVars>>

ReadNext(e) ==
  /\ Reads(e, "next")
  /\ reader' = [reader EXCEPT ![e] = "pace"]
  /\ UNCHANGED <<capture, memory, session, told, encVars, event, on, clientVars>>

\* The client is not too late, or not known to be: the next frame is due, and
\* the thread goes back to the stream of the session, if there is one.
Paced(e) ==
  /\ reader[e] = "pace"
  /\ reader' = [reader EXCEPT ![e] = IF encoder = None THEN "ended" ELSE "read"]
  /\ on' = [on EXCEPT ![e] = encoder]
  /\ event' = TRUE
  /\ UNCHANGED <<capture, memory, sessionVars, encVars, sent, clientVars>>

\* The stream is closed.
ReaderEnds(e) ==
  /\ reader[e] = "read" /\ on[e] \notin running
  /\ reader' = [reader EXCEPT ![e] = "ended"]
  /\ UNCHANGED <<capture, memory, sessionVars, encVars, event, sent, on, clientVars>>

-----------------------------------------------------------------------------
(* The client and its web socket                                             *)

ClientShows ==
  /\ toClient # <<>>
  /\ toClient' = Tail(toClient) /\ acks' = Append(acks, Head(toClient))
  /\ UNCHANGED <<capture, memory, sessionVars, encVars, event, sent, readerVars, distance,
                 pinging>>

\* mutant: a ping is taken for a frame
AcknowledgedAsFrame ==
  /\ acks # <<>> /\ ~told
  /\ distance' = distance - 1 /\ pinging' = FALSE
  /\ acks' = Tail(acks)
  /\ UNCHANGED <<capture, memory, sessionVars, encVars, event, sent, readerVars, toClient>>

\* _received_frame.  The answer does not say what it answers.
Acknowledged ==
  /\ acks # <<>> /\ ~told
  /\ IF pinging THEN pinging' = FALSE /\ UNCHANGED distance
                ELSE distance' = distance - 1 /\ UNCHANGED pinging
  /\ acks' = Tail(acks)
  /\ UNCHANGED <<capture, memory, sessionVars, encVars, event, sent, readerVars, toClient>>

\* The web socket is closed, or nothing comes for ten seconds (keepalive).
ClientCloses ==
  /\ ~told /\ told' = TRUE
  /\ UNCHANGED <<capture, memory, session, waiting, encVars, event, sent, readerVars,
                 clientVars>>

-----------------------------------------------------------------------------
Session == SessionSeesStop \/ StartEncoder \/ InitEncoder \/ AskFrame \/ AskFails
Reader(e) == ReadFrame(e) \/ ReadEmpty(e) \/ ReadNext(e) \/ ReaderEnds(e)

Next ==
  \/ CaptureChanges \/ SessionSeesStop \/ StartEncoder \/ InitEncoder \/ AskFrame
  \/ AskFails \/ SessionEnds \/ EncoderDies \/ ClientShows \/ Acknowledged \/ ClientCloses
  \/ \E e \in Enc : Encode(e) \/ ReadFrame(e) \/ ReadEmpty(e) \/ ReadNext(e)
                    \/ Paced(e) \/ ReaderEnds(e)

\* The threads and the encoders go on, and a client that is there shows what
\* it is sent and says so.  A reader is sure to go on only when no frame is
\* left without an answer.
Fairness ==
  /\ WF_vars(capture = "started" /\ Session)
  /\ WF_vars(~GoesOn /\ SessionEnds)
  /\ WF_vars(ClientShows) /\ WF_vars(Acknowledged)
  /\ \A e \in Enc : WF_vars(Encode(e)) /\ WF_vars(Reader(e)) /\ WF_vars(distance = 0 /\ Paced(e))

Spec == Init /\ [][Next]_vars /\ Fairness

-----------------------------------------------------------------------------
\* The frames counted as not acknowledged are those on their way to the client
\* and back: the count never drifts, whatever empty frames and pings come in
\* between, or the session would wait for answers that are not due.
DistanceExact ==
  ~told => distance = Len(SelectSeq(toClient \o acks, LAMBDA m : m = "frame"))

\* One frame is asked for at a time, but for a reader that outlived the encoder
\* it began with and reads the next one's.
OneRequest ==
  inited /\ encoder \in running /\ (\A e \in Enc : on[e] = encoder => e = encoder) =>
    (IF event THEN 1 ELSE 0) + asked[encoder]
      + Len(SelectSeq(sent[encoder], LAMBDA m : m = "next"))
      + (IF reader[encoder] = "pace" THEN 1 ELSE 0) = 1

\* A client that answers is never left waiting: the end of a request leads to
\* the next one, or the session or its encoder ends.
FramesFlow ==
  (inited /\ encoder \in running /\ asked[encoder] > 0)
    ~> (event \/ capture # "started" \/ encoder \notin running \/ told)
=============================================================================
