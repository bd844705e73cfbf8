----------------------------- MODULE MCDesktop ------------------------------
(* The five parts of the desktop app, which do not touch each other's state  *)
(* here: the sound, the capture, the sessions that share it, one session     *)
(* with its encoder and its client, and the picture it sends.  part says     *)
(* which of them runs.                                                       *)
EXTENDS Capture

VARIABLES
  part,
  sCapture, sMemory, session, sTold, waiting, sEncoder, encoders, running, inited, set,
  event, sAsked, sent, reader, on, distance, pinging, toClient, acks

sesVars == <<sCapture, sMemory, session, sTold, waiting, sEncoder, encoders, running, inited,
             set, event, sAsked, sent, reader, on, distance, pinging, toClient, acks>>

S == INSTANCE DesktopSession WITH MaxEnc <- 2, MaxShown <- 2, MaxUnread <- 2,
                                  capture <- sCapture, memory <- sMemory, told <- sTold,
                                  encoder <- sEncoder, asked <- sAsked

MCInit == /\ part \in {"sound", "capture", "desktop", "session", "screen"}
          /\ Init /\ CaptureInit /\ DeskInit /\ S!Init /\ ScrInit

MCNext ==
  /\ UNCHANGED part
  /\ \/ part = "sound" /\ Next /\ UNCHANGED <<captureVars, deskVars, sesVars, scrVars>>
     \/ part = "capture" /\ CaptureNext /\ UNCHANGED <<vars, deskVars, sesVars, scrVars>>
     \/ part = "desktop" /\ DeskNext /\ UNCHANGED <<vars, captureVars, sesVars, scrVars>>
     \/ part = "session" /\ S!Next /\ UNCHANGED <<vars, captureVars, deskVars, scrVars>>
     \/ part = "screen" /\ ScrNext /\ UNCHANGED <<vars, captureVars, deskVars, sesVars>>

\* No fair action of a part is enabled in its initial state.
MCSpec ==
  /\ MCInit /\ [][MCNext]_<<part, vars, captureVars, deskVars, sesVars, scrVars>>
  /\ CaptureFairness /\ DeskFairness /\ S!Fairness /\ ScrFairness

\* A capture that fails is replaced or its thread ends, a client that answers is never left
\* waiting for the next frame, of which one is asked for at a time and no count of those not
\* acknowledged drifts, and it comes to show the monitor it asked for, as it is.
DesktopAnswers ==
  /\ []S!DistanceExact /\ []S!OneRequest
  /\ FailureHandled /\ S!FramesFlow /\ PictureFollows
=============================================================================
