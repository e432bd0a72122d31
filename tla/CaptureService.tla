--------------------------- MODULE CaptureService ---------------------------
(***************************************************************************)
(* What the capture service promises its host (service.cc, with trace_mgr.h*)
(* and the SetCaptureState and SetCaptureName of libwrap): a request is    *)
(* given one file name before anything is recorded for it, recordings are  *)
(* made and written under that name only while the request is served, and  *)
(* it is answered when a file of that name exists and nothing is being     *)
(* recorded any more.  TraceManager implements this.                       *)
(***************************************************************************)
CONSTANT Names

VARIABLES request,     \* the host's request: "none", "serving" or "answered"
          recording,   \* libwrap is recording
          name,        \* the file name libwrap has been given
          files        \* the files written for the request

vars == <<request, recording, name, files>>

Init ==
  /\ request = "none"
  /\ recording = FALSE
  /\ name \in Names
  /\ files = {}

Receive ==
  /\ request = "none"
  /\ request' = "serving"
  /\ files' = {}
  /\ UNCHANGED <<recording, name>>

ChooseName ==
  /\ request = "serving"
  /\ ~recording /\ files = {}
  /\ name' \in Names
  /\ UNCHANGED <<request, recording, files>>

Record ==
  /\ request = "serving"
  /\ ~recording
  /\ recording' = TRUE
  /\ UNCHANGED <<request, name, files>>

Write ==
  /\ request = "serving"
  /\ recording
  /\ recording' = FALSE
  /\ files' = files \cup {name}
  /\ UNCHANGED <<request, name>>

Finish ==
  /\ request = "serving"
  /\ ~recording
  /\ name \in files
  /\ request' = "answered"
  /\ UNCHANGED <<recording, name, files>>

Respond ==
  /\ request = "answered"
  /\ request' = "none"
  /\ UNCHANGED <<recording, name, files>>

Next == Receive \/ ChooseName \/ Record \/ Write \/ Finish \/ Respond

Spec == Init /\ [][Next]_vars
=============================================================================
