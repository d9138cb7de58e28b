-------------------------- MODULE PreviewPromise ---------------------------
(***************************************************************************)
(* What the camera HAL promises a client about preview, with no thread,    *)
(* mutex or condition variable in sight: frames are taken only while       *)
(* preview is on; once a stop or a close has returned none is under way,   *)
(* and none begins; the driver is started, and the window changed, only    *)
(* while no frame is taken.  Module CameraPreview implements it.           *)
(***************************************************************************)
CONSTANTS Windows, NoWindow

VARIABLES
  preview,  \* what the client has been told about preview
  busy,     \* a frame is being taken
  window    \* where frames are shown

vars == <<preview, busy, window>>

States == {"off", "deferred", "starting", "on", "stopping", "closing", "gone"}

Init == preview = "off" /\ ~busy /\ window = NoWindow

\* startPreview(): without a window the start is only promised.
Start ==
  /\ preview = "off" /\ ~busy
  /\ preview' = IF window = NoWindow THEN "deferred" ELSE "starting"
  /\ UNCHANGED <<busy, window>>

\* setPreviewWindow() while nothing is shown ...
SetWindow(w) ==
  /\ preview \in {"off", "deferred"} /\ ~busy
  /\ window' = w
  /\ UNCHANGED <<preview, busy>>

\* ... which makes a promised start good.
MakeGood ==
  /\ preview = "deferred" /\ ~busy
  /\ window # NoWindow
  /\ preview' = "starting"
  /\ UNCHANGED <<busy, window>>

\* The driver has been started, or has not: then a promised start stays one.
Started ==
  /\ preview = "starting" /\ ~busy
  /\ preview' \in {"on", "deferred"}
  /\ UNCHANGED <<busy, window>>

BeginFrame ==
  /\ preview = "on" /\ ~busy
  /\ busy' = TRUE
  /\ UNCHANGED <<preview, window>>

EndFrame ==
  /\ busy' = FALSE
  /\ UNCHANGED <<preview, window>>

\* stopPreview(): preview that is on goes on until the frame is finished.
Stop ==
  /\ preview \in {"on", "deferred"}
  /\ preview' = IF preview = "on" THEN "stopping" ELSE "off"
  /\ UNCHANGED <<busy, window>>

Stopped ==
  /\ preview = "stopping" /\ ~busy
  /\ preview' = "off"
  /\ UNCHANGED <<busy, window>>

\* release(): a frame not quite begun is dropped, one begun is finished.
Close ==
  /\ preview \in {"off", "deferred", "on"}
  /\ preview' = "closing"
  /\ busy' \in {busy, FALSE}
  /\ UNCHANGED window

Closed ==
  /\ preview = "closing" /\ ~busy
  /\ preview' = "gone"
  /\ UNCHANGED <<busy, window>>

\* open() after close().
Reopen ==
  /\ preview = "gone" /\ ~busy
  /\ preview' = "off"
  /\ window' = NoWindow
  /\ UNCHANGED busy

Next ==
  \/ Start \/ MakeGood \/ Started \/ Stop \/ Stopped
  \/ \E w \in Windows \cup {NoWindow} : SetWindow(w)
  \/ BeginFrame \/ EndFrame
  \/ Close \/ Closed \/ Reopen

Spec == Init /\ [][Next]_vars
=============================================================================
