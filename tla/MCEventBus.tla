----------------------------- MODULE MCEventBus -----------------------------
(* The events of one owner with one page.  Pages share only the ring, which *)
(* none of them changes, and the closed flag.                               *)
EXTENDS EventBus

Page == {"phone"}
=============================================================================
