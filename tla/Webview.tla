------------------------------- MODULE Webview --------------------------------
(* What the modules of the webview's hooks have in common.                   *)
CONSTANT None  \* null, undefined, a timer that is not set
=============================================================================
