------------------------------- MODULE MCFeed -------------------------------
(* Two sources of up to three lines, every content of them: enough for a   *)
(* batch that closes in the middle of a source, a window that spans two,   *)
(* and a crash on either side of every commit.                             *)
EXTENDS Feed

Survivable == { "crash", "publish" }
Late       == { "crash", "late" }
Misread    == { "misread" }
Crashes    == { "crash" }
=============================================================================
