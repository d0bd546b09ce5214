------------------------------- MODULE MCArc -------------------------------
(* Two frames, and five pages: enough to fill the four list entries that   *)
(* two frames allow, with one page more.                                   *)
EXTENDS ArcCounting

MCFrameId == 0 .. replacer_size - 1
MCPageId == 0 .. 4
=============================================================================
