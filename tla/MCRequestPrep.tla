----------------------------- MODULE MCRequestPrep -----------------------------
(* Two overlapping calls, asyncio and blocking, around one Multipart. *)
EXTENDS RequestPrep, TLC

CONSTANTS c1, c2, p1, p2

MCNamed == {"post", "BREW"}

\* Bound: each body, the pairs around the form, which is taken before they are
\* refused, and a content length with and without the stream it needs.
MCGiven == {{"json"}, {"data"}, {"body"}, {"multipart"}, {"json", "multipart"},
            {"multipart", "body_stream"}, {"body_stream", "content_length"}, {"content_length"}}

\* The parts differ in nothing.
PartSymmetry == Permutations(Parts)
================================================================================
