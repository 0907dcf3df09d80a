----------------------------- MODULE MCMjpegStream -----------------------------
(* Small instances of MjpegStream for TLC. *)
EXTENDS MjpegStream

MCMagic == <<"ff", "d8", "ff">>
MCSpace == {"nl"}

\* A stream of some images that are alike, each after the boundary; another boundary or image
\* begins at its end.
Camera(boundary, announced, image, count) ==
  LET part  == boundary \o image
      long  == Len(part)
      total == IF boundary = <<>> THEN count + 1 ELSE count
  IN  [sent      |-> [i \in 1..(total * long) |-> part[((i - 1) % long) + 1]] \o boundary,
       images    |-> [k \in 1..total |-> <<(k - 1) * long + Len(boundary) + 1, k * long>>],
       boundary  |-> boundary,
       announced |-> announced]

\* One that announces half its boundary, one that announces it all and has an image in its images
\* and what looks like the start of a boundary, and one without a boundary.
MCStreams ==
  {Camera(<<"-", "b", "c">>, <<"b", "c">>, MCMagic \o <<"nl">>, 4),
   Camera(<<"-", "b">>, <<"-", "b">>, MCMagic \o <<"-", "ff", "d8", "ff">>, 3),
   Camera(<<>>, <<>>, MCMagic \o <<"d8", "x">>, 3)}

=============================================================================
