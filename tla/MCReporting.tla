----------------------------- MODULE MCReporting -----------------------------
(* An instance of Reporting for TLC.                                         *)
EXTENDS Reporting, TLC

CONSTANTS s1, s2, s3

\* Frames that differ in the line only; a frame in two stacks; names that are
\* empty or mean something to the profile; a stack the table does not know.
MCFrames ==
  s1 :> <<[filename |-> "a.py", function |-> "", lineno |-> 1],
          [filename |-> "space", function |-> "a.py", lineno |-> 1]>>
  @@ s2 :> <<[filename |-> "a.py", function |-> "", lineno |-> 2],
             [filename |-> "a.py", function |-> "", lineno |-> 1]>>
  @@ s3 :> <<>>

\* Streams and what they are given are interchangeable.
Symmetry == Permutations(Streams) \cup Permutations(Contents)
=============================================================================
