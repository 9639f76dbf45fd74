----------------------------- MODULE MCDualImage -----------------------------
(* DualImage with two versions that work and one that does not.            *)
EXTENDS DualImage, TLC

Upload(v, format, parts, big, ver) ==
    [v |-> v, format |-> format, parts |-> parts, big |-> big, ver |-> ver]

\* The text of the longest version fills the buffer.
SomeLengths == ("v1" :> 1) @@ ("v2" :> 2) @@ ("v3" :> 3)

\* Complete archives and images of either format, archives without a version, a
\* kernel alone, and an image with a root file system that is too large.
SomeUploads ==
    {Upload(v, "tar", {"k", "r"}, {}, TRUE) : v \in {"v2", "v3"}}
    \cup {Upload("v2", f, {"k", "r"}, {}, FALSE) : f \in {"tar", "vm"}}
    \cup {Upload("v3", f, {"k"}, {}, f = "tar") : f \in {"tar", "vm"}}
    \cup {Upload("v3", "vm", {"k", "r"}, {"r"}, FALSE)}

\* All partitions, and an environment that lacks the last one's.
SomeLayouts == {Parts \X Slots, (Parts \X Slots) \ {<<"r", 1>>}}
=============================================================================
