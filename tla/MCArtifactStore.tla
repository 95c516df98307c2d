--------------------------- MODULE MCArtifactStore ---------------------------
(* ArtifactStore for TLC.                                                     *)
EXTENDS ArtifactStore, TLC

\* A clip and the manifest that names it; the other documents are saved like the manifest.
SavedFiles == <<"clip", "timeline_manifest">>

CONSTANTS slow, fast
FramesOf == [c \in Configs |-> IF c = slow THEN 1 ELSE 2]

Symmetry == Permutations(Workers) \cup Permutations(ClipNames)
=============================================================================
