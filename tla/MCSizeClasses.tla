--------------------------- MODULE MCSizeClasses ---------------------------
(***************************************************************************)
(* All requests up to a little above the largest class, and resizes at and *)
(* just above every class.                                                 *)
(***************************************************************************)
EXTENDS SizeClasses

Margin == 16
AllRequests == 0 .. 28032 + Margin
Boundaries ==
  UNION {{TC_SIZE_CLASSES[i], TC_SIZE_CLASSES[i] + 1} : i \in 2 .. Len(TC_SIZE_CLASSES)}
SmallRequests == 1 .. 2048 + Margin
=============================================================================
