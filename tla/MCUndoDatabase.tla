--------------------------- MODULE MCUndoDatabase ---------------------------
(* Instance of UndoDatabase for TLC.                                       *)
EXTENDS UndoDatabase

CONSTANT MaxStack  \* bound on the depth of the stack

StackBound == Len(stack) <= MaxStack
=============================================================================
