----------------------------- MODULE MCWorkPhase -----------------------------
(***************************************************************************)
(* A phase with one deliverable and one file of every kind, and one call   *)
(* of every kind that the engine treats differently.                       *)
(***************************************************************************)
EXTENDS Conversation, TLC

MCSignals == {"review-result.txt"}
MCOutside == {"elsewhere"}

Call(tool, path) == [tool |-> tool, path |-> path]

MCCalls ==
    {Call("read", "deliverable"), Call("write", "deliverable"),
     Call("edit", "deliverable"), Call("delete", "deliverable"),
     Call("edit", "review-result.txt"), Call("write", "elsewhere"),
     Call("write", Summary), Call("delete", Summary), Call("write", Complete),
     Call("write", Blocked), Call("overwrite", Report), Call("other", NoPath)}

=============================================================================
