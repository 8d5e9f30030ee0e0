----------------------------- MODULE MCRunLoop ------------------------------
(* Instances of RunLoop for TLC, one per kind of caller of Event.set().    *)
EXTENDS RunLoop
=============================================================================
