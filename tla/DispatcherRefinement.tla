------------------------- MODULE DispatcherRefinement -------------------------
(***************************************************************************)
(* PktDispatcher implements FrameOutlet: the frames a handler has ready    *)
(* are made and not yet handed over, and the outlet is closed as soon as   *)
(* stop() returns, whether or not the receive loop was ever entered.       *)
(***************************************************************************)
EXTENDS PktDispatcher

StopHasReturned == app_pc \in {"stopped", "destroyed"}

Outlet == INSTANCE FrameOutlet WITH
    made <- produced, queue <- frames_, taken <- pulled, called <- HookedFrames,
    hook <- recv_hook_, closed <- StopHasReturned

\* However the application, the dispatcher's thread and the consumer are interleaved: every
\* frame is handed over once and in order, to the hook from its installation on and to the
\* queue before, and none is made or handed over after stop() has returned, though
\* stop() itself may be called, and wait, at any point of the receive loop.
ImplementsOutlet == Outlet!Spec
=============================================================================
