--------------------------- MODULE ThreadLifecycle ----------------------------
(***************************************************************************)
(* What CELLThread promises its owner: Start gives one thread of execution *)
(* and Close returns when that one has ended; Start and Close exclude each *)
(* other.                                                                  *)
(***************************************************************************)
CONSTANTS
  Callers,    \* the threads that may call Start and Close
  NoCaller

VARIABLES
  phase,      \* of the thread that was started last
  closer      \* the caller whose Close is waiting

lifeVars == <<phase, closer>>

LifeInit == phase = "stopped" /\ closer = NoCaller

Begin ==
  /\ phase = "stopped" /\ closer = NoCaller
  /\ phase' = "running"
  /\ UNCHANGED closer

RequestStop(c) ==
  /\ phase = "running" /\ closer = NoCaller
  /\ phase' = "stopping"
  /\ closer' = c

End ==
  /\ phase = "stopping"
  /\ phase' = "stopped"
  /\ UNCHANGED closer

Return ==
  /\ phase = "stopped" /\ closer # NoCaller
  /\ closer' = NoCaller
  /\ UNCHANGED phase

LifeNext == Begin \/ End \/ Return \/ \E c \in Callers : RequestStop(c)

LifeSpec == LifeInit /\ [][LifeNext]_lifeVars
=============================================================================
