----------------------------- MODULE MCLocalWork -----------------------------
(* What omni does on its own machine beside the agents' stores, on small        *)
(* instances: the threads that prepare the search index, commands that publish  *)
(* files, or a command under an interrupt guard.  They share no state, so each  *)
(* behaviour takes one of them; the others are over from the start.             *)
EXTENDS PrepareQueue, LocalFiles, InterruptGuard


QueueIdle ==
  /\ nextClaim = Items /\ nextConsume = Items /\ ready = {} /\ closed = TRUE
  /\ claimable = {} /\ prepared = FALSE
  /\ worker = [w \in Workers |-> "done"] /\ item = [w \in Workers |-> 0]
  /\ consumer = "done" /\ index = Items /\ stopped = FALSE

WorkInit ==
  \/ Init /\ FilesIdle /\ GuardIdle
  \/ QueueIdle /\ FilesInit /\ GuardIdle
  \/ QueueIdle /\ FilesIdle /\ GuardInit

WorkNext ==
  \/ Next /\ UNCHANGED <<fileVars, guardVars>>
  \/ FilesNext /\ UNCHANGED <<vars, guardVars>>
  \/ GuardNext /\ UNCHANGED <<vars, fileVars>>

WorkSpec == WorkInit /\ [][WorkNext]_<<vars, fileVars, guardVars>> /\ Fairness
==============================================================================
