-------------------------- MODULE MCThreadSafeQueue --------------------------
(* Two producers and three consumers over two values, queue length up to 2. *)
EXTENDS ThreadSafeQueue
==============================================================================
