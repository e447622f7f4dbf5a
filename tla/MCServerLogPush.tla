-------------------------- MODULE MCServerLogPush --------------------------
(* Two instances.  With one connection and two workers, two calls of Log overlap
   while the client joins, stays or leaves and the send thread reads the message
   they change.  With two connections and one worker, the second client joins
   while a line is being broadcast to the first. *)
EXTENDS ServerLogPush
=============================================================================
