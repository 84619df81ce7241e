---------------------------- MODULE ChunkOwners ----------------------------
(***************************************************************************)
(* What a source of chunks promises to the threads that call it: a thread  *)
(* is given a chunk nobody has, and has it until it gives it back.         *)
(***************************************************************************)
CONSTANT Threads   \* the callers

VARIABLE owned   \* for each thread the chunks it has

Owned == UNION {owned[t] : t \in Threads}

Init == owned = [t \in Threads |-> {}]

Take(t) == \E c \in owned'[t] :
  /\ c \notin Owned
  /\ owned' = [owned EXCEPT ![t] = @ \cup {c}]

Give(t) == \E c \in owned[t] :
  owned' = [owned EXCEPT ![t] = @ \ {c}]

Next == \E t \in Threads : Take(t) \/ Give(t)

Spec == Init /\ [][Next]_owned
=============================================================================
