---------------------------- MODULE InstanceOwners ----------------------------
(***************************************************************************)
(* What the hooks of K100PM_CHG_RUNTIME.c rely on when they keep a pointer *)
(* in instance->data between entry and return: from the entry handler to   *)
(* the end of the return handler an instance belongs to one call.  A call  *)
(* may get no instance; which one it gets is open.                         *)
(***************************************************************************)
CONSTANTS Calls, Instances, None  \* None: no instance

VARIABLE owned  \* owned[k]: the instance call k has, or None

Init == owned = [k \in Calls |-> None]

Take(k, o) ==
  /\ owned[k] = None
  /\ \A j \in Calls : owned[j] # o
  /\ owned' = [owned EXCEPT ![k] = o]

Give(k) ==
  /\ owned[k] # None
  /\ owned' = [owned EXCEPT ![k] = None]

Next == \E k \in Calls : Give(k) \/ \E o \in Instances : Take(k, o)

Spec == Init /\ [][Next]_owned
=============================================================================
