------------------------------- MODULE NvMap --------------------------------
(***************************************************************************)
(* What the users of the non-volatile memory rely on: a map from items to  *)
(* values.  A request takes effect at one moment between its call and its  *)
(* return or has no effect, a request that returns success has taken       *)
(* effect, and a loss of power changes nothing.                            *)
(***************************************************************************)
CONSTANTS Ids, Vals, None

VARIABLES map, req, ret

vars == <<map, req, ret>>

Requests == [op : {"init", "write", "delete"}, id : Ids, val : Vals]

(* The map a request leaves: a write needs the item, a creation needs that *)
(* it does not exist.                                                      *)
Applied(r) ==
  CASE r.op = "init"   -> [map EXCEPT ![r.id] = IF @ = None THEN r.val ELSE @]
    [] r.op = "write"  -> [map EXCEPT ![r.id] = IF @ = None THEN @ ELSE r.val]
    [] r.op = "delete" -> [map EXCEPT ![r.id] = None]

Init == /\ map = [i \in Ids |-> None]
        /\ req = None
        /\ ret = None

Call(r) == /\ req = None
           /\ req' = r
           /\ ret' = None
           /\ UNCHANGED map

TakeEffect == /\ req # None
              /\ map' = Applied(req)
              /\ UNCHANGED <<req, ret>>

Answers(status) ==
  CASE status = "success" -> map = Applied(req)
    [] status = "uninit"  -> IF req.op = "init" THEN map = Applied(req)
                                                ELSE map[req.id] = None
    [] status = "failed"  -> TRUE

Return(status) ==
  /\ req # None
  /\ Answers(status)
  /\ ret' = status
  /\ req' = None
  /\ UNCHANGED map

(* The request is forgotten, and with it the return of the last one.       *)
PowerLoss == /\ req' = None
             /\ ret' = None
             /\ UNCHANGED map

Next == \/ \E r \in Requests : Call(r)
        \/ TakeEffect
        \/ \E status \in {"success", "uninit", "failed"} : Return(status)
        \/ PowerLoss

Spec == Init /\ [][Next]_vars
=============================================================================
