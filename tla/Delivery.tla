-------------------------------- MODULE Delivery --------------------------------
(***************************************************************************)
(* What a delivery client promises about the entries it is given: each one *)
(* is taken on at most once, and once taken on it is sent, or given up and *)
(* counted, and neither verdict is ever revised.  Several entries may move *)
(* in one step (a batch, an overflow).                                     *)
(***************************************************************************)
CONSTANT Entry
VARIABLE status

Statuses == {"new", "pending", "sent", "lost"}

Moves == {<<"new", "pending">>, <<"pending", "sent">>, <<"pending", "lost">>}

Init == status = [e \in Entry |-> "new"]

Step ==
    /\ status' \in [Entry -> Statuses]
    /\ \A e \in Entry :
          status'[e] # status[e] => <<status[e], status'[e]>> \in Moves

Spec == Init /\ [][Step]_status
================================================================================
