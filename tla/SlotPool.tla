------------------------------ MODULE SlotPool ------------------------------
(***************************************************************************)
(* What the connection slots of the server promise: a slot belongs to one  *)
(* request at a time, a request has one slot at most, and a slot is free   *)
(* again only after its owner has ended.  Server implements this.          *)
(***************************************************************************)
EXTENDS Naturals

CONSTANTS
  Slots,          \* the connection slots
  Requests        \* the requests that may own one

VARIABLE owns     \* the pairs <<slot, request>> in force

Init == owns = {}

\* A request that owns nothing takes a slot that nobody owns.
Take(s, r) ==
  /\ \A p \in owns : p[1] # s /\ p[2] # r
  /\ owns' = owns \cup {<<s, r>>}

\* A request that ends, or cannot begin, gives its slot back.
Give(s, r) ==
  /\ <<s, r>> \in owns
  /\ owns' = owns \ {<<s, r>>}

Next == \E s \in Slots, r \in Requests : Take(s, r) \/ Give(s, r)

Spec == Init /\ [][Next]_owns
=============================================================================
