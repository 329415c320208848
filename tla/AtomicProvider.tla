--------------------------- MODULE AtomicProvider ---------------------------
(***************************************************************************)
(* What every provider promises for a mutation (the Provider interface of  *)
(* provider.go): the state of a tenant changes only by one operation that  *)
(* its current state admits, applied to all of that state at once.         *)
(* The operations are parameters; TenantState gives them their meaning.    *)
(***************************************************************************)
CONSTANTS Tenants, Ops, Empty, Admits(_, _), Result(_, _), WithinBounds(_)

VARIABLE tenants

Init == tenants = [t \in Tenants |-> Empty]

Commit(t, op) ==
  /\ Admits(tenants[t], op)
  /\ WithinBounds(Result(tenants[t], op))
  /\ tenants' = [tenants EXCEPT ![t] = Result(tenants[t], op)]

Next == \E t \in Tenants, op \in Ops : Commit(t, op)

Spec == Init /\ [][Next]_tenants

=============================================================================
