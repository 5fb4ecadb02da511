----------------------------- MODULE TenantRead -----------------------------
(***************************************************************************)
(* What a read through this SDK promises, whatever the pool, the session   *)
(* and the network do: a request is either refused, or answered with the   *)
(* rows of its own tenant and of no other, out of a transaction that       *)
(* cannot write.  A query the SDK wrote itself (the catalog reads) carries *)
(* no scope and so sees no tenant's rows.  ReadSession implements this.    *)
(***************************************************************************)
CONSTANTS
  Requests,     (* The handler slots of the server.                         *)
  Tenants,      (* The tenants whose rows the database holds.               *)
  Nobody,       (* The asker of a request whose token speaks for no tenant. *)
  SingleTenant  (* The deployment mode: TRUE declares there is one tenant.  *)

VARIABLES
  phase,  (* free, pending, served or refused.                              *)
  asker,  (* Whose token the request carried.                               *)
  sort,   (* "guarded" for a planned query, "catalog" for the SDK's own.    *)
  rows,   (* The tenants whose rows were handed back.                       *)
  safe    (* The rows came from a transaction that could not write.         *)

vars == <<phase, asker, sort, rows, safe>>

\* The rows a request is entitled to: in single-tenant mode, every row.
Rightful(a, s) ==
  CASE SingleTenant -> Tenants
    [] ~SingleTenant /\ s = "catalog" -> {}
    [] ~SingleTenant /\ s = "guarded" -> {a}

Init ==
  /\ phase = [r \in Requests |-> "free"]
  /\ asker = [r \in Requests |-> Nobody]
  /\ sort  = [r \in Requests |-> "guarded"]
  /\ rows  = [r \in Requests |-> {}]
  /\ safe  = [r \in Requests |-> FALSE]

Ask(r, a, s) ==
  /\ phase[r] = "free"
  /\ phase' = [phase EXCEPT ![r] = "pending"]
  /\ asker' = [asker EXCEPT ![r] = a]
  /\ sort'  = [sort EXCEPT ![r] = s]
  /\ UNCHANGED <<rows, safe>>

\* Only a planned query is certified not to write; the SDK's own needs no proof.
Serve(r, ro) ==
  /\ phase[r] = "pending"
  /\ sort[r] = "guarded" => ro
  /\ sort[r] = "guarded" /\ ~SingleTenant => asker[r] \in Tenants
  /\ phase' = [phase EXCEPT ![r] = "served"]
  /\ rows'  = [rows EXCEPT ![r] = Rightful(asker[r], sort[r])]
  /\ safe'  = [safe EXCEPT ![r] = ro]
  /\ UNCHANGED <<asker, sort>>

Refuse(r) ==
  /\ phase[r] = "pending"
  /\ phase' = [phase EXCEPT ![r] = "refused"]
  /\ UNCHANGED <<asker, sort, rows, safe>>

Leave(r) ==
  /\ phase[r] \in {"served", "refused"}
  /\ phase' = [phase EXCEPT ![r] = "free"]
  /\ asker' = [asker EXCEPT ![r] = Nobody]
  /\ sort'  = [sort EXCEPT ![r] = "guarded"]
  /\ rows'  = [rows EXCEPT ![r] = {}]
  /\ safe'  = [safe EXCEPT ![r] = FALSE]

Next ==
  \E r \in Requests :
    \/ \E a \in Tenants \union {Nobody}, s \in {"guarded", "catalog"} : Ask(r, a, s)
    \/ \E ro \in BOOLEAN : Serve(r, ro)
    \/ Refuse(r)
    \/ Leave(r)

Spec == Init /\ [][Next]_vars
=============================================================================
