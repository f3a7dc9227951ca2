---------------------------- MODULE MCToolRouter ----------------------------
(* ToolRouter with the policy of the default registry, for TLC. *)
EXTENDS ToolRouter, TLC

Registry == INSTANCE ToolRegistry

CONSTANTS r1, r2, r3, k1

MCRequest == {r1, r2, r3}
MCTool == {"request_refund", "start_rematch", "create_support_ticket", "get_active_ride"}
MCRole == Registry!Roles
MCArg == {"ride_123", Registry!Dispute}
MCKey == {k1}
MCRequiredRole == [t \in MCTool |-> Registry!ToolRoles[t]]
MCGatedCall == Registry!GatedCalls(MCArg) \cap (MCTool \X MCArg)
MCIdemTool == Registry!IdempotentTools \cap MCTool
MCRideScoped == Registry!RideScopedTools \cap MCTool

Invocation(tool, role, arg, confirmed, key, via) ==
    [tool |-> tool, role |-> role, arg |-> arg, confirmed |-> confirmed,
     key |-> key, via |-> via]

\* One call of each kind the router tells apart: an unregistered tool, a role
\* that may not, a gated call with and without confirmation, keyed and not,
\* and the gate by ticket category.
MCCall ==
    {Invocation(None, "customer", "ride_123", FALSE, None, "chat"),
     Invocation("request_refund", "driver", "ride_123", TRUE, k1, "rest"),
     Invocation("request_refund", "customer", "ride_123", TRUE, k1, "rest"),
     Invocation("request_refund", "customer", "ride_123", FALSE, k1, "chat"),
     Invocation("start_rematch", "customer", "ride_123", TRUE, k1, "chat"),
     Invocation("create_support_ticket", "customer", Registry!Dispute, FALSE, None, "chat")}

\* The confirmed refund of a client that sends it again.
MCRetry == {Invocation("request_refund", "customer", "ride_123", TRUE, k1, "rest")}

\* The same call made with a role the tool does not allow.
MCDenied == {Invocation("request_refund", "driver", "ride_123", TRUE, k1, "rest")}

MCPair == {r1, r2}

Symmetry == Permutations(MCRequest)
=============================================================================
