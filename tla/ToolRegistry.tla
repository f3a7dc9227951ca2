---------------------------- MODULE ToolRegistry ----------------------------
(***************************************************************************)
(* The allowlist of app/tools/registry/registry.py: the fourteen tools     *)
(* build_default_registry registers and, for each, the fields of its       *)
(* ToolDefinition that the router decides on.  What a tool's schema and    *)
(* description say is left out: no decision of the router reads them.      *)
(***************************************************************************)

\* UserRole
Roles == {"customer", "driver", "support_agent", "safety_agent", "admin"}

\* required_role of the tools a rider or a driver may call ...
RiderAndDriver == {"customer", "driver", "support_agent"}

\* ... of the tools that change a ride or a payment ...
RiderOnly == {"customer", "support_agent"}

\* ... and of the tools about a driver's own account.
DriverOnly == {"driver", "support_agent"}

ReadTools == {"get_active_ride", "get_driver_eta", "get_ride_fare_breakdown",
              "get_payment_status", "get_refund_status", "get_ticket_status",
              "get_driver_earnings", "get_document_status"}

ActionTools == {"request_refund", "cancel_ride", "start_rematch",
                "create_support_ticket", "create_safety_incident",
                "handoff_to_agent"}

RegisteredTools == ReadTools \cup ActionTools

\* ToolDefinition.required_role
ToolRoles ==
    [t \in RegisteredTools |->
        CASE t \in {"request_refund", "cancel_ride", "start_rematch"} -> RiderOnly
          [] t \in {"get_driver_earnings", "get_document_status"} -> DriverOnly
          [] t \in {"create_safety_incident", "handoff_to_agent"} ->
                 RiderAndDriver \cup {"safety_agent"}
          [] OTHER -> RiderAndDriver]

\* ToolDefinition.requires_confirmation
ConfirmationTools == {"request_refund", "cancel_ride"}

\* ToolDefinition.requires_idempotency_key
IdempotentTools == ActionTools

\* The tools whose authorize_ownership compares the ride_id argument with the
\* caller's active ride; the others return without a check.
RideScopedTools == {"get_driver_eta", "get_ride_fare_breakdown",
                    "get_payment_status", "get_refund_status",
                    "request_refund", "cancel_ride", "start_rematch"}

\* The category of a support ticket that ToolRouter.invoke gates by name.
Dispute == "payment_dispute"

\* needs_confirmation of ToolRouter.invoke, as a set of <<tool, argument>>
\* pairs over the arguments Args.
GatedCalls(Args) ==
    (ConfirmationTools \X Args) \cup ({"create_support_ticket"} \X (Args \cap {Dispute}))
=============================================================================
