------------------------------ MODULE Lifecycle ------------------------------
(***************************************************************************)
(* The vocabulary of packages/shared/src/domain and of the Wompi adapter:  *)
(* the statuses of orders, payments and tickets, the transition tables     *)
(* every service asserts before it writes a status, and the translation of *)
(* a provider status into a payment status.                                *)
(***************************************************************************)

OrderStatuses ==
    {"initiated", "pending_payment", "paid", "failed", "expired", "refunded"}

PaymentStatuses ==
    {"pending", "approved", "declined", "voided", "error", "refunded"}

OrderTransitions ==
    {<<"initiated", "pending_payment">>, <<"initiated", "failed">>,
     <<"initiated", "expired">>,
     <<"pending_payment", "paid">>, <<"pending_payment", "failed">>,
     <<"pending_payment", "expired">>,
     <<"paid", "refunded">>}

PaymentTransitions ==
    {<<"pending", "approved">>, <<"pending", "declined">>,
     <<"pending", "voided">>, <<"pending", "error">>,
     <<"approved", "refunded">>}

\* assertOrderTransition / assertPaymentTransition: FALSE where they throw.
CanOrderMove(current, next) == <<current, next>> \in OrderTransitions
CanPaymentMove(current, next) == <<current, next>> \in PaymentTransitions

\* What Wompi reports of a transaction; "OTHER" is any word the switch does not name.
WompiStatuses == {"APPROVED", "DECLINED", "VOIDED", "ERROR", "PENDING", "OTHER"}

MapWompiStatus(status) ==
    CASE status = "APPROVED" -> "approved"
      [] status = "DECLINED" -> "declined"
      [] status = "VOIDED"   -> "voided"
      [] status = "ERROR"    -> "error"
      [] OTHER               -> "pending"

\* The statuses on which handleWebhook fails the order.
Refusals == {"declined", "voided", "error"}
==============================================================================
