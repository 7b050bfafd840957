--------------------------------- MODULE Udm ---------------------------------
(***************************************************************************)
(* The UDM (internal/udm): a read-only table of subscribers, in memory or   *)
(* in PostgreSQL.  Nothing writes it, so it is a constant.                  *)
(***************************************************************************)
EXTENDS Sbi

CONSTANTS
  Subscription,  \* the subscribed profile of each subscriber
  NotFound       \* no such row, or a database error: both are answered 404

ASSUME UdmAssumption ==
  /\ Subscription \in [Supi -> Profile \cup {NotFound}]
  /\ NotFound \notin Profile

(* GetSubscriptionData answers with the row of the subscriber, or 404. *)
SmData(supi) == Subscription[supi]

(* The SMF's comparison of dnn, sst and sd with the answer. *)
Subscribed(r) == SmData(SupiOf[r]) = ProfileOf[r]
=============================================================================
