---------------------------- MODULE PaymentLedger ----------------------------
(***************************************************************************)
(* What card payment for an event seat promises, with the provider, the    *)
(* rows, the workers and the locks hidden.  A checkout is offered, then    *)
(* either its money is captured or it is void; captured money is booked,   *)
(* once, and never written off.  A seat is settled only by booking a       *)
(* capture made for it, or by an organiser.                                *)
(***************************************************************************)
CONSTANTS Checkouts,   \* identifiers of the checkouts opened at the provider
          Regs,        \* event registrations
          None         \* no registration

VARIABLES entry,       \* entry[c]: where the money of checkout c stands
          payer,       \* payer[c]: the registration checkout c was opened for
          settled      \* the registrations whose seat counts as paid

vars == <<entry, payer, settled>>

Entries == {"none", "offered", "captured", "booked", "void"}

TypeOK == /\ entry \in [Checkouts -> Entries]
          /\ payer \in [Checkouts -> Regs \cup {None}]
          /\ settled \in SUBSET Regs

Init == /\ entry = [c \in Checkouts |-> "none"]
        /\ payer = [c \in Checkouts |-> None]
        /\ settled = {}

Offer(c, r) == /\ entry[c] = "none"
               /\ entry' = [entry EXCEPT ![c] = "offered"]
               /\ payer' = [payer EXCEPT ![c] = r]
               /\ UNCHANGED settled

Capture(c) == /\ entry[c] = "offered"
              /\ entry' = [entry EXCEPT ![c] = "captured"]
              /\ UNCHANGED <<payer, settled>>

\* A checkout that will never be charged: expired, or withdrawn by us.
Void(c) == /\ entry[c] = "offered"
           /\ entry' = [entry EXCEPT ![c] = "void"]
           /\ UNCHANGED <<payer, settled>>

\* The capture is recorded; it settles the seat it was for, or is left to a
\* human to refund.
Book(c) == /\ entry[c] = "captured"
           /\ entry' = [entry EXCEPT ![c] = "booked"]
           /\ \/ settled' = settled
              \/ settled' = settled \cup {payer[c]}
           /\ UNCHANGED payer

\* An organiser records a payment taken by hand, or takes the mark away.
Organise(r) == /\ \/ settled' = settled \cup {r}
                  \/ settled' = settled \ {r}
               /\ UNCHANGED <<entry, payer>>

Next == \/ \E c \in Checkouts, r \in Regs : Offer(c, r)
        \/ \E c \in Checkouts : Capture(c) \/ Void(c) \/ Book(c)
        \/ \E r \in Regs : Organise(r)

Spec == Init /\ [][Next]_vars
=============================================================================
