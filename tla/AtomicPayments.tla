-------------------------- MODULE AtomicPayments --------------------------
(***************************************************************************)
(* What the transfer dialogue promises, with no dialogue in it: a request  *)
(* is settled at most once, in one indivisible step that takes its amount  *)
(* from the sender and gives all of it to the recipient, and nothing else  *)
(* moves money except an award, a charge covered by the balance, and the   *)
(* removal of a member who left.  TransferConfirmation implements it.      *)
(***************************************************************************)
EXTENDS Wallets

CONSTANTS
    Users,           \* Telegram users
    Requests,        \* transfer requests (the confirmation tokens)
    From, To,        \* sender and recipient of a request
    Amount,          \* its amount
    Sums,            \* amounts of awards and charges
    InitialBalance   \* balance of each user at the start

VARIABLES
    wallet,    \* what each user has
    settled    \* requests that have been paid

vars == <<wallet, settled>>

Init ==
    /\ wallet = [u \in Users |-> [balance |-> InitialBalance[u],
                                  earned  |-> InitialBalance[u],
                                  spent   |-> 0]]
    /\ settled = {}

\* The whole transfer in one step.
Pay(r) ==
    /\ r \notin settled
    /\ wallet[From[r]].balance >= Amount[r]
    /\ wallet' = Moved(wallet, From[r], To[r], Amount[r])
    /\ settled' = settled \cup {r}

\* A streak bonus, thanks, a casino win, a riddle reward, an admin's gift.
Award(u, n) ==
    /\ wallet' = Credited(wallet, u, n)
    /\ UNCHANGED settled

\* A casino bet or an admin's charge: never more than there is.
Charge(u, n) ==
    /\ wallet[u].balance >= n
    /\ wallet' = Debited(wallet, u, n)
    /\ UNCHANGED settled

\* The purge of a member who left.
Forget(u) ==
    /\ wallet' = [wallet EXCEPT ![u] = Empty]
    /\ UNCHANGED settled

Next ==
    \/ \E r \in Requests : Pay(r)
    \/ \E u \in Users : Forget(u) \/ \E n \in Sums : Award(u, n) \/ Charge(u, n)

Spec == Init /\ [][Next]_vars
=============================================================================
