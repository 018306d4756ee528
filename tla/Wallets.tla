------------------------------ MODULE Wallets ------------------------------
(***************************************************************************)
(* The columns of one row of the table "balances" and the two updates the  *)
(* economy repository makes to it.  A user without a row reads as Empty:   *)
(* GetBalance answers 0 when there is no row.                              *)
(***************************************************************************)
EXTENDS Integers

Empty == [balance |-> 0, earned |-> 0, spent |-> 0]

\* balance and total_spent move together
Debited(wallet, u, n) ==
    [wallet EXCEPT ![u] = [balance |-> @.balance - n,
                           earned  |-> @.earned,
                           spent   |-> @.spent + n]]

\* balance and total_earned move together
Credited(wallet, u, n) ==
    [wallet EXCEPT ![u] = [balance |-> @.balance + n,
                           earned  |-> @.earned + n,
                           spent   |-> @.spent]]

Moved(wallet, f, t, n) == Credited(Debited(wallet, f, n), t, n)
=============================================================================
