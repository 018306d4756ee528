---------------------- MODULE MCTransferConfirmation ----------------------
(* Values for the constants of TransferConfirmation that a .cfg cannot      *)
(* write: functions of the two requests.                                    *)
EXTENDS TransferConfirmation, TLC

CONSTANTS u1, u2, u3, t1, t2, group, private

\* two requests that cross: each locks the row the other one credits
CrossFrom == t1 :> u1 @@ t2 :> u2
CrossTo == t1 :> u2 @@ t2 :> u1

\* two requests of one sender: to a member who left long ago, and to a user
\* who is not a member yet
GiftFrom == t1 :> u1 @@ t2 :> u1
GiftTo == t1 :> u3 @@ t2 :> u2

\* one request, clicked on in several instances of the bot at once
OneFrom == t1 :> u1
OneTo == t1 :> u2
OneAmount == t1 :> 1
OneGroup == t1 :> group

UnitAmounts == t1 :> 1 @@ t2 :> 2
TwoChats == t1 :> group @@ t2 :> private
Balances == u1 :> 1 @@ u2 :> 2
GiftBalances == u1 :> 2 @@ u2 :> 0 @@ u3 :> 0
=============================================================================
