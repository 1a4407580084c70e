--------------------------- MODULE ReservationBook ---------------------------
(***************************************************************************)
(* What the service promises about the days of a request, with nothing of  *)
(* projections, events, runs and answers: days are reserved once, handed   *)
(* to HCM, and then either come back or are taken by HCM once.  An         *)
(* employee or manager can only withdraw what HCM has not been handed.     *)
(*                                                                         *)
(* The service may lose HCM's answer that it took the days.  Nothing is    *)
(* promised of such a request except that its days come back at most once. *)
(***************************************************************************)
EXTENDS Integers

CONSTANTS
    Requests,
    Keys,
    KeyOf,      \* the balance a request draws on
    DaysOf      \* the days it asks for

VARIABLES
    stage,      \* how far each request has come
    reserved    \* the days that are set aside in each balance

bookVars == <<stage, reserved>>

Stages == {"none", "held", "submitted", "taken", "returned", "settled",
           "lost", "closed"}

BookTypeOK ==
    /\ stage \in [Requests -> Stages]
    /\ reserved \in [Keys -> Nat]

BookInit ==
    /\ stage = [r \in Requests |-> "none"]
    /\ reserved = [k \in Keys |-> 0]

-----------------------------------------------------------------------------

Moves(r, from, to) ==
    /\ stage[r] = from
    /\ stage' = [stage EXCEPT ![r] = to]

SetAside(r) == reserved' = [reserved EXCEPT ![KeyOf[r]] = @ + DaysOf[r]]

GiveBack(r) == reserved' = [reserved EXCEPT ![KeyOf[r]] = @ - DaysOf[r]]

Reserve(r) == Moves(r, "none", "held") /\ SetAside(r)

Withdraw(r) == Moves(r, "held", "returned") /\ GiveBack(r)

Submit(r) == Moves(r, "held", "submitted") /\ UNCHANGED reserved

\* HCM refuses the days: they come back.
Refuse(r) == Moves(r, "submitted", "returned") /\ GiveBack(r)

\* HCM deducts the days; the service does not know it yet.
Take(r) == Moves(r, "submitted", "taken") /\ UNCHANGED reserved

\* The service knows: what HCM has deducted is no longer set aside.
SettleDays(r) == Moves(r, "taken", "settled") /\ GiveBack(r)

\* The service loses an answer, or several at once if it stops.
Lose ==
    /\ stage' \in [Requests -> Stages]
    /\ \A r \in Requests :
          stage'[r] # stage[r] => stage[r] = "taken" /\ stage'[r] = "lost"
    /\ UNCHANGED reserved

\* A second answer, whatever it says, is not lost: the days come back.
Recover(r) == Moves(r, "lost", "closed") /\ GiveBack(r)

BookNext ==
    \/ Lose
    \/ \E r \in Requests :
          \/ Reserve(r)
          \/ Withdraw(r)
          \/ Submit(r)
          \/ Refuse(r)
          \/ Take(r)
          \/ SettleDays(r)
          \/ Recover(r)

BookSpec == BookInit /\ [][BookNext]_bookVars

=============================================================================
