------------------------------ MODULE Delivery ------------------------------
(***************************************************************************)
(* Codes on their way: AuthService.sendOtp issues a code (Otp) and then    *)
(* hands it to the SMS provider through RetryingSmsProvider, while time    *)
(* passes, guesses are made and other requests are served.                 *)
(*                                                                         *)
(* The provider is external: it reports success or failure after having    *)
(* taken the message or not, as late as it likes, or it throws.            *)
(***************************************************************************)
EXTENDS Otp

CONSTANTS Calls,         \* bound: requests for a code that are served at the same time
          MaxAttempts    \* RetryOptions.maxAttempts

ASSUME DeliveryAssumption == MaxAttempts \in Nat \ {0} /\ Phones # {}

VARIABLES call,          \* the requests: whom for, which attempt, and whether its code is of this window
          handed         \* history: messages handed over for codes of the phone's window

deliveryVars == <<vars, call, handed>>

Phone == CHOOSE p \in Phones : TRUE
Quiet == [pc |-> "idle", phone |-> Phone, attempt |-> 1, ofWindow |-> FALSE]

DeliveryTypeOK == /\ call \in [Calls -> [pc: {"idle", "sending"}, phone: Phones,
                                         attempt: 1..MaxAttempts, ofWindow: BOOLEAN]]
                  /\ handed \in [Phones -> Nat]

DeliveryInit == Init /\ call = [c \in Calls |-> Quiet] /\ handed = Zero(Phones)

\* The first request of a new window leaves the calls of the last one behind.
Reopened(p) == IF OpensWindow(p)
                 THEN [c \in Calls |-> IF call[c].phone = p THEN [call[c] EXCEPT !.ofWindow = FALSE] ELSE call[c]]
                 ELSE call
Rehanded(p) == IF OpensWindow(p) THEN [handed EXCEPT ![p] = 0] ELSE handed

\* generateOtp throws 429 before anything is sent.
SendOtpRefused(p, i) == /\ IssueRefused(p, i)
                        /\ call' = Reopened(p) /\ handed' = Rehanded(p)

SendOtp(c, p, i) == /\ call[c].pc = "idle"
                    /\ Issue(p, i)
                    /\ call' = [Reopened(p) EXCEPT ![c] = [pc |-> "sending", phone |-> p,
                                                           attempt |-> 1, ofWindow |-> TRUE]]
                    /\ handed' = Rehanded(p)

\* Seeded fault: attempts are counted from nought.
AgainOnceMore(c) == IF call[c].attempt <= MaxAttempts THEN [call[c] EXCEPT !.attempt = @ + 1] ELSE Quiet

\* The next attempt after a sleep, or the failure is reported (502).
Again(c) == IF call[c].attempt < MaxAttempts THEN [call[c] EXCEPT !.attempt = @ + 1] ELSE Quiet

\* delegate.send: it succeeds, reports a failure or throws, which is not caught here.
Attempt(c) ==
  /\ call[c].pc = "sending"
  /\ call' \in {[call EXCEPT ![c] = Quiet], [call EXCEPT ![c] = Again(c)]}
  /\ handed' = IF call[c].ofWindow THEN [handed EXCEPT ![call[c].phone] = @ + 1] ELSE handed
  /\ UNCHANGED vars

Elsewhere == UNCHANGED <<call, handed>>

DeliveryNext ==
  \/ \E p \in Phones, i \in Ips : SendOtpRefused(p, i) \/ \E c \in Calls : SendOtp(c, p, i)
  \/ \E c \in Calls : Attempt(c)
  \/ Elsewhere /\ (\/ \E p \in Phones : GuessRight(p) \/ GuessWrong(p) \/ GuessTooMany(p)
                   \/ Tick \/ RedisRestart)

DeliverySpec == DeliveryInit /\ [][DeliveryNext]_deliveryVars /\ WF_deliveryVars(Elsewhere /\ Tick)

-----------------------------------------------------------------------------
(* Properties                                                              *)

\* However long the provider takes and however the attempts of several requests overlap
\* with guesses, expiries and new windows, the codes of one window cost at most this many
\* messages (AuthService.sendOtp, RetryingSmsProvider.send).
SmsBudget == \A p \in Phones : handed[p] <= MaxAttempts * MaxRequestsPerWindow
=============================================================================
