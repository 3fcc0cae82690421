-------------------------------- MODULE Otp --------------------------------
(***************************************************************************)
(* One-time codes: OtpService over Redis.                                  *)
(*                                                                         *)
(* Issuing and validating are one Lua script each, so each is one step.    *)
(* What is left to go wrong is time: nine keys, each with an expiry of its *)
(* own.  A key is modelled by the time it has left to live, 0 when it does *)
(* not exist, beside its value if it has one; Tick lets time pass.         *)
(* A guess is right or wrong; the digits do not matter.  A script call     *)
(* that throws has had its effect or none, which adds no step.             *)
(***************************************************************************)
EXTENDS Integers

CONSTANTS Phones, Ips,
          TTL, Cooldown, RequestWindow, BlockTime,   \* otp.ttlSeconds, cooldownSeconds, ...
          MaxRequestsPerWindow, MaxRequestsPerIpWindow, MaxVerifyAttempts

ASSUME ConfigAssumption ==
  {TTL, Cooldown, RequestWindow, BlockTime,
   MaxRequestsPerWindow, MaxRequestsPerIpWindow, MaxVerifyAttempts} \subseteq Nat \ {0}

VARIABLES cooldown,                  \* otp:cooldown:<phone>, time left
          requests, window,          \* otp:requests:phone:<phone>, value and time left
          ipRequests, ipWindow,      \* otp:requests:ip:<ip>, value and time left
          code,                      \* otp:code:<phone>, time left
          attempts, attemptsTTL,     \* otp:attempts:<phone>, value and time left
          blocked,                   \* otp:blocked:<phone>, time left
          wrong,                     \* history: wrong guesses at the code issued last
          codes, spent               \* history: codes that could be guessed, and wrong guesses,
                                     \*   since the phone's window was opened

limits == <<cooldown, requests, window, ipRequests, ipWindow>>
guesses == <<code, attempts, attemptsTTL, blocked>>
vars == <<limits, guesses, wrong, codes, spent>>

\* Counters are compared with their limit only: above it they need not grow.
Incr(n, limit) == IF n > limit THEN n ELSE n + 1

TypeOK == /\ cooldown \in [Phones -> 0..Cooldown]
          /\ requests \in [Phones -> 0..(MaxRequestsPerWindow + 1)]
          /\ window \in [Phones -> 0..RequestWindow]
          /\ ipRequests \in [Ips -> 0..(MaxRequestsPerIpWindow + 1)]
          /\ ipWindow \in [Ips -> 0..RequestWindow]
          /\ code \in [Phones -> 0..TTL]
          /\ attempts \in [Phones -> 0..(MaxVerifyAttempts - 1)]
          /\ attemptsTTL \in [Phones -> 0..TTL]
          /\ blocked \in [Phones -> 0..BlockTime]
          /\ wrong \in [Phones -> Nat] /\ codes \in [Phones -> Nat] /\ spent \in [Phones -> Nat]
          /\ \A p \in Phones : /\ requests[p] = 0 <=> window[p] = 0
                               /\ attempts[p] = 0 <=> attemptsTTL[p] = 0
          /\ \A i \in Ips : ipRequests[i] = 0 <=> ipWindow[i] = 0

Zero(S) == [x \in S |-> 0]

Init == /\ cooldown = Zero(Phones)
        /\ requests = Zero(Phones) /\ window = Zero(Phones)
        /\ ipRequests = Zero(Ips) /\ ipWindow = Zero(Ips)
        /\ code = Zero(Phones)
        /\ attempts = Zero(Phones) /\ attemptsTTL = Zero(Phones)
        /\ blocked = Zero(Phones)
        /\ wrong = Zero(Phones) /\ codes = Zero(Phones) /\ spent = Zero(Phones)

-----------------------------------------------------------------------------
(* ISSUE_OTP_SCRIPT                                                        *)

\* Seeded fault: every request renews the window.
CountSliding(p, i) ==
  /\ requests' = [requests EXCEPT ![p] = Incr(requests[p], MaxRequestsPerWindow)]
  /\ window' = [window EXCEPT ![p] = RequestWindow]
  /\ ipRequests' = [ipRequests EXCEPT ![i] = Incr(ipRequests[i], MaxRequestsPerIpWindow)]
  /\ ipWindow' = [ipWindow EXCEPT ![i] = RequestWindow]

\* INCR of both counters; a counter that becomes 1 gets its expiry.
Count(p, i) ==
  /\ requests' = [requests EXCEPT ![p] = Incr(requests[p], MaxRequestsPerWindow)]
  /\ window' = [window EXCEPT ![p] = IF requests'[p] = 1 THEN RequestWindow ELSE window[p]]
  /\ ipRequests' = [ipRequests EXCEPT ![i] = Incr(ipRequests[i], MaxRequestsPerIpWindow)]
  /\ ipWindow' = [ipWindow EXCEPT ![i] = IF ipRequests'[i] = 1 THEN RequestWindow ELSE ipWindow[i]]

\* Seeded fault: the request that reaches the limit is let through once more.
OverLimitLate(n, limit) == n > limit + 1
OverLimit(n, limit) == n > limit

\* The first code of a window, or the one that was live when it opened.
OpensWindow(p) == requests[p] = 0

\* Refused by a limit: the request has been counted all the same.
IssueRefused(p, i) ==
  /\ cooldown[p] = 0
  /\ Count(p, i)
  /\ \/ OverLimit(requests[p] + 1, MaxRequestsPerWindow)
     \/ OverLimit(ipRequests[i] + 1, MaxRequestsPerIpWindow)
  /\ codes' = IF OpensWindow(p) THEN [codes EXCEPT ![p] = 1] ELSE codes
  /\ spent' = IF OpensWindow(p) THEN [spent EXCEPT ![p] = 0] ELSE spent
  /\ UNCHANGED <<cooldown, guesses, wrong>>

Issue(p, i) ==
  /\ cooldown[p] = 0
  /\ Count(p, i)
  /\ ~OverLimit(requests[p] + 1, MaxRequestsPerWindow)
  /\ ~OverLimit(ipRequests[i] + 1, MaxRequestsPerIpWindow)
  /\ cooldown' = [cooldown EXCEPT ![p] = Cooldown]
  /\ code' = [code EXCEPT ![p] = TTL]
  /\ attempts' = [attempts EXCEPT ![p] = 0]
  /\ attemptsTTL' = [attemptsTTL EXCEPT ![p] = 0]
  /\ blocked' = [blocked EXCEPT ![p] = 0]
  /\ wrong' = [wrong EXCEPT ![p] = 0]
  /\ codes' = [codes EXCEPT ![p] = IF OpensWindow(p) THEN 1 ELSE codes[p] + 1]
  /\ spent' = IF OpensWindow(p) THEN [spent EXCEPT ![p] = 0] ELSE spent

-----------------------------------------------------------------------------
(* VALIDATE_OTP_SCRIPT.  With no code stored, or while the phone is        *)
(* blocked, it changes nothing.                                            *)

GuessRight(p) ==
  /\ blocked[p] = 0 /\ code[p] > 0
  /\ code' = [code EXCEPT ![p] = 0]
  /\ attempts' = [attempts EXCEPT ![p] = 0]
  /\ attemptsTTL' = [attemptsTTL EXCEPT ![p] = 0]
  /\ UNCHANGED <<limits, blocked, wrong, codes, spent>>

\* A wrong guess is counted by the histories.
Wrong(p) == /\ wrong' = [wrong EXCEPT ![p] = @ + 1]
            /\ spent' = [spent EXCEPT ![p] = @ + 1]
            /\ UNCHANGED <<limits, codes>>

\* Seeded fault: the attempts expire as fast as the cooldown does.
GuessWrongShortMemory(p) ==
  /\ blocked[p] = 0 /\ code[p] > 0
  /\ attempts[p] + 1 < MaxVerifyAttempts
  /\ attempts' = [attempts EXCEPT ![p] = @ + 1]
  /\ attemptsTTL' = [attemptsTTL EXCEPT ![p] = IF attempts[p] = 0 THEN Cooldown ELSE @]
  /\ Wrong(p)
  /\ UNCHANGED <<code, blocked>>

\* The attempts live as long as a code, from the first wrong guess on.
GuessWrong(p) ==
  /\ blocked[p] = 0 /\ code[p] > 0
  /\ attempts[p] + 1 < MaxVerifyAttempts
  /\ attempts' = [attempts EXCEPT ![p] = @ + 1]
  /\ attemptsTTL' = [attemptsTTL EXCEPT ![p] = IF attempts[p] = 0 THEN TTL ELSE @]
  /\ Wrong(p)
  /\ UNCHANGED <<code, blocked>>

\* Seeded fault: the block is set, the code is left.
GuessTooManyKeepsCode(p) ==
  /\ blocked[p] = 0 /\ code[p] > 0
  /\ attempts[p] + 1 >= MaxVerifyAttempts
  /\ attempts' = [attempts EXCEPT ![p] = 0]
  /\ attemptsTTL' = [attemptsTTL EXCEPT ![p] = 0]
  /\ blocked' = [blocked EXCEPT ![p] = BlockTime]
  /\ Wrong(p)
  /\ UNCHANGED code

GuessTooMany(p) ==
  /\ blocked[p] = 0 /\ code[p] > 0
  /\ attempts[p] + 1 >= MaxVerifyAttempts
  /\ code' = [code EXCEPT ![p] = 0]
  /\ attempts' = [attempts EXCEPT ![p] = 0]
  /\ attemptsTTL' = [attemptsTTL EXCEPT ![p] = 0]
  /\ blocked' = [blocked EXCEPT ![p] = BlockTime]
  /\ Wrong(p)

-----------------------------------------------------------------------------
Pred(n) == IF n > 0 THEN n - 1 ELSE 0

\* Expiry of a counter takes its value along.
Aged(value, ttl) == [x \in DOMAIN ttl |-> IF ttl[x] > 1 THEN value[x] ELSE 0]

\* One unit of time passes.
Tick ==
  /\ cooldown' = [p \in Phones |-> Pred(cooldown[p])]
  /\ requests' = Aged(requests, window) /\ window' = [p \in Phones |-> Pred(window[p])]
  /\ ipRequests' = Aged(ipRequests, ipWindow) /\ ipWindow' = [i \in Ips |-> Pred(ipWindow[i])]
  /\ code' = [p \in Phones |-> Pred(code[p])]
  /\ attempts' = Aged(attempts, attemptsTTL)
  /\ attemptsTTL' = [p \in Phones |-> Pred(attemptsTTL[p])]
  /\ blocked' = [p \in Phones |-> Pred(blocked[p])]
  /\ UNCHANGED <<wrong, codes, spent>>

\* Redis restarts without its keys.
RedisRestart ==
  /\ cooldown' = Zero(Phones)
  /\ requests' = Zero(Phones) /\ window' = Zero(Phones)
  /\ ipRequests' = Zero(Ips) /\ ipWindow' = Zero(Ips)
  /\ code' = Zero(Phones)
  /\ attempts' = Zero(Phones) /\ attemptsTTL' = Zero(Phones)
  /\ blocked' = Zero(Phones)
  /\ UNCHANGED <<wrong, codes, spent>>

Next == \/ \E p \in Phones, i \in Ips : Issue(p, i) \/ IssueRefused(p, i)
        \/ \E p \in Phones : GuessRight(p) \/ GuessWrong(p) \/ GuessTooMany(p)
        \/ Tick \/ RedisRestart

Spec == Init /\ [][Next]_vars

\* Time passes.
FairSpec == Spec /\ WF_vars(Tick)

-----------------------------------------------------------------------------
(* Properties                                                              *)

\* A code that can still be entered has met fewer wrong guesses than the limit,
\* however the expiries of the code, of the attempts and of the block fall
\* (VALIDATE_OTP_SCRIPT; the attempts must not be forgotten before the code is).
LiveCodeHasGuessesLeft == \A p \in Phones : code[p] > 0 => wrong[p] < MaxVerifyAttempts

\* While a phone is blocked it has no code: the block never outlives an issue and
\* no code survives the guess that sets it.
BlockedHasNoCode == \A p \in Phones : blocked[p] > 0 => code[p] = 0

\* Both: the limit of wrong guesses at one code cannot be outlived.
GuessLimit == LiveCodeHasGuessesLeft /\ BlockedHasNoCode

\* A new code lifts the block and restores the guesses, so what bounds guessing is the
\* window: between two openings of it there are at most this many wrong guesses,
\* counting the code that was live before it opened.
GuessBudget == \A p \in Phones : spent[p] <= MaxRequestsPerWindow * MaxVerifyAttempts

Refused(p) == blocked[p] > 0 \/ requests[p] > MaxRequestsPerWindow

\* No phone and no address is locked out for good, however many requests and
\* guesses keep coming.
LocksLift == /\ \A p \in Phones : Refused(p) ~> ~Refused(p)
             /\ \A i \in Ips : (ipRequests[i] > MaxRequestsPerIpWindow)
                                  ~> (ipRequests[i] <= MaxRequestsPerIpWindow)
=============================================================================
