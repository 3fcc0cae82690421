----------------------------- MODULE AuthProofs -----------------------------
(***************************************************************************)
(* Proofs about signing in: the one-time codes and their delivery, for any *)
(* phones, addresses and requests and any configuration with positive      *)
(* times and limits; and the sessions, for any clients, any number of      *)
(* concurrent requests, any token lifetime and any clock bound.            *)
(***************************************************************************)
EXTENDS Delivery, Sessions, FiniteSetTheorems, TLAPS

(* One-time codes (Otp).                                                   *)

\* While a code lives, the attempts key counts all the wrong guesses at it: the key
\* was set after the code and with the same time to live, so it does not expire first.
CodeInv ==
  \A p \in Phones :
     /\ code[p] > 0 => /\ attempts[p] = wrong[p]
                       /\ attempts[p] > 0 => attemptsTTL[p] >= code[p]
                       /\ blocked[p] = 0

\* Every code guessed since the window opened is one of at most as many as there
\* were requests, and each takes at most MaxVerifyAttempts wrong guesses; a live code
\* has some of them left.
BudgetInv ==
  \A p \in Phones :
     /\ codes[p] <= MaxRequestsPerWindow
     /\ requests[p] > 0 => codes[p] <= requests[p]
     /\ spent[p] <= codes[p] * MaxVerifyAttempts
     /\ code[p] > 0 => spent[p] + MaxVerifyAttempts <= codes[p] * MaxVerifyAttempts + wrong[p]

IInv == TypeOK /\ CodeInv /\ BudgetInv

-----------------------------------------------------------------------------
\* The limits as the numbers they are.
LEMMA Config ==
  /\ TTL \in Nat \ {0} /\ Cooldown \in Nat \ {0}
  /\ RequestWindow \in Nat \ {0} /\ BlockTime \in Nat \ {0}
  /\ MaxRequestsPerWindow \in Nat \ {0} /\ MaxRequestsPerIpWindow \in Nat \ {0}
  /\ MaxVerifyAttempts \in Nat \ {0}
BY ConfigAssumption

\* What counting a request does to the counters of its phone and its address.
LEMMA CountTypes ==
  ASSUME TypeOK, NEW p \in Phones, NEW i \in Ips, Count(p, i)
  PROVE  /\ requests' \in [Phones -> 0..(MaxRequestsPerWindow + 1)]
         /\ window' \in [Phones -> 0..RequestWindow]
         /\ ipRequests' \in [Ips -> 0..(MaxRequestsPerIpWindow + 1)]
         /\ ipWindow' \in [Ips -> 0..RequestWindow]
         /\ \A q \in Phones : requests'[q] = 0 <=> window'[q] = 0
         /\ \A j \in Ips : ipRequests'[j] = 0 <=> ipWindow'[j] = 0
<1> USE Config DEF TypeOK, Count, Incr
<1>1. requests' \in [Phones -> 0..(MaxRequestsPerWindow + 1)]
  OBVIOUS
<1>2. window' \in [Phones -> 0..RequestWindow]
  OBVIOUS
<1>3. ipRequests' \in [Ips -> 0..(MaxRequestsPerIpWindow + 1)]
  OBVIOUS
<1>4. ipWindow' \in [Ips -> 0..RequestWindow]
  OBVIOUS
<1>5. \A q \in Phones : requests'[q] = 0 <=> window'[q] = 0
  OBVIOUS
<1>6. \A j \in Ips : ipRequests'[j] = 0 <=> ipWindow'[j] = 0
  OBVIOUS
<1> QED BY <1>1, <1>2, <1>3, <1>4, <1>5, <1>6

LEMMA InitIInv == Init => IInv
BY Config DEF Init, Zero, IInv, TypeOK, CodeInv, BudgetInv

LEMMA TypeStep == TypeOK /\ [Next]_vars => TypeOK'
<1> SUFFICES ASSUME TypeOK, [Next]_vars PROVE TypeOK'
  OBVIOUS
<1> USE Config
<1>1. ASSUME NEW p \in Phones, NEW i \in Ips, Issue(p, i) PROVE TypeOK'
  <2>1. Count(p, i)
    BY <1>1 DEF Issue
  <2>2. /\ cooldown' \in [Phones -> 0..Cooldown] /\ code' \in [Phones -> 0..TTL]
        /\ attempts' \in [Phones -> 0..(MaxVerifyAttempts - 1)]
        /\ attemptsTTL' \in [Phones -> 0..TTL] /\ blocked' \in [Phones -> 0..BlockTime]
        /\ \A q \in Phones : attempts'[q] = 0 <=> attemptsTTL'[q] = 0
    BY <1>1 DEF Issue, TypeOK
  <2>3. wrong' \in [Phones -> Nat] /\ codes' \in [Phones -> Nat] /\ spent' \in [Phones -> Nat]
    BY <1>1 DEF Issue, TypeOK
  <2> QED BY <2>1, <2>2, <2>3, CountTypes DEF TypeOK
<1>2. ASSUME NEW p \in Phones, NEW i \in Ips, IssueRefused(p, i) PROVE TypeOK'
  <2>1. Count(p, i)
    BY <1>2 DEF IssueRefused
  <2>2. codes' \in [Phones -> Nat] /\ spent' \in [Phones -> Nat]
    BY <1>2 DEF IssueRefused, TypeOK
  <2>3. UNCHANGED <<cooldown, code, attempts, attemptsTTL, blocked, wrong>>
    BY <1>2 DEF IssueRefused, guesses
  <2> QED BY <2>1, <2>2, <2>3, CountTypes DEF TypeOK
<1>3. ASSUME NEW p \in Phones, GuessRight(p) PROVE TypeOK'
  BY <1>3 DEF GuessRight, limits, TypeOK
<1>4. ASSUME NEW p \in Phones, GuessWrong(p) PROVE TypeOK'
  BY <1>4 DEF GuessWrong, Wrong, limits, TypeOK
<1>5. ASSUME NEW p \in Phones, GuessTooMany(p) PROVE TypeOK'
  BY <1>5 DEF GuessTooMany, Wrong, limits, TypeOK
<1>6. CASE Tick
  <2>1. /\ cooldown' \in [Phones -> 0..Cooldown] /\ code' \in [Phones -> 0..TTL]
        /\ blocked' \in [Phones -> 0..BlockTime]
    BY <1>6 DEF Tick, Pred, TypeOK
  <2>2. /\ requests' \in [Phones -> 0..(MaxRequestsPerWindow + 1)]
        /\ window' \in [Phones -> 0..RequestWindow]
        /\ \A q \in Phones : requests'[q] = 0 <=> window'[q] = 0
    BY <1>6 DEF Tick, Pred, Aged, TypeOK
  <2>3. /\ ipRequests' \in [Ips -> 0..(MaxRequestsPerIpWindow + 1)]
        /\ ipWindow' \in [Ips -> 0..RequestWindow]
        /\ \A j \in Ips : ipRequests'[j] = 0 <=> ipWindow'[j] = 0
    BY <1>6 DEF Tick, Pred, Aged, TypeOK
  <2>4. /\ attempts' \in [Phones -> 0..(MaxVerifyAttempts - 1)]
        /\ attemptsTTL' \in [Phones -> 0..TTL]
        /\ \A q \in Phones : attempts'[q] = 0 <=> attemptsTTL'[q] = 0
    BY <1>6 DEF Tick, Pred, Aged, TypeOK
  <2>5. UNCHANGED <<wrong, codes, spent>>
    BY <1>6 DEF Tick
  <2> QED BY <2>1, <2>2, <2>3, <2>4, <2>5 DEF TypeOK
<1>7. CASE RedisRestart
  BY <1>7 DEF RedisRestart, Zero, TypeOK
<1>8. CASE UNCHANGED vars
  BY <1>8 DEF vars, limits, guesses, TypeOK
<1> QED BY <1>1, <1>2, <1>3, <1>4, <1>5, <1>6, <1>7, <1>8 DEF Next

-----------------------------------------------------------------------------
LEMMA CodeStep == TypeOK /\ CodeInv /\ [Next]_vars => CodeInv'
<1> SUFFICES ASSUME TypeOK, CodeInv, [Next]_vars PROVE CodeInv'
  OBVIOUS
<1> USE Config DEF CodeInv
<1>1. ASSUME NEW p \in Phones, NEW i \in Ips, Issue(p, i) PROVE CodeInv'
  BY <1>1 DEF Issue, TypeOK
<1>2. ASSUME NEW p \in Phones, NEW i \in Ips, IssueRefused(p, i) PROVE CodeInv'
  BY <1>2 DEF IssueRefused, guesses
<1>3. ASSUME NEW p \in Phones, GuessRight(p) PROVE CodeInv'
  BY <1>3 DEF GuessRight, TypeOK
<1>4. ASSUME NEW p \in Phones, GuessWrong(p) PROVE CodeInv'
  BY <1>4 DEF GuessWrong, Wrong, TypeOK
<1>5. ASSUME NEW p \in Phones, GuessTooMany(p) PROVE CodeInv'
  BY <1>5 DEF GuessTooMany, Wrong, TypeOK
<1>6. CASE Tick
  BY <1>6 DEF Tick, Pred, Aged, TypeOK
<1>7. CASE RedisRestart
  BY <1>7 DEF RedisRestart, Zero
<1>8. CASE UNCHANGED vars
  BY <1>8 DEF vars, guesses
<1> QED BY <1>1, <1>2, <1>3, <1>4, <1>5, <1>6, <1>7, <1>8 DEF Next

\* One more code brings one more share of the budget.
LEMMA OneMoreShare ==
  ASSUME NEW n \in Nat PROVE (n + 1) * MaxVerifyAttempts = n * MaxVerifyAttempts + MaxVerifyAttempts
BY Config

LEMMA BudgetStep == TypeOK /\ CodeInv /\ BudgetInv /\ [Next]_vars => BudgetInv'
<1> SUFFICES ASSUME TypeOK, CodeInv, BudgetInv, [Next]_vars,
                    NEW q \in Phones
             PROVE  /\ codes'[q] <= MaxRequestsPerWindow
                    /\ requests'[q] > 0 => codes'[q] <= requests'[q]
                    /\ spent'[q] <= codes'[q] * MaxVerifyAttempts
                    /\ code'[q] > 0 => spent'[q] + MaxVerifyAttempts
                                         <= codes'[q] * MaxVerifyAttempts + wrong'[q]
  BY DEF BudgetInv
<1>0. /\ codes[q] <= MaxRequestsPerWindow
      /\ requests[q] > 0 => codes[q] <= requests[q]
      /\ spent[q] <= codes[q] * MaxVerifyAttempts
      /\ code[q] > 0 => spent[q] + MaxVerifyAttempts <= codes[q] * MaxVerifyAttempts + wrong[q]
      /\ codes[q] \in Nat /\ spent[q] \in Nat /\ wrong[q] \in Nat
      /\ requests[q] \in 0..(MaxRequestsPerWindow + 1) /\ code[q] \in 0..TTL
      /\ codes[q] * MaxVerifyAttempts \in Nat
  BY Config DEF BudgetInv, TypeOK
<1>a. (codes[q] + 1) * MaxVerifyAttempts = codes[q] * MaxVerifyAttempts + MaxVerifyAttempts
  BY <1>0, OneMoreShare
<1>b. 1 * MaxVerifyAttempts = MaxVerifyAttempts
  BY Config
<1>1. ASSUME NEW p \in Phones, NEW i \in Ips, Issue(p, i) PROVE
        /\ codes'[q] <= MaxRequestsPerWindow
        /\ requests'[q] > 0 => codes'[q] <= requests'[q]
        /\ spent'[q] <= codes'[q] * MaxVerifyAttempts
        /\ code'[q] > 0 => spent'[q] + MaxVerifyAttempts <= codes'[q] * MaxVerifyAttempts + wrong'[q]
  <2>1. CASE p # q
    BY <1>1, <2>1, <1>0 DEF Issue, Count, TypeOK, OpensWindow
  <2>2. CASE p = q /\ OpensWindow(p)
    <3>1. codes'[q] = 1 /\ spent'[q] = 0 /\ wrong'[q] = 0 /\ requests'[q] = 1
      BY <1>1, <2>2, Config DEF Issue, Count, Incr, TypeOK, OpensWindow
    <3> QED BY <3>1, <1>b, Config
  <2>3. CASE p = q /\ ~OpensWindow(p)
    <3>1. /\ codes'[q] = codes[q] + 1 /\ spent'[q] = spent[q] /\ wrong'[q] = 0
      BY <1>1, <2>3 DEF Issue, TypeOK
    <3>2. requests'[q] = requests[q] + 1 /\ requests[q] + 1 <= MaxRequestsPerWindow /\ requests[q] > 0
      BY <1>1, <2>3, <1>0, Config DEF Issue, Count, Incr, OverLimit, TypeOK, OpensWindow
    <3> QED BY <3>1, <3>2, <1>0, <1>a, Config
  <2> QED BY <2>1, <2>2, <2>3
<1>2. ASSUME NEW p \in Phones, NEW i \in Ips, IssueRefused(p, i) PROVE
        /\ codes'[q] <= MaxRequestsPerWindow
        /\ requests'[q] > 0 => codes'[q] <= requests'[q]
        /\ spent'[q] <= codes'[q] * MaxVerifyAttempts
        /\ code'[q] > 0 => spent'[q] + MaxVerifyAttempts <= codes'[q] * MaxVerifyAttempts + wrong'[q]
  <2>0. code'[q] = code[q] /\ wrong'[q] = wrong[q]
    BY <1>2 DEF IssueRefused, guesses
  <2>1. CASE p # q
    BY <1>2, <2>0, <2>1, <1>0 DEF IssueRefused, Count, TypeOK
  <2>2. CASE p = q /\ OpensWindow(p)
    <3>1. codes'[q] = 1 /\ spent'[q] = 0 /\ requests'[q] = 1
      BY <1>2, <2>2, Config DEF IssueRefused, Count, Incr, TypeOK, OpensWindow
    <3> QED BY <3>1, <2>0, <1>0, <1>b, Config
  <2>3. CASE p = q /\ ~OpensWindow(p)
    <3>1. codes'[q] = codes[q] /\ spent'[q] = spent[q]
      BY <1>2, <2>3 DEF IssueRefused
    <3>2. requests'[q] >= requests[q] /\ requests[q] > 0
      BY <1>2, <2>3, <1>0, Config DEF IssueRefused, Count, Incr, TypeOK, OpensWindow
    <3>3. requests'[q] \in Nat
      BY <1>2, <2>3, <1>0, Config DEF IssueRefused, Count, Incr, TypeOK
    <3> QED BY <3>1, <3>2, <3>3, <2>0, <1>0, Config
  <2> QED BY <2>1, <2>2, <2>3
<1>3. ASSUME NEW p \in Phones, GuessRight(p) PROVE
        /\ UNCHANGED <<codes, spent, wrong, requests>>
        /\ code'[q] > 0 => code[q] > 0
  BY <1>3 DEF GuessRight, TypeOK, limits
<1>4. ASSUME NEW p \in Phones, GuessWrong(p) \/ GuessTooMany(p) PROVE
        /\ UNCHANGED <<codes, requests>>
        /\ code'[q] > 0 => code[q] > 0
        /\ \/ spent'[q] = spent[q] /\ wrong'[q] = wrong[q]
           \/ spent'[q] = spent[q] + 1 /\ wrong'[q] = wrong[q] + 1
              /\ code[q] > 0 /\ wrong[q] < MaxVerifyAttempts
  <2>1. UNCHANGED <<codes, requests>>
    BY <1>4 DEF GuessWrong, GuessTooMany, Wrong, limits
  <2>2. code'[q] > 0 => code[q] > 0
    BY <1>4, <1>0 DEF GuessWrong, GuessTooMany, TypeOK
  <2>3. CASE p # q
    BY <1>4, <2>1, <2>2, <2>3 DEF GuessWrong, GuessTooMany, Wrong, TypeOK
  <2>4. CASE p = q
    <3>1. code[q] > 0 /\ spent'[q] = spent[q] + 1 /\ wrong'[q] = wrong[q] + 1
      BY <1>4, <2>4 DEF GuessWrong, GuessTooMany, Wrong, TypeOK
    <3>2. wrong[q] = attempts[q] /\ attempts[q] \in 0..(MaxVerifyAttempts - 1)
      BY <3>1 DEF CodeInv, TypeOK
    <3> QED BY <2>1, <2>2, <3>1, <3>2, Config
  <2> QED BY <2>3, <2>4
<1>5. CASE Tick \/ RedisRestart
  <2>1. UNCHANGED <<codes, spent, wrong>>
    BY <1>5 DEF Tick, RedisRestart
  <2>2. code'[q] > 0 => code[q] > 0
    BY <1>5, <1>0 DEF Tick, RedisRestart, Pred, Zero
  <2>3. requests'[q] > 0 => requests'[q] = requests[q]
    BY <1>5, <1>0 DEF Tick, RedisRestart, Aged, Zero, TypeOK
  <2> QED BY <2>1, <2>2, <2>3, <1>0
<1>6. CASE UNCHANGED vars
  BY <1>6, <1>0 DEF vars, limits, guesses
<1>7. ASSUME NEW p \in Phones, GuessRight(p) \/ GuessWrong(p) \/ GuessTooMany(p) PROVE
        /\ codes'[q] <= MaxRequestsPerWindow
        /\ requests'[q] > 0 => codes'[q] <= requests'[q]
        /\ spent'[q] <= codes'[q] * MaxVerifyAttempts
        /\ code'[q] > 0 => spent'[q] + MaxVerifyAttempts <= codes'[q] * MaxVerifyAttempts + wrong'[q]
  BY <1>7, <1>3, <1>4, <1>0, Config
<1> QED BY <1>1, <1>2, <1>5, <1>6, <1>7 DEF Next

LEMMA Inductive == Spec => []IInv
<1>1. IInv /\ [Next]_vars => IInv'
  BY TypeStep, CodeStep, BudgetStep DEF IInv
<1> QED BY <1>1, InitIInv, PTL DEF Spec

-----------------------------------------------------------------------------
\* Every key keeps its type: a counter exists exactly as long as its expiry runs.
THEOREM OtpTypeCorrect == Spec => []TypeOK
<1>1. IInv => TypeOK
  BY DEF IInv
<1> QED BY <1>1, Inductive, PTL

\* A code that can still be entered has guesses left (VALIDATE_OTP_SCRIPT).
THEOREM GuessesPerCode == Spec => []LiveCodeHasGuessesLeft
<1>1. IInv => LiveCodeHasGuessesLeft
  BY Config DEF IInv, CodeInv, TypeOK, LiveCodeHasGuessesLeft
<1> QED BY <1>1, Inductive, PTL

\* A blocked phone has no code.
THEOREM BlockIsEffective == Spec => []BlockedHasNoCode
<1>1. IInv => BlockedHasNoCode
  BY Config DEF IInv, CodeInv, TypeOK, BlockedHasNoCode
<1> QED BY <1>1, Inductive, PTL

\* The wrong guesses of a window stay within the product of the two limits.
THEOREM GuessesPerWindow == Spec => []GuessBudget
<1>1. ASSUME IInv, NEW p \in Phones
      PROVE  spent[p] <= MaxRequestsPerWindow * MaxVerifyAttempts
  <2>1. /\ spent[p] \in Nat /\ codes[p] \in Nat /\ codes[p] <= MaxRequestsPerWindow
        /\ spent[p] <= codes[p] * MaxVerifyAttempts
    BY <1>1 DEF IInv, TypeOK, BudgetInv
  <2>2. codes[p] * MaxVerifyAttempts <= MaxRequestsPerWindow * MaxVerifyAttempts
    BY <2>1, Config
  <2> QED BY <2>1, <2>2, Config
<1>2. IInv => GuessBudget
  BY <1>1 DEF GuessBudget
<1> QED BY <1>2, Inductive, PTL

\* Both limits of one code hold, with the codes handed to the provider or not.
THEOREM GuessesLimited == Spec => []GuessLimit
BY GuessesPerCode, BlockIsEffective, PTL DEF GuessLimit

-----------------------------------------------------------------------------
(* Delivery: the requests with their messages do to the keys what Otp      *)
(* allows, so that what holds of the keys holds beside the provider.       *)

LEMMA DeliveryStep == [DeliveryNext]_deliveryVars => [Next]_vars
<1> SUFFICES ASSUME [DeliveryNext]_deliveryVars PROVE [Next]_vars
  OBVIOUS
<1>1. ASSUME NEW p \in Phones, NEW i \in Ips, SendOtpRefused(p, i) PROVE Next
  BY <1>1 DEF SendOtpRefused, Next
<1>2. ASSUME NEW p \in Phones, NEW i \in Ips, NEW c \in Calls, SendOtp(c, p, i) PROVE Next
  BY <1>2 DEF SendOtp, Next
<1>3. ASSUME NEW c \in Calls, Attempt(c) PROVE UNCHANGED vars
  BY <1>3 DEF Attempt
<1>4. ASSUME \/ \E p \in Phones : GuessRight(p) \/ GuessWrong(p) \/ GuessTooMany(p)
             \/ Tick \/ RedisRestart
      PROVE  Next
  BY <1>4 DEF Next
<1>5. CASE UNCHANGED deliveryVars
  BY <1>5 DEF deliveryVars
<1> QED BY <1>1, <1>2, <1>3, <1>4, <1>5 DEF DeliveryNext

\* Every behaviour of requests, retries and guesses is one of Otp (AuthService.sendOtp
\* over OtpService.generateOtp): the provider cannot disturb the keys.
THEOREM DeliveryRunsOtp == DeliverySpec => Spec
<1>1. DeliveryInit => Init
  BY DEF DeliveryInit
<1> QED BY <1>1, DeliveryStep, PTL DEF DeliverySpec, Spec

\* The limits of one code and of one window hold under slow, failing and repeated sends.
THEOREM DeliveryKeepsLimits == DeliverySpec => [](GuessLimit /\ GuessBudget)
BY DeliveryRunsOtp, GuessesLimited, GuessesPerWindow, PTL
\* The requests keep their type: no retry is counted beyond RetryOptions.maxAttempts
\* (RetryingSmsProvider.send).
THEOREM DeliveryTypeCorrect == DeliverySpec => []DeliveryTypeOK
<1> USE DeliveryAssumption
<1>1. Quiet \in [pc: {"idle", "sending"}, phone: Phones, attempt: 1..MaxAttempts, ofWindow: BOOLEAN]
  BY DEF Quiet, Phone
<1>2. DeliveryInit => DeliveryTypeOK
  BY <1>1 DEF DeliveryInit, DeliveryTypeOK, Zero
<1>3. DeliveryTypeOK /\ [DeliveryNext]_deliveryVars => DeliveryTypeOK'
  <2> SUFFICES ASSUME DeliveryTypeOK, [DeliveryNext]_deliveryVars PROVE DeliveryTypeOK'
    OBVIOUS
  <2> USE DEF DeliveryTypeOK
  <2>1. ASSUME NEW p \in Phones
        PROVE  /\ Reopened(p) \in [Calls -> [pc: {"idle", "sending"}, phone: Phones,
                                             attempt: 1..MaxAttempts, ofWindow: BOOLEAN]]
               /\ Rehanded(p) \in [Phones -> Nat]
    BY DEF Reopened, Rehanded
  <2>2. ASSUME NEW p \in Phones, NEW i \in Ips, SendOtpRefused(p, i) PROVE DeliveryTypeOK'
    BY <2>1, <2>2 DEF SendOtpRefused
  <2>3. ASSUME NEW p \in Phones, NEW i \in Ips, NEW c \in Calls, SendOtp(c, p, i) PROVE DeliveryTypeOK'
    BY <2>1, <2>3 DEF SendOtp
  <2>4. ASSUME NEW c \in Calls, Attempt(c) PROVE DeliveryTypeOK'
    <3>1. Again(c) \in [pc: {"idle", "sending"}, phone: Phones, attempt: 1..MaxAttempts, ofWindow: BOOLEAN]
      BY <1>1 DEF Again
    <3>2. call' \in [Calls -> [pc: {"idle", "sending"}, phone: Phones,
                              attempt: 1..MaxAttempts, ofWindow: BOOLEAN]]
      BY <2>4, <3>1, <1>1 DEF Attempt
    <3>3. handed' \in [Phones -> Nat]
      BY <2>4 DEF Attempt
    <3> QED BY <3>2, <3>3
  <2>5. CASE Elsewhere
    BY <2>5 DEF Elsewhere
  <2>6. CASE UNCHANGED deliveryVars
    BY <2>6 DEF deliveryVars
  <2> QED BY <2>2, <2>3, <2>4, <2>5, <2>6 DEF DeliveryNext
<1> QED BY <1>2, <1>3, PTL DEF DeliverySpec

-----------------------------------------------------------------------------
(* The messages of a window.                                               *)

\* The attempts that the running calls for codes of p's window may still make.
Left(p) == {m \in Calls \X (1..MaxAttempts) :
              LET s == call[m[1]]
              IN  s.pc = "sending" /\ s.phone = p /\ s.ofWindow /\ s.attempt <= m[2]}

\* What was handed over and what may still be handed over is paid for by the codes of
\* the window, of which there are at most as many as requests.
SmsInv == \A p \in Phones : /\ IsFiniteSet(Left(p))
                            /\ handed[p] + Cardinality(Left(p)) <= MaxAttempts * codes[p]

\* One code brings MaxAttempts attempts.
LEMMA Share ==
  ASSUME NEW c
  PROVE  IsFiniteSet({c} \X (1..MaxAttempts)) /\ Cardinality({c} \X (1..MaxAttempts)) <= MaxAttempts
<1> DEFINE f == [k \in 1..MaxAttempts |-> <<c, k>>]
<1>1. f \in Surjection(1..MaxAttempts, {c} \X (1..MaxAttempts))
  BY DEF Surjection
<1>2. IsFiniteSet(1..MaxAttempts) /\ Cardinality(1..MaxAttempts) = MaxAttempts
  BY DeliveryAssumption, FS_Interval
<1> QED BY <1>1, <1>2, FS_Surjection

\* A phone whose running calls are no others than before keeps within its budget.
LEMMA NoMoreLeft ==
  ASSUME SmsInv, NEW p \in Phones, NEW L \in SUBSET Left(p)
  PROVE  /\ IsFiniteSet(L) /\ Cardinality(L) \in Nat /\ Cardinality(Left(p)) \in Nat
         /\ Cardinality(L) <= Cardinality(Left(p))
BY FS_Subset, FS_CardinalityType DEF SmsInv

\* A call that begins: it is the first of a new window, or one more of the last one.
LEMMA SendSms ==
  ASSUME TypeOK, TypeOK', DeliveryTypeOK, DeliveryTypeOK', SmsInv,
         NEW c \in Calls, NEW p \in Phones, NEW i \in Ips, SendOtp(c, p, i), NEW q \in Phones
  PROVE  IsFiniteSet(Left(q)') /\ handed'[q] + Cardinality(Left(q)') <= MaxAttempts * codes'[q]
<1> USE DeliveryAssumption
<1>0. /\ IsFiniteSet(Left(q)) /\ Cardinality(Left(q)) \in Nat
      /\ handed[q] + Cardinality(Left(q)) <= MaxAttempts * codes[q]
      /\ handed[q] \in Nat /\ codes[q] \in Nat
  BY NoMoreLeft DEF SmsInv, DeliveryTypeOK, TypeOK
<1> DEFINE B == {c} \X (1..MaxAttempts)
<1>b. IsFiniteSet(B) /\ Cardinality(B) \in Nat /\ Cardinality(B) <= MaxAttempts
  BY Share, FS_CardinalityType
<1> HIDE DEF B
<1>c. call'[c] = [pc |-> "sending", phone |-> p, attempt |-> 1, ofWindow |-> TRUE]
  BY DEF SendOtp, Reopened, DeliveryTypeOK
<1>d. \A d \in Calls \ {c} : /\ call'[d].pc = call[d].pc /\ call'[d].phone = call[d].phone
                             /\ call'[d].attempt = call[d].attempt
                             /\ call'[d].ofWindow => call[d].ofWindow
                             /\ OpensWindow(p) /\ call[d].phone = p => ~call'[d].ofWindow
  BY DEF SendOtp, Reopened, DeliveryTypeOK
<1>1. CASE q # p
  <2>1. Left(q)' \subseteq Left(q)
    BY <1>1, <1>c, <1>d DEF Left
  <2>2. handed'[q] = handed[q] /\ codes'[q] = codes[q]
    BY <1>1 DEF SendOtp, Rehanded, Issue, TypeOK, DeliveryTypeOK
  <2>3. IsFiniteSet(Left(q)') /\ Cardinality(Left(q)') \in Nat /\ Cardinality(Left(q)') <= Cardinality(Left(q))
    BY <2>1, NoMoreLeft
  <2> QED BY <1>0, <2>2, <2>3
<1>2. CASE q = p /\ OpensWindow(p)
  <2>1. Left(q)' \subseteq B
    BY <1>2, <1>c, <1>d DEF Left, B
  <2>2. IsFiniteSet(Left(q)') /\ Cardinality(Left(q)') \in Nat /\ Cardinality(Left(q)') <= MaxAttempts
    <3>1. IsFiniteSet(Left(q)') /\ Cardinality(Left(q)') <= Cardinality(B)
      BY <1>b, <2>1, FS_Subset
    <3>2. Cardinality(Left(q)') \in Nat
      BY <3>1, FS_CardinalityType
    <3> QED BY <1>b, <3>1, <3>2
  <2>3. handed'[q] = 0 /\ codes'[q] = 1
    BY <1>2 DEF SendOtp, Rehanded, Issue, TypeOK, DeliveryTypeOK
  <2> QED BY <2>2, <2>3
<1>3. CASE q = p /\ ~OpensWindow(p)
  <2>1. Left(q)' \subseteq Left(q) \cup B
    BY <1>3, <1>c, <1>d DEF Left, B
  <2>3. /\ IsFiniteSet(Left(q) \cup B)
        /\ Cardinality(Left(q) \cup B) <= Cardinality(Left(q)) + Cardinality(B)
    <3>1. Cardinality(Left(q) \cap B) \in Nat
      BY <1>0, FS_Subset, FS_CardinalityType
    <3>2. /\ IsFiniteSet(Left(q) \cup B)
          /\ Cardinality(Left(q) \cup B)
               = Cardinality(Left(q)) + Cardinality(B) - Cardinality(Left(q) \cap B)
      BY <1>0, <1>b, FS_Union
    <3> QED BY <1>0, <1>b, <3>1, <3>2
  <2>4. IsFiniteSet(Left(q)') /\ Cardinality(Left(q)') <= Cardinality(Left(q) \cup B)
    BY <2>1, <2>3, FS_Subset
  <2>5. Cardinality(Left(q)') \in Nat /\ Cardinality(Left(q) \cup B) \in Nat
    BY <2>3, <2>4, FS_CardinalityType
  <2>6. handed'[q] = handed[q] /\ codes'[q] = codes[q] + 1
    BY <1>3 DEF SendOtp, Rehanded, Issue, TypeOK, DeliveryTypeOK
  <2>7. MaxAttempts * (codes[q] + 1) = MaxAttempts * codes[q] + MaxAttempts
    BY <1>0
  <2> QED BY <1>0, <1>b, <2>3, <2>4, <2>5, <2>6, <2>7
<1> QED BY <1>1, <1>2, <1>3

\* An attempt spends one of those that were left to its call.
LEMMA AttemptSms ==
  ASSUME TypeOK, DeliveryTypeOK, DeliveryTypeOK', SmsInv,
         NEW c \in Calls, Attempt(c), NEW q \in Phones
  PROVE  IsFiniteSet(Left(q)') /\ handed'[q] + Cardinality(Left(q)') <= MaxAttempts * codes'[q]
<1> USE DeliveryAssumption
<1>0. /\ IsFiniteSet(Left(q)) /\ Cardinality(Left(q)) \in Nat
      /\ handed[q] + Cardinality(Left(q)) <= MaxAttempts * codes[q]
      /\ handed[q] \in Nat /\ codes[q] \in Nat
  BY NoMoreLeft DEF SmsInv, DeliveryTypeOK, TypeOK
<1>1. codes'[q] = codes[q]
  BY DEF Attempt, vars
<1>2. /\ call'[c].pc = "sending" => /\ call'[c].phone = call[c].phone
                                    /\ call'[c].ofWindow = call[c].ofWindow
                                    /\ call'[c].attempt = call[c].attempt + 1
      /\ \A d \in Calls \ {c} : call'[d] = call[d]
  BY DEF Attempt, Again, Quiet, DeliveryTypeOK
<1>3. CASE call[c].ofWindow /\ call[c].phone = q
  <2> DEFINE now == <<c, call[c].attempt>>
  <2>1. now \in Left(q)
    BY <1>3 DEF Left, Attempt, DeliveryTypeOK
  <2>2. Left(q)' \subseteq Left(q) \ {now}
    BY <1>2 DEF Left, Attempt, DeliveryTypeOK
  <2>3. IsFiniteSet(Left(q) \ {now}) /\ Cardinality(Left(q) \ {now}) = Cardinality(Left(q)) - 1
    BY <1>0, <2>1, FS_RemoveElement
  <2>4. IsFiniteSet(Left(q)') /\ Cardinality(Left(q)') <= Cardinality(Left(q) \ {now})
    BY <2>2, <2>3, FS_Subset
  <2>5. Cardinality(Left(q)') \in Nat
    BY <2>4, FS_CardinalityType
  <2>6. handed'[q] = handed[q] + 1
    BY <1>3 DEF Attempt, DeliveryTypeOK
  <2> QED BY <1>0, <1>1, <2>3, <2>4, <2>5, <2>6
<1>4. CASE ~(call[c].ofWindow /\ call[c].phone = q)
  <2>1. Left(q)' \subseteq Left(q)
    BY <1>2, <1>4 DEF Left, Attempt
  <2>2. handed'[q] = handed[q]
    BY <1>4 DEF Attempt, DeliveryTypeOK
  <2>3. IsFiniteSet(Left(q)') /\ Cardinality(Left(q)') \in Nat /\ Cardinality(Left(q)') <= Cardinality(Left(q))
    BY <2>1, NoMoreLeft
  <2> QED BY <1>0, <1>1, <2>2, <2>3
<1> QED BY <1>3, <1>4

\* A request that is refused, and whatever happens elsewhere, begins no call.
LEMMA OtherSms ==
  ASSUME TypeOK, TypeOK', DeliveryTypeOK, DeliveryTypeOK', SmsInv, NEW q \in Phones,
         \/ \E p \in Phones, i \in Ips : SendOtpRefused(p, i)
         \/ Elsewhere /\ UNCHANGED codes
         \/ UNCHANGED deliveryVars
  PROVE  IsFiniteSet(Left(q)') /\ handed'[q] + Cardinality(Left(q)') <= MaxAttempts * codes'[q]
<1> USE DeliveryAssumption
<1>0. /\ IsFiniteSet(Left(q)) /\ Cardinality(Left(q)) \in Nat
      /\ handed[q] + Cardinality(Left(q)) <= MaxAttempts * codes[q]
      /\ handed[q] \in Nat /\ codes[q] \in Nat
  BY NoMoreLeft DEF SmsInv, DeliveryTypeOK, TypeOK
<1>1. ASSUME NEW p \in Phones, NEW i \in Ips, SendOtpRefused(p, i)
      PROVE  IsFiniteSet(Left(q)') /\ handed'[q] + Cardinality(Left(q)') <= MaxAttempts * codes'[q]
  <2>1. \A d \in Calls : /\ call'[d].pc = call[d].pc /\ call'[d].phone = call[d].phone
                         /\ call'[d].attempt = call[d].attempt
                         /\ call'[d].ofWindow => call[d].ofWindow
                         /\ OpensWindow(p) /\ call[d].phone = p => ~call'[d].ofWindow
    BY <1>1 DEF SendOtpRefused, Reopened, DeliveryTypeOK
  <2>2. Left(q)' \subseteq Left(q)
    BY <2>1 DEF Left
  <2>3. IsFiniteSet(Left(q)') /\ Cardinality(Left(q)') \in Nat /\ Cardinality(Left(q)') <= Cardinality(Left(q))
    BY <2>2, NoMoreLeft
  <2>4. CASE p = q /\ OpensWindow(p)
    <3>1. Left(q)' = {}
      BY <2>1, <2>4 DEF Left
    <3>2. handed'[q] = 0 /\ codes'[q] = 1
      BY <1>1, <2>4 DEF SendOtpRefused, Rehanded, IssueRefused, TypeOK, DeliveryTypeOK
    <3> QED BY <3>1, <3>2, FS_EmptySet
  <2>5. CASE ~(p = q /\ OpensWindow(p))
    <3>1. handed'[q] = handed[q] /\ codes'[q] = codes[q]
      BY <1>1, <2>5 DEF SendOtpRefused, Rehanded, IssueRefused, TypeOK, DeliveryTypeOK
    <3> QED BY <1>0, <2>3, <3>1
  <2> QED BY <2>4, <2>5
<1>2. CASE (Elsewhere /\ UNCHANGED codes) \/ UNCHANGED deliveryVars
  <2>1. call' = call /\ handed' = handed /\ codes' = codes
    BY <1>2 DEF Elsewhere, deliveryVars, vars
  <2>2. Left(q)' = Left(q)
    BY <2>1 DEF Left
  <2> QED BY <1>0, <2>1, <2>2
<1> QED BY <1>1, <1>2

\* However long the provider takes and however the attempts overlap with guesses, expiries
\* and new windows, the codes of a window cost at most MaxAttempts messages each
\* (AuthService.sendOtp, RetryingSmsProvider.send).
THEOREM MessagesPerWindow == DeliverySpec => []SmsBudget
<1>1. DeliveryInit => SmsInv
  <2> SUFFICES ASSUME DeliveryInit, NEW p \in Phones
               PROVE  /\ IsFiniteSet(Left(p))
                      /\ handed[p] + Cardinality(Left(p)) <= MaxAttempts * codes[p]
    BY DEF SmsInv
  <2>1. Left(p) = {}
    BY DEF Left, DeliveryInit, Quiet
  <2>2. handed[p] = 0 /\ codes[p] = 0
    BY DEF DeliveryInit, Init, Zero
  <2> QED BY <2>1, <2>2, FS_EmptySet, DeliveryAssumption
<1>2. /\ SmsInv /\ TypeOK /\ TypeOK' /\ DeliveryTypeOK /\ DeliveryTypeOK'
      /\ [DeliveryNext]_deliveryVars
      => SmsInv'
  <2> SUFFICES ASSUME SmsInv, TypeOK, TypeOK', DeliveryTypeOK, DeliveryTypeOK',
                      [DeliveryNext]_deliveryVars, NEW q \in Phones
               PROVE  /\ IsFiniteSet(Left(q)')
                      /\ handed'[q] + Cardinality(Left(q)') <= MaxAttempts * codes'[q]
    BY DEF SmsInv
  <2>1. ASSUME NEW p \in Phones, NEW i \in Ips, NEW c \in Calls, SendOtp(c, p, i)
        PROVE  IsFiniteSet(Left(q)') /\ handed'[q] + Cardinality(Left(q)') <= MaxAttempts * codes'[q]
    BY <2>1, SendSms
  <2>2. ASSUME NEW c \in Calls, Attempt(c)
        PROVE  IsFiniteSet(Left(q)') /\ handed'[q] + Cardinality(Left(q)') <= MaxAttempts * codes'[q]
    BY <2>2, AttemptSms
  <2>3. ASSUME Elsewhere, \/ \E p \in Phones : GuessRight(p) \/ GuessWrong(p) \/ GuessTooMany(p)
                          \/ Tick \/ RedisRestart
        PROVE  Elsewhere /\ UNCHANGED codes
    BY <2>3 DEF GuessRight, GuessWrong, GuessTooMany, Wrong, Tick, RedisRestart
  <2> QED BY <2>1, <2>2, <2>3, OtherSms DEF DeliveryNext
<1>3. BudgetInv /\ TypeOK /\ DeliveryTypeOK /\ SmsInv => SmsBudget
  <2> SUFFICES ASSUME BudgetInv, TypeOK, DeliveryTypeOK, SmsInv, NEW p \in Phones
               PROVE  handed[p] <= MaxAttempts * MaxRequestsPerWindow
    BY DEF SmsBudget
  <2>1. /\ handed[p] + Cardinality(Left(p)) <= MaxAttempts * codes[p]
        /\ Cardinality(Left(p)) \in Nat /\ handed[p] \in Nat
        /\ codes[p] \in Nat /\ codes[p] <= MaxRequestsPerWindow
    BY NoMoreLeft DEF SmsInv, BudgetInv, TypeOK, DeliveryTypeOK
  <2>2. MaxAttempts * codes[p] <= MaxAttempts * MaxRequestsPerWindow
    BY <2>1, Config, DeliveryAssumption
  <2>3. MaxAttempts * codes[p] \in Nat /\ MaxAttempts * MaxRequestsPerWindow \in Nat
    BY <2>1, Config, DeliveryAssumption
  <2> QED BY <2>1, <2>2, <2>3
<1>4. IInv => TypeOK /\ BudgetInv
  BY DEF IInv
<1> QED BY <1>1, <1>2, <1>3, <1>4, Inductive, DeliveryRunsOtp, DeliveryTypeCorrect, PTL DEF DeliverySpec

-----------------------------------------------------------------------------
(* Sessions.                                                               *)

\* What a slot holds at each call.
SlotInv ==
  \A r \in Requests :
     /\ pc[r] \in {"refresh.find", "refresh.save"} => token[r] # NoToken
     /\ pc[r] \in {"signIn.save", "refresh.save", "respond"} => issued[r] # NoToken

\* After a logout the hash is empty, and only what had matched it before can store another.
EndedInv ==
  session = "ended" => /\ stored = NoToken
                       /\ \A r \in Requests : pc[r] = "refresh.save" => r \in racers

\* A request that is not marked as disturbed is the only one running, so what it read
\* and wrote is what is stored.
AloneInv ==
  /\ \A r, s \in Requests : r # s /\ pc[r] # "idle" /\ pc[s] # "idle" => r \in disturbed
  /\ \A r \in Requests \ disturbed :
        /\ pc[r] = "refresh.save" => token[r] = stored
        /\ pc[r] = "respond" => issued[r] = stored

\* While a client is settled, everything that runs began after it was, and has
\* written nothing.
SettledInv ==
  settled # Nobody =>
     /\ stored # NoToken
     /\ cookie[settled] = stored \/ (cookie[settled] = NoToken /\ ~Verifies(stored))
     /\ \A r \in Requests :
           /\ pc[r] = "refresh.save" => token[r] = stored
           /\ pc[r] = "respond" => issued[r] = stored
           /\ pc[r] # "loggedOut"
           /\ client[r] = settled =>
                 /\ pc[r] = "refresh.find" => token[r] = stored
                 /\ pc[r] = "rejected" => ~Verifies(stored)
                 /\ pc[r] # "replaced"

SessionsInv == SessionsTypeOK /\ SlotInv /\ EndedInv /\ AloneInv /\ SettledInv

-----------------------------------------------------------------------------
LEMMA SessionsBegin == SessionsInit => SessionsInv
<1> SUFFICES ASSUME SessionsInit PROVE SessionsInv
  OBVIOUS
<1>1. SessionsTypeOK
  <2>1. second \in 1..MaxSecond
    BY BoundAssumption DEF SessionsInit
  <2>2. pc \in [Requests -> PCs]
    BY DEF SessionsInit, PCs
  <2>3. /\ cookie \in [Clients -> Token \cup {NoToken}]
        /\ token \in [Requests -> Token \cup {NoToken}]
        /\ issued \in [Requests -> Token \cup {NoToken}]
        /\ client \in [Requests -> Clients \cup {Nobody}]
    BY DEF SessionsInit
  <2> QED BY <2>1, <2>2, <2>3 DEF SessionsInit, SessionsTypeOK
<1>2. SlotInv /\ EndedInv /\ AloneInv /\ SettledInv
  BY DEF SessionsInit, SlotInv, EndedInv, AloneInv, SettledInv
<1> QED BY <1>1, <1>2 DEF SessionsInv

\* Types.
LEMMA SessionsTypeStep == SessionsTypeOK /\ [SessionsNext]_sessionsVars => SessionsTypeOK'
<1> SUFFICES ASSUME SessionsTypeOK, [SessionsNext]_sessionsVars PROVE SessionsTypeOK'
  OBVIOUS
<1> USE BoundAssumption, TTLAssumption, ClientsAssumption DEF SessionsTypeOK, Token, PCs
<1>1. ASSUME NEW r \in Requests, NEW c \in Clients, Begin(r, c) PROVE SessionsTypeOK'
  BY <1>1 DEF Begin, BeginSignIn, BeginRefresh, BeginLogout, Arrive, Running
<1>2. ASSUME NEW r \in Requests, SignInFind(r) \/ SignInCreate(r) \/ SignInSave(r)
      PROVE SessionsTypeOK'
  <2>1. CASE SignInFind(r)
    BY <2>1 DEF SignInFind, GenerateTokens, Goto
  <2>2. CASE SignInCreate(r)
    <3>1. CASE account
      BY <2>2, <3>1 DEF SignInCreate, Leave
    <3>2. CASE ~account
      BY <2>2, <3>2 DEF SignInCreate, GenerateTokens
    <3> QED BY <3>1, <3>2
  <2>3. CASE SignInSave(r)
    BY <2>3 DEF SignInSave
  <2> QED BY <1>2, <2>1, <2>2, <2>3
<1>3. ASSUME NEW r \in Requests, RefreshFind(r) \/ RefreshSave(r) \/ LogoutUpdate(r)
      PROVE SessionsTypeOK'
  BY <1>3 DEF RefreshFind, RefreshSave, LogoutUpdate, Ended, GenerateTokens, Goto
<1>4. ASSUME NEW r \in Requests, Respond(r) \/ ClearCookie(r) \/ Fail(r)
      PROVE SessionsTypeOK'
  BY <1>4 DEF Respond, ClearCookie, Fail, Leave
<1>5. CASE ClockTick
  BY <1>5 DEF ClockTick, slots
<1>6. CASE UNCHANGED sessionsVars
  BY <1>6 DEF sessionsVars, slots
<1> QED BY <1>1, <1>2, <1>3, <1>4, <1>5, <1>6 DEF SessionsNext, Step

-----------------------------------------------------------------------------
\* The arrival of a request.
LEMMA BeginStep ==
  ASSUME SessionsInv, NEW r \in Requests, NEW c \in Clients, Begin(r, c)
  PROVE  SlotInv' /\ EndedInv' /\ AloneInv' /\ SettledInv'
<1> USE DEF SessionsInv, SessionsTypeOK, Token
<1> USE BoundAssumption, TTLAssumption, ClientsAssumption
<1>1. CASE BeginSignIn(r, c) \/ BeginLogout(r, c)
  <2>1. SlotInv'
    BY <1>1 DEF SlotInv, BeginSignIn, BeginLogout, Arrive
  <2>2. EndedInv'
    BY <1>1 DEF EndedInv, BeginSignIn, BeginLogout, Arrive
  <2>3. AloneInv'
    BY <1>1 DEF AloneInv, BeginSignIn, BeginLogout, Arrive, Running
  <2>4. SettledInv'
    BY <1>1 DEF SettledInv, BeginSignIn, BeginLogout, Arrive, Verifies
  <2> QED BY <2>1, <2>2, <2>3, <2>4
<1>2. CASE BeginRefresh(r, c)
  <2>1. SlotInv'
    BY <1>2 DEF SlotInv, BeginRefresh, Arrive, Verifies
  <2>2. EndedInv'
    BY <1>2 DEF EndedInv, BeginRefresh, Arrive
  <2>3. AloneInv'
    BY <1>2 DEF AloneInv, BeginRefresh, Arrive, Running
  <2>4. SettledInv'
    BY <1>2 DEF SettledInv, BeginRefresh, Arrive, Verifies
  <2> QED BY <2>1, <2>2, <2>3, <2>4
<1> QED BY <1>1, <1>2 DEF Begin

\* The calls of a sign-in.
LEMMA SignInStep ==
  ASSUME SessionsInv, NEW r \in Requests, SignInFind(r) \/ SignInCreate(r) \/ SignInSave(r)
  PROVE  SlotInv' /\ EndedInv' /\ AloneInv' /\ SettledInv'
<1> USE DEF SessionsInv, SessionsTypeOK, Token
<1> USE BoundAssumption, TTLAssumption, ClientsAssumption
<1>1. SlotInv'
  BY DEF SlotInv, SignInFind, SignInCreate, SignInSave, GenerateTokens, Goto, Leave, NoToken
<1>2. EndedInv'
  BY DEF EndedInv, SignInFind, SignInCreate, SignInSave, GenerateTokens, Goto, Leave
<1>3. AloneInv'
  BY DEF AloneInv, SignInFind, SignInCreate, SignInSave, GenerateTokens, Goto, Leave
<1>4. SettledInv'
  BY DEF SettledInv, SignInFind, SignInCreate, SignInSave, GenerateTokens, Goto, Leave, Verifies
<1> QED BY <1>1, <1>2, <1>3, <1>4

\* The calls of a refresh, and of a logout.
LEMMA RefreshStep ==
  ASSUME SessionsInv, NEW r \in Requests, RefreshFind(r) \/ RefreshSave(r) \/ LogoutUpdate(r)
  PROVE  SlotInv' /\ EndedInv' /\ AloneInv' /\ SettledInv'
<1> USE DEF SessionsInv, SessionsTypeOK, Token
<1> USE BoundAssumption, TTLAssumption, ClientsAssumption
<1>1. SlotInv'
  BY DEF SlotInv, RefreshFind, RefreshSave, LogoutUpdate, Ended, GenerateTokens, Goto, NoToken
<1>2. EndedInv'
  BY DEF EndedInv, SlotInv, RefreshFind, RefreshSave, LogoutUpdate, Ended, GenerateTokens, Goto
<1>3. AloneInv'
  BY DEF AloneInv, RefreshFind, RefreshSave, LogoutUpdate, Ended, GenerateTokens, Goto
<1>4. SettledInv'
  BY DEF SettledInv, RefreshFind, RefreshSave, LogoutUpdate, Ended, GenerateTokens, Goto, Verifies
<1> QED BY <1>1, <1>2, <1>3, <1>4

\* The answers, and the failures.
LEMMA AnswerStep ==
  ASSUME SessionsInv, NEW r \in Requests, Respond(r) \/ ClearCookie(r) \/ Fail(r)
  PROVE  SlotInv' /\ EndedInv' /\ AloneInv' /\ SettledInv'
<1> USE DEF SessionsInv, SessionsTypeOK, Token
<1> USE BoundAssumption, TTLAssumption, ClientsAssumption
<1>1. SlotInv'
  BY DEF SlotInv, Respond, ClearCookie, Fail, Leave
<1>2. EndedInv'
  BY DEF EndedInv, Respond, ClearCookie, Fail, Leave
<1>3. AloneInv'
  BY DEF AloneInv, Respond, ClearCookie, Fail, Leave
<1>4. SettledInv'
  BY DEF SettledInv, SlotInv, AloneInv, Respond, ClearCookie, Fail, Leave, Verifies
<1> QED BY <1>1, <1>2, <1>3, <1>4

LEMMA SessionsStep == SessionsInv /\ [SessionsNext]_sessionsVars => SessionsInv'
<1> SUFFICES ASSUME SessionsInv, [SessionsNext]_sessionsVars PROVE SessionsInv'
  OBVIOUS
<1>1. SessionsTypeOK'
  BY SessionsTypeStep DEF SessionsInv
<1>2. SlotInv' /\ EndedInv' /\ AloneInv' /\ SettledInv'
  <2>1. ASSUME NEW r \in Requests, NEW c \in Clients, Begin(r, c)
        PROVE  SlotInv' /\ EndedInv' /\ AloneInv' /\ SettledInv'
    BY <2>1, BeginStep
  <2>2. ASSUME NEW r \in Requests, Step(r)
        PROVE  SlotInv' /\ EndedInv' /\ AloneInv' /\ SettledInv'
    BY <2>2, SignInStep, RefreshStep, AnswerStep DEF Step
  <2>3. CASE ClockTick
    BY <2>3, TTLAssumption, BoundAssumption
       DEF ClockTick, slots, SessionsInv, SessionsTypeOK, Token, SlotInv, EndedInv, AloneInv, SettledInv, Verifies
  <2>4. CASE UNCHANGED sessionsVars
    BY <2>4 DEF sessionsVars, slots, SessionsInv, SlotInv, EndedInv, AloneInv, SettledInv, Verifies
  <2> QED BY <2>1, <2>2, <2>3, <2>4 DEF SessionsNext
<1> QED BY <1>1, <1>2 DEF SessionsInv

LEMMA SessionsInductive == SessionsSpec => []SessionsInv
BY SessionsBegin, SessionsStep, PTL DEF SessionsSpec

-----------------------------------------------------------------------------
\* Every variable of Sessions keeps its type.
THEOREM SessionsTypeCorrect == SessionsSpec => []SessionsTypeOK
<1>1. SessionsInv => SessionsTypeOK
  BY DEF SessionsInv
<1> QED BY <1>1, SessionsInductive, PTL

\* From a logout to the next sign-in only refreshes that had been matched before it took
\* effect are accepted, and no hash is stored until one of them saves
\* (AuthService.logout, refreshToken).
THEOREM LogoutRefuses == SessionsSpec => []RefusedAfterLogout
<1>1. SessionsInv => RefusedAfterLogout
  BY DEF SessionsInv, EndedInv, RefusedAfterLogout
<1> QED BY <1>1, SessionsInductive, PTL

\* A logout that overtook no matched refresh, or whose last one is gone, is final: no
\* step but the save of a sign-in ends it (AuthService.logout).
LogoutIsFinal ==
  [][session = "ended" /\ racers = {} =>
       \/ session' = "ended" /\ racers' = {}
       \/ \E r \in Requests : SignInSave(r)]_sessionsVars

THEOREM LogoutLasts == SessionsSpec => LogoutIsFinal
<1>1. ASSUME SessionsInv, SessionsNext, session = "ended", racers = {},
             \A r \in Requests : ~SignInSave(r)
      PROVE  session' = "ended" /\ racers' = {}
  <2>0. \A r \in Requests : pc[r] # "refresh.save"
    BY <1>1 DEF SessionsInv, EndedInv
  <2>1. ASSUME NEW r \in Requests, NEW c \in Clients, Begin(r, c)
        PROVE  session' = "ended" /\ racers' = {}
    BY <1>1, <2>1 DEF Begin, BeginSignIn, BeginRefresh, BeginLogout, Arrive
  <2>2. ASSUME NEW r \in Requests, SignInFind(r) \/ SignInCreate(r) \/ RefreshFind(r)
        PROVE  session' = "ended" /\ racers' = {}
    BY <1>1, <2>2 DEF SignInFind, SignInCreate, RefreshFind, GenerateTokens, Goto, Leave
  <2>3. ASSUME NEW r \in Requests, RefreshSave(r) \/ LogoutUpdate(r)
        PROVE  session' = "ended" /\ racers' = {}
    BY <1>1, <2>0, <2>3 DEF RefreshSave, LogoutUpdate, Ended
  <2>4. ASSUME NEW r \in Requests, Respond(r) \/ ClearCookie(r) \/ Fail(r)
        PROVE  session' = "ended" /\ racers' = {}
    BY <1>1, <2>4 DEF Respond, ClearCookie, Fail, Leave
  <2>5. CASE ClockTick
    BY <1>1, <2>5 DEF ClockTick
  <2> QED BY <1>1, <2>1, <2>2, <2>3, <2>4, <2>5 DEF SessionsNext, Step
<1>2. SessionsInv /\ [SessionsNext]_sessionsVars =>
        [session = "ended" /\ racers = {} =>
           \/ session' = "ended" /\ racers' = {}
           \/ \E r \in Requests : SignInSave(r)]_sessionsVars
  BY <1>1
<1> QED BY <1>2, SessionsInductive, PTL DEF SessionsSpec, LogoutIsFinal

\* A session established by a request that ran alone works until it expires or
\* is replaced or ended (AuthService.verifyOtp, refreshToken).
THEOREM SessionWorks == SessionsSpec => []UndisturbedSessionWorks
<1>1. SessionsInv => UndisturbedSessionWorks
  BY DEF SessionsInv, SettledInv, UndisturbedSessionWorks
<1> QED BY <1>1, SessionsInductive, PTL
=============================================================================
