------------------------------- MODULE Runner -------------------------------
(***************************************************************************)
(* LLMRunner (llm.py): a logical call takes one unit of its budget pool,   *)
(* asks the router for an account, asks again while the account cannot run *)
(* a sandboxed trial, waits once for a policy, and then tries providers: a *)
(* second time after a lost credential, once more on another account after *)
(* a quota failure.  Provider models what happens inside an attempt.       *)
(***************************************************************************)
EXTENDS Provider

CONSTANTS
    Accounts,
    Incapable,      \* accounts of providers that cannot run a sandboxed trial
    Disallowed,     \* accounts of providers outside allowed_providers
    Cap             \* calls a run may make (one pool)

ASSUME RunnerAssumption ==
    /\ None \notin Accounts
    /\ Incapable \subseteq Accounts /\ Disallowed \subseteq Accounts
    /\ Cap \in Nat

VARIABLES
    step,           \* where the logical call is
    sandboxed,      \* the call is an evaluation trial
    phase,          \* which of its picks the call is acting on
    pick,           \* the router's decision
    spent,          \* accounts a quota failure has excluded in this call
    rejected,       \* accounts the current search for a capable one has excluded
    retried,        \* the one credential retry is used
    attempts,       \* provider_attempts
    made,           \* calls that passed the budget check
    row             \* llm_calls: the outcome of the last call, None without a row

callState == <<sandboxed, phase, pick, spent, rejected, retried, attempts>>
runnerVars == <<step, callState, made, row>>
vars == <<providerVars, runnerVars>>

RowOutcome == {"ok", "oauth_transient_retried", "quota_exhausted", "spawn_error",
               "sandbox_incapable_fleet", "timeout", "unusable", "other"}
Phase == {"first", "afterWait", "afterQuota"}

\* A decision without a winner names no account and does not fit.
NoWinner == [account |-> None, fits |-> FALSE, policy |-> FALSE]
Pick == [account : Accounts, fits : BOOLEAN, policy : BOOLEAN] \cup {NoWinner}

TypeOK ==
    /\ ProviderTypeOK
    /\ step \in {"idle", "pick", "judge", "attempt"}
    /\ sandboxed \in BOOLEAN /\ phase \in Phase
    /\ pick \in Pick
    /\ spent \subseteq Accounts /\ rejected \subseteq Accounts
    /\ retried \in BOOLEAN
    /\ attempts \in 0..3
    /\ made \in 0..Cap
    /\ row \in RowOutcome \cup {None}

Init ==
    /\ ProviderInit
    /\ step = "idle" /\ sandboxed = FALSE /\ phase = "first" /\ pick = NoWinner
    /\ spent = {} /\ rejected = {} /\ retried = FALSE /\ attempts = 0
    /\ made = 0 /\ row = None

-----------------------------------------------------------------------------
\* The budget is checked before anything else; a refused call changes no row.
StartCall ==
    /\ step = "idle" /\ place = "off" /\ result # "interrupted"
    /\ made < Cap /\ made' = made + 1
    /\ sandboxed' \in BOOLEAN
    /\ step' = "pick" /\ row' = None
    /\ UNCHANGED <<providerVars, phase, pick, spent, rejected, retried, attempts>>

\* The end of a call: what it kept in hand is gone.
Leave ==
    /\ step' = "idle"
    /\ phase' = "first" /\ pick' = NoWinner
    /\ spent' = {} /\ rejected' = {} /\ retried' = FALSE /\ attempts' = 0
    /\ UNCHANGED <<sandboxed, made>>

\* Its one row.
Record(o) == row' = o /\ Leave

\* Faulty variant: the search for a capable account forgets the spent one.
ExcludedOnlyRejected == rejected

\* Every account this call may not be given again.
Excluded == spent \cup rejected

\* _pick.  The router leaves out what it is asked to leave out.
AskRouter ==
    /\ step = "pick" /\ CallerLives
    /\ pick' \in {p \in Pick : p.account \notin Excluded}
    /\ step' = "judge"
    /\ UNCHANGED <<providerVars, sandboxed, phase, spent, rejected, retried, attempts, made, row>>

\* The router raises, or its decision cannot be read.
PickError ==
    /\ step = "pick" /\ CallerLives
    /\ Record(IF phase = "afterQuota" THEN "quota_exhausted"
              ELSE IF rejected # {} THEN "sandbox_incapable_fleet"
              ELSE IF phase = "afterWait" THEN "quota_exhausted" ELSE "spawn_error")
    /\ UNCHANGED providerVars

CannotRun == sandboxed /\ pick.account \in Incapable

\* _repick_until_sandbox_capable.
Reject ==
    /\ step = "judge" /\ CallerLives /\ CannotRun
    /\ rejected' = rejected \cup {pick.account}
    /\ step' = "pick"
    /\ UNCHANGED <<providerVars, sandboxed, phase, pick, spent, retried, attempts, made, row>>

\* The policy bar is missed and its time is near: sleep once, ask afresh.
WaitForPolicy ==
    /\ step = "judge" /\ CallerLives /\ ~CannotRun
    /\ pick.fits /\ ~pick.policy /\ phase = "first"
    /\ phase' = "afterWait" /\ rejected' = {}
    /\ step' = "pick"
    /\ UNCHANGED <<providerVars, sandboxed, pick, spent, retried, attempts, made, row>>

\* The refusals of a pick.  A missed bar is refused in every phase, in the first
\* when its time is too far, past or unknown.
RefusePick ==
    /\ step = "judge" /\ CallerLives /\ ~CannotRun
    /\ \/ ~pick.fits \/ ~pick.policy
       \/ pick.account \in Disallowed
    /\ Record(IF pick.fits /\ pick.policy /\ phase # "afterQuota"
              THEN "other" ELSE "quota_exhausted")
    /\ UNCHANGED providerVars

Good ==
    /\ step = "judge" /\ ~CannotRun
    /\ pick.fits /\ pick.policy /\ pick.account \notin Disallowed

\* _invoke.
Invoke ==
    /\ Enter \/ EnterFails
    /\ step' = "attempt"
    /\ attempts' = attempts + 1
    /\ UNCHANGED <<sandboxed, phase, pick, spent, rejected, made, row>>

FirstAttempt == Good /\ Invoke /\ UNCHANGED retried

-----------------------------------------------------------------------------
\* What the attempt came to: an answer, output without one, or a failure whose
\* text may speak of a lost credential, of quota, or of both.
Answered == step = "attempt" /\ place = "off" /\ result # None
Texts == SUBSET {"oauth", "quota"}

\* Faulty variant: every lost credential is tried again.
RetryAlways(text) == "oauth" \in text

RetryCredential(text) == "oauth" \in text /\ ~retried
RetryQuota(text) == ~RetryCredential(text) /\ "quota" \in text /\ phase # "afterQuota"

AttemptAgain ==
    /\ Answered /\ result = "exited"
    /\ \E text \in Texts : RetryCredential(text)
    /\ retried' = TRUE
    /\ Invoke

PickAgain ==
    /\ Answered /\ result = "exited"
    /\ \E text \in Texts : RetryQuota(text)
    /\ phase' = "afterQuota"
    /\ spent' = {pick.account} /\ rejected' = {}
    /\ step' = "pick"
    /\ UNCHANGED <<providerVars, sandboxed, pick, retried, attempts, made, row>>

\* _finalize.
FinalOutcome ==
    IF result # "exited" THEN {result}
    ELSE {IF retried THEN "oauth_transient_retried" ELSE "ok", "unusable"}
         \cup {IF "quota" \in t THEN "quota_exhausted" ELSE "other" :
                 t \in {t \in Texts : ~RetryCredential(t) /\ ~RetryQuota(t)}}

Finalize ==
    /\ Answered /\ result \in {"exited", "timeout", "spawn_error"}
    /\ \E o \in FinalOutcome : Record(o)
    /\ UNCHANGED providerVars

\* An error of the guard is nobody's answer: it leaves the call as an exception,
\* and the stage goes on with its next item.
GuardErrorLeaves ==
    /\ Answered /\ result = "guard_error"
    /\ Leave
    /\ UNCHANGED <<providerVars, row>>

Ladder ==
    \/ AskRouter \/ PickError \/ Reject \/ WaitForPolicy \/ RefusePick \/ FirstAttempt
    \/ AttemptAgain \/ PickAgain \/ Finalize \/ GuardErrorLeaves

Next == StartCall \/ Ladder \/ (ProviderStep /\ UNCHANGED runnerVars)

Spec == Init /\ [][Next]_vars

FairSpec ==
    /\ Spec
    /\ WF_vars(Ladder)
    /\ WF_vars(CallerStep /\ UNCHANGED runnerVars)
    /\ WF_vars(GuardStep /\ UNCHANGED runnerVars)

-----------------------------------------------------------------------------
\* A provider is started only on an account that the router's latest decision
\* called fit and within policy, that may be used, that can run a trial when the
\* call is one, and that has not reported exhausted quota in this call, however
\* many picks, waits and refusals lie between.
OnlyFitAccountServes ==
    [][ attempts' > attempts =>
          /\ pick.fits /\ pick.policy
          /\ pick.account \notin Disallowed \cup spent
          /\ sandboxed => pick.account \notin Incapable ]_vars

\* Every logical call comes to its end, and so do its processes, whoever dies: the
\* deadlines bound the attempts and the exclusions the picks; the caller ends the
\* group, or the guard does when the caller is gone.  Only the loss of both leaves
\* a provider running.
CallsEnd ==
    LET inProgress == GroupRuns \/ (step # "idle" /\ CallerLives)
    IN inProgress ~> ~inProgress \/ (guard \in {"zombie", "reaped"} /\ ~CallerLives)
=============================================================================
