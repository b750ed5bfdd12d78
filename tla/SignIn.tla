-------------------------------- MODULE SignIn --------------------------------
(***************************************************************************)
(* How one account is signed into: a one-time code texted to the login phone, *)
(* or a password set through an emailed link.  Both secrets live in columns of *)
(* the account's row; a request reads the row, decides from that reading, and *)
(* writes columns without a condition, some time later.                        *)
(*                                                                         *)
(* Secrets are numbered as they are issued.  Signing in with a password only   *)
(* reads, and is not here.                                                    *)
(***************************************************************************)
EXTENDS Naturals, FiniteSets

CONSTANTS
    Attempts,        \* requests that present a code or a link
    MaxOtpAttempts,  \* MAX_OTP_ATTEMPTS, 5 in the code
    MaxSecrets,      \* bound: codes, and links, issued
    MaxSignInFaults  \* bound: store calls that throw

ASSUME SignInAssumption ==
    /\ MaxOtpAttempts \in Nat \ {0}
    /\ MaxSecrets \in Nat /\ MaxSignInFaults \in Nat

VARIABLES
    login,    \* the account's row: its secrets, and is its tenant suspended?
    issued,   \* codes and links issued so far
    attempt,  \* request -> how far it is, and what it presents and read
    signInFaults

(* History variables.                                                        *)
VARIABLES
    guesses,   \* codes compared with the one on file since it was issued
    crowded,   \* two of them overlapped, or one could not be counted
    confirmed, \* requests whose secret was confirmed
    together   \* pairs of requests that had one secret confirmed at once

signInVars ==
    <<login, issued, attempt, signInFaults, guesses, crowded, confirmed, together>>

Secrets == 0 .. MaxSecrets  \* 0: none
Means == {"code", "link"}
InFlight == {"wrong", "right", "hashing"}

SignInTypeOK ==
    /\ login \in [code : Secrets, codeLive : BOOLEAN, otpAttempts : Nat,
                  link : Secrets, linkLive : BOOLEAN, suspended : BOOLEAN]
    /\ issued \in [Means -> Secrets]
    /\ attempt \in [Attempts ->
           [stage : {"new", "done"} \cup InFlight, means : Means, secret : Secrets,
            otpAttempts : Nat, suspended : BOOLEAN]]
    /\ signInFaults \in 0 .. MaxSignInFaults
    /\ guesses \in Nat /\ crowded \in BOOLEAN
    /\ confirmed \subseteq Attempts
    /\ together \subseteq SUBSET Attempts

SignInInit ==
    /\ login = [code |-> 0, codeLive |-> FALSE, otpAttempts |-> 0,
                link |-> 0, linkLive |-> FALSE, suspended |-> FALSE]
    /\ issued = [m \in Means |-> 0]
    /\ attempt = [v \in Attempts |-> [stage |-> "new", means |-> "code", secret |-> 0,
                                      otpAttempts |-> 0, suspended |-> FALSE]]
    /\ signInFaults = 0
    /\ guesses = 0 /\ crowded = FALSE
    /\ confirmed = {} /\ together = {}

Guessing == {v \in Attempts : attempt[v].stage \in {"wrong", "right"}}

(* Requests about to act on the same confirmed secret. *)
Holders(means, secret) ==
    {v \in Attempts : /\ attempt[v].stage \in {"right", "hashing"}
                      /\ attempt[v].means = means /\ attempt[v].secret = secret}

-------------------------------------------------------------------------------
(* One-time codes. *)

(* POST /auth/request-code: a fresh code replaces the old one.                 *)
RequestCode ==
    /\ issued["code"] < MaxSecrets
    /\ issued' = [issued EXCEPT !["code"] = @ + 1]
    /\ login' = [login EXCEPT !.code = issued'["code"], !.codeLive = TRUE, !.otpAttempts = 0]
    /\ guesses' = 0
    /\ crowded' = (Guessing # {})
    /\ UNCHANGED <<attempt, signInFaults, confirmed, together>>

CodeExpires ==
    /\ login.codeLive
    /\ login' = [login EXCEPT !.codeLive = FALSE]
    /\ UNCHANGED <<issued, attempt, signInFaults, guesses, crowded, confirmed, together>>

(* Faulty variant of CodeAcceptable: one attempt too many.                    *)
CodeAcceptableOnceMore ==
    login.code # 0 /\ login.codeLive /\ login.otpAttempts <= MaxOtpAttempts

CodeAcceptable ==
    login.code # 0 /\ login.codeLive /\ login.otpAttempts < MaxOtpAttempts

(* POST /auth/verify-code reads the row and compares; g = 0 is a code that was  *)
(* never issued.                                                              *)
PresentCode(v, g) ==
    /\ attempt[v].stage = "new"
    /\ g <= issued["code"]
    /\ attempt' = [attempt EXCEPT ![v] =
           [stage |-> IF ~CodeAcceptable THEN "done"
                      ELSE IF g = login.code THEN "right" ELSE "wrong",
            means |-> "code", secret |-> g,
            otpAttempts |-> IF CodeAcceptable THEN login.otpAttempts ELSE 0,
            suspended |-> CodeAcceptable /\ login.suspended]]
    /\ guesses' = IF CodeAcceptable THEN guesses + 1 ELSE guesses
    /\ crowded' = (crowded \/ (CodeAcceptable /\ Guessing # {}))
    /\ together' = together \cup {{v, w} : w \in {w \in Holders("code", g) : CodeAcceptable}}
    /\ UNCHANGED <<login, issued, signInFaults, confirmed>>

(* What the request read ends with it. *)
End(v) ==
    attempt' = [attempt EXCEPT ![v].stage = "done", ![v].otpAttempts = 0,
                               ![v].suspended = FALSE]

(* The number that was read, plus one, is written.                            *)
CountWrongCode(v) ==
    /\ attempt[v].stage = "wrong"
    /\ login' = [login EXCEPT !.otpAttempts = attempt[v].otpAttempts + 1]
    /\ End(v)
    /\ UNCHANGED <<issued, signInFaults, guesses, crowded, confirmed, together>>

WithoutCode == [login EXCEPT !.code = 0, !.codeLive = FALSE, !.otpAttempts = 0]

(* Faulty variant of ConsumeCode: a suspended tenant's code stays usable.       *)
ConsumeUnlessSuspended(v) ==
    /\ attempt[v].stage = "right"
    /\ login' = IF attempt[v].suspended THEN login ELSE WithoutCode
    /\ confirmed' = confirmed \cup {v}
    /\ End(v)
    /\ UNCHANGED <<issued, signInFaults, guesses, crowded, together>>

(* The code is cleared, whatever it is by now and whether or not the tenant is  *)
(* suspended; only the answer depends on that.                                *)
ConsumeCode(v) ==
    /\ attempt[v].stage = "right"
    /\ login' = WithoutCode
    /\ confirmed' = confirmed \cup {v}
    /\ End(v)
    /\ UNCHANGED <<issued, signInFaults, guesses, crowded, together>>

-------------------------------------------------------------------------------
(* Links. *)

(* POST /auth/forgot-password, an invitation, or a new tenant with an email.    *)
IssueLink ==
    /\ issued["link"] < MaxSecrets
    /\ issued' = [issued EXCEPT !["link"] = @ + 1]
    /\ login' = [login EXCEPT !.link = issued'["link"], !.linkLive = TRUE]
    /\ UNCHANGED <<attempt, signInFaults, guesses, crowded, confirmed, together>>

LinkExpires ==
    /\ login.linkLive
    /\ login' = [login EXCEPT !.linkLive = FALSE]
    /\ UNCHANGED <<issued, attempt, signInFaults, guesses, crowded, confirmed, together>>

(* POST /auth/reset-password finds the row by the hash of the token.            *)
PresentLink(v, l) ==
    /\ attempt[v].stage = "new"
    /\ l \in 1 .. issued["link"]
    /\ attempt' = [attempt EXCEPT ![v] =
           [stage |-> IF l = login.link /\ login.linkLive THEN "hashing" ELSE "done",
            means |-> "link", secret |-> l, otpAttempts |-> 0, suspended |-> FALSE]]
    /\ together' = together \cup {{v, w} : w \in Holders("link", l)}
    /\ UNCHANGED <<login, issued, signInFaults, guesses, crowded, confirmed>>

(* The password is stored and the link, whatever it is by now, is cleared.      *)
StorePassword(v) ==
    /\ attempt[v].stage = "hashing"
    /\ login' = [login EXCEPT !.link = 0, !.linkLive = FALSE]
    /\ confirmed' = confirmed \cup {v}
    /\ End(v)
    /\ UNCHANGED <<issued, signInFaults, guesses, crowded, together>>

-------------------------------------------------------------------------------

SuspensionChanges ==
    /\ login' = [login EXCEPT !.suspended = ~@]
    /\ UNCHANGED <<issued, attempt, signInFaults, guesses, crowded, confirmed, together>>

(* The write throws, and the request is answered with an error.                *)
AttemptThrows(v) ==
    /\ attempt[v].stage \in InFlight
    /\ signInFaults < MaxSignInFaults
    /\ signInFaults' = signInFaults + 1
    /\ End(v)
    /\ crowded' = (crowded \/ v \in Guessing)
    /\ UNCHANGED <<login, issued, guesses, confirmed, together>>

SignInNext ==
    \/ RequestCode \/ CodeExpires \/ IssueLink \/ LinkExpires \/ SuspensionChanges
    \/ \E v \in Attempts :
          \/ \E s \in Secrets : PresentCode(v, s) \/ PresentLink(v, s)
          \/ CountWrongCode(v) \/ ConsumeCode(v) \/ StorePassword(v)
          \/ AttemptThrows(v)

SignInSpec == SignInInit /\ [][SignInNext]_signInVars

-------------------------------------------------------------------------------
(* Properties. *)

(* No more than MaxOtpAttempts codes are compared with one that was sent, if    *)
(* they come one after the other and each can be counted.                      *)
GuessesBounded == crowded \/ guesses <= MaxOtpAttempts

(* A code or a link is good for one use, also while the tenant is suspended:    *)
(* two are confirmed with it only if the second was read before the first had   *)
(* cleared it.                                                                *)
SecretUsedOnce ==
    \A v, w \in confirmed :
        /\ v # w
        /\ attempt[v].means = attempt[w].means
        /\ attempt[v].secret = attempt[w].secret
        => {v, w} \in together
===============================================================================
