----------------------------- MODULE AccountProofs -----------------------------
(***************************************************************************)
(* Proofs about SignIn and Logins.                                           *)
(*                                                                         *)
(* SignIn: a secret is good for one use, and the number of guesses at a code  *)
(* is bounded, for any number of requests, codes and links.                  *)
(*                                                                         *)
(* Logins: an address belongs to one account, for any number of tenants,      *)
(* members and requests.  The two unique indexes make it so within each       *)
(* table.  Across the tables it rests on the requests: one that has looked in  *)
(* a table knows of every account that has its address, or the address was    *)
(* written since.                                                            *)
(***************************************************************************)
EXTENDS SignIn, Logins, FiniteSetTheorems, TLAPS

-------------------------------------------------------------------------------
(* SignIn. *)

(* Who holds a confirmed secret, and may use it. *)
Holds(v) == attempt[v].stage \in {"right", "hashing"}

SameSecret(v, w) ==
    attempt[v].means = attempt[w].means /\ attempt[v].secret = attempt[w].secret

(* The secret on file. *)
OnFile(m) == IF m = "code" THEN login.code ELSE login.link

(* Secrets are issued once. *)
NumberInv ==
    /\ \A m \in Means : OnFile(m) <= issued[m]
    /\ \A v \in Attempts :
           /\ Holds(v) \/ v \in confirmed =>
                  attempt[v].secret # 0 /\ attempt[v].secret <= issued[attempt[v].means]
           /\ attempt[v].stage \in {"wrong", "right"} => attempt[v].means = "code"
           /\ attempt[v].stage = "hashing" => attempt[v].means = "link"

(* A used secret is not on file any more; whoever still holds it got it before    *)
(* it was used.                                                               *)
UseInv ==
    /\ \A v \in confirmed :
           attempt[v].stage = "done" /\ attempt[v].secret # OnFile(attempt[v].means)
    /\ \A v, w \in Attempts :
           /\ v # w /\ SameSecret(v, w)
           /\ Holds(v) \/ v \in confirmed
           /\ Holds(w) \/ w \in confirmed
           => {v, w} \in together

(* Guesses that come one after the other are counted.                          *)
CountInv ==
    ~crowded =>
        /\ guesses <= MaxOtpAttempts
        /\ Guessing = {} /\ login.code # 0 => guesses = login.otpAttempts
        /\ \A v, w \in Guessing : v = w
        /\ \A v \in Guessing :
               /\ login.code # 0
               /\ attempt[v].otpAttempts = login.otpAttempts
               /\ guesses = login.otpAttempts + 1

SignInInv == SignInTypeOK /\ NumberInv /\ UseInv /\ CountInv

-------------------------------------------------------------------------------

(* Nothing is issued at the start. *)
LEMMA SignInInitially == SignInInit => SignInInv
<1> SUFFICES ASSUME SignInInit
             PROVE  SignInInv
  OBVIOUS
<1>1. SignInTypeOK
  <2> USE DEF SignInInit, Means
  <2>0. 0 \in Secrets /\ 0 \in 0 .. MaxSignInFaults
    BY SignInAssumption DEF Secrets
  <2>1. login \in [code : Secrets, codeLive : BOOLEAN, otpAttempts : Nat,
                  link : Secrets, linkLive : BOOLEAN, suspended : BOOLEAN]
    BY <2>0
  <2>2. attempt \in [Attempts ->
            [stage : {"new", "done"} \cup InFlight, means : Means, secret : Secrets,
             otpAttempts : Nat, suspended : BOOLEAN]]
    BY <2>0
  <2>3. issued \in [Means -> Secrets]
    BY <2>0
  <2> QED BY <2>0, <2>1, <2>2, <2>3 DEF SignInTypeOK
<1>2. NumberInv /\ UseInv /\ CountInv
  BY SignInAssumption
  DEF SignInInit, NumberInv, UseInv, CountInv, OnFile, Holds, Means, Guessing
<1> QED BY <1>1, <1>2 DEF SignInInv

(* Types are kept by every step. *)
LEMMA SignInTypes ==
    ASSUME SignInTypeOK, [SignInNext]_signInVars
    PROVE  SignInTypeOK'
<1> USE SignInAssumption DEF SignInTypeOK, Means
<1> DEFINE Logins == [code : Secrets, codeLive : BOOLEAN, otpAttempts : Nat,
                     link : Secrets, linkLive : BOOLEAN, suspended : BOOLEAN]
           Tries == [stage : {"new", "done"} \cup InFlight, means : Means,
                     secret : Secrets, otpAttempts : Nat, suspended : BOOLEAN]
<1>z. 0 \in Secrets
  BY DEF Secrets
<1>0. ASSUME NEW v \in Attempts, End(v)
      PROVE  attempt' \in [Attempts -> Tries]
  <2> DEFINE done == [attempt[v] EXCEPT !.stage = "done"]
             uncounted == [done EXCEPT !.otpAttempts = 0]
             ended == [uncounted EXCEPT !.suspended = FALSE]
  <2>1. done \in Tries
    OBVIOUS
  <2>2. uncounted \in Tries
    <3> HIDE DEF done
    <3> QED BY <2>1
  <2>3. ended \in Tries
    <3> HIDE DEF uncounted
    <3> QED BY <2>2
  <2>4. attempt' = [attempt EXCEPT ![v] = ended]
    BY <1>0 DEF End
  <2> HIDE DEF ended
  <2> QED BY <2>3, <2>4
<1>1. CASE UNCHANGED signInVars
  BY <1>1 DEF signInVars
<1>2. CASE RequestCode
  <2>1. issued' \in [Means -> Secrets] /\ issued'["code"] \in Secrets
    BY <1>2 DEF RequestCode, Secrets
  <2>2. [login EXCEPT !.code = issued'["code"], !.codeLive = TRUE, !.otpAttempts = 0]
            \in Logins
    BY <2>1
  <2>3. crowded' \in BOOLEAN
    BY <1>2 DEF RequestCode
  <2> QED BY <1>2, <2>1, <2>2, <2>3 DEF RequestCode
<1>3. CASE CodeExpires
  BY <1>3 DEF CodeExpires
<1>4. CASE IssueLink
  <2>1. issued' \in [Means -> Secrets] /\ issued'["link"] \in Secrets
    BY <1>4 DEF IssueLink, Secrets
  <2>2. [login EXCEPT !.link = issued'["link"], !.linkLive = TRUE] \in Logins
    BY <2>1
  <2> QED BY <1>4, <2>1, <2>2 DEF IssueLink
<1>5. CASE LinkExpires
  BY <1>5 DEF LinkExpires
<1>6. CASE SuspensionChanges
  BY <1>6 DEF SuspensionChanges
<1>7. ASSUME NEW v \in Attempts, NEW g \in Secrets, PresentCode(v, g)
      PROVE  SignInTypeOK'
  <2>1. together' \subseteq SUBSET Attempts
    BY <1>7 DEF PresentCode, Holders
  <2>2. crowded' \in BOOLEAN /\ guesses' \in Nat
    BY <1>7 DEF PresentCode
  <2>3. attempt' \in [Attempts -> Tries]
    BY <1>7 DEF PresentCode, InFlight
  <2> QED BY <1>7, <2>1, <2>2, <2>3 DEF PresentCode
<1>8. ASSUME NEW v \in Attempts, NEW l \in Secrets, PresentLink(v, l)
      PROVE  SignInTypeOK'
  <2>1. together' \subseteq SUBSET Attempts
    BY <1>8 DEF PresentLink, Holders
  <2> QED BY <1>8, <1>z, <2>1 DEF PresentLink, InFlight
<1>9. ASSUME NEW v \in Attempts, CountWrongCode(v)
      PROVE  SignInTypeOK'
  <2>1. [login EXCEPT !.otpAttempts = attempt[v].otpAttempts + 1] \in Logins
    OBVIOUS
  <2> QED BY <1>0, <1>9, <2>1 DEF CountWrongCode
<1>10. ASSUME NEW v \in Attempts, ConsumeCode(v)
       PROVE  SignInTypeOK'
  <2>1. WithoutCode \in Logins
    BY <1>z DEF WithoutCode
  <2> QED BY <1>0, <1>10, <2>1 DEF ConsumeCode
<1>11. ASSUME NEW v \in Attempts, StorePassword(v)
       PROVE  SignInTypeOK'
  <2>1. [login EXCEPT !.link = 0, !.linkLive = FALSE] \in Logins
    BY <1>z
  <2> QED BY <1>0, <1>11, <2>1 DEF StorePassword
<1>12. ASSUME NEW v \in Attempts, AttemptThrows(v)
       PROVE  SignInTypeOK'
  <2>1. crowded' \in BOOLEAN
    BY <1>12 DEF AttemptThrows
  <2> QED BY <1>0, <1>12, <2>1 DEF AttemptThrows
<1> QED BY <1>1, <1>2, <1>3, <1>4, <1>5, <1>6, <1>7, <1>8, <1>9, <1>10, <1>11, <1>12
        DEF SignInNext

(* A request ends: what it presented stays on record. *)
LEMMA EndKeepsRecord ==
    ASSUME SignInTypeOK, NEW v \in Attempts, End(v)
    PROVE  /\ \A w \in Attempts : /\ attempt'[w].means = attempt[w].means
                                  /\ attempt'[w].secret = attempt[w].secret
           /\ \A w \in Attempts \ {v} : attempt'[w] = attempt[w]
           /\ attempt'[v].stage = "done"
BY DEF End, SignInTypeOK

-------------------------------------------------------------------------------
(* Which step may disturb which part. *)

(* Requests stay, the secret on file may go or be a new one. *)
LEMMA FileStep ==
    ASSUME SignInInv,
           UNCHANGED <<attempt, confirmed, together>>,
           \A m \in Means : issued[m] <= issued'[m],
           \A m \in Means : OnFile(m)' <= issued'[m],
           \A m \in Means : OnFile(m)' \in {0, OnFile(m)} \/ OnFile(m)' > issued[m],
           SignInTypeOK'
    PROVE  (NumberInv /\ UseInv)'
<1> USE DEF SignInInv, SignInTypeOK, Secrets
<1>1. \A v \in Attempts : attempt[v].means \in Means /\ attempt[v].secret \in Nat
  BY SignInAssumption
<1>2. \A m \in Means : issued[m] \in Nat /\ issued'[m] \in Nat
  BY SignInAssumption
<1> HIDE DEF SignInTypeOK
<1>3. NumberInv'
  BY <1>1, <1>2 DEF NumberInv, Holds
<1>4. \A v \in confirmed : attempt[v].secret # OnFile(attempt[v].means)'
  BY <1>1, <1>2 DEF NumberInv, UseInv, SignInTypeOK
<1>5. UseInv'
  BY <1>4 DEF UseInv, Holds, SameSecret
<1> QED BY <1>3, <1>5

(* A request uses its secret, which is cleared, or drops it. *)
LEMMA EndStep ==
    ASSUME SignInInv, NEW v \in Attempts, End(v),
           UNCHANGED <<issued, together>>,
           \/ confirmed' = confirmed /\ v \notin confirmed
           \/ confirmed' = confirmed \cup {v} /\ Holds(v),
           \A m \in Means : OnFile(m)' \in {0, OnFile(m)},
           confirmed' # confirmed => OnFile(attempt[v].means)' = 0
    PROVE  (NumberInv /\ UseInv)'
<1> USE DEF SignInInv, SignInTypeOK, Secrets
<1>1. /\ \A w \in Attempts : /\ attempt'[w].means = attempt[w].means
                             /\ attempt'[w].secret = attempt[w].secret
      /\ \A w \in Attempts \ {v} : attempt'[w] = attempt[w]
      /\ attempt'[v].stage = "done"
  BY EndKeepsRecord
<1>2. \A w \in Attempts : attempt[w].means \in Means /\ attempt[w].secret \in Nat
  BY SignInAssumption
<1>3. \A m \in Means : issued[m] \in Nat
  BY SignInAssumption
<1> HIDE DEF SignInTypeOK
<1>4. \A w \in Attempts : Holds(w)' \/ w \in confirmed' => Holds(w) \/ w \in confirmed
  BY <1>1 DEF Holds
<1>5. NumberInv'
  BY <1>1, <1>2, <1>3, <1>4 DEF NumberInv
<1>6. ASSUME NEW w \in confirmed'
      PROVE  (attempt[w].stage = "done" /\ attempt[w].secret # OnFile(attempt[w].means))'
  <2>1. w \in Attempts
    BY DEF SignInTypeOK
  <2>2. attempt[w].secret # 0
    BY <1>4, <1>6, <2>1 DEF NumberInv
  <2>3. CASE w \in confirmed
    BY <1>1, <1>2, <2>1, <2>2, <2>3 DEF UseInv
  <2>4. CASE w \notin confirmed
    BY <1>1, <1>2, <1>6, <2>1, <2>2, <2>4
  <2> QED BY <2>3, <2>4
<1>7. UseInv'
  BY <1>1, <1>4, <1>6 DEF UseInv, SameSecret
<1> QED BY <1>5, <1>7

(* A request that comes to hold a secret, which is on file, is recorded as        *)
(* together with those that hold it.                                          *)
LEMMA PresentStep ==
    ASSUME SignInInv, NEW v \in Attempts,
           attempt[v].stage = "new",
           UNCHANGED <<login, issued, confirmed>>,
           \A w \in Attempts \ {v} : attempt'[w] = attempt[w],
           attempt'[v].means \in Means,
           Holds(v)' => /\ attempt'[v].secret = OnFile(attempt'[v].means)
                        /\ attempt'[v].secret # 0,
           attempt'[v].stage \in {"wrong", "right"} => attempt'[v].means = "code",
           attempt'[v].stage = "hashing" => attempt'[v].means = "link",
           together \subseteq together',
           Holds(v)' => \A w \in Holders(attempt'[v].means, attempt'[v].secret) :
                            {v, w} \in together'
    PROVE  (NumberInv /\ UseInv)'
<1> USE DEF SignInInv
<1>1. v \notin confirmed
  BY DEF UseInv
<1>2. NumberInv'
  BY <1>1 DEF NumberInv, OnFile, Holds
<1>3. \A w \in confirmed : w # v /\ w \in Attempts
  BY <1>1 DEF SignInTypeOK
<1>4. ASSUME NEW w \in Attempts \ {v}, SameSecret(v, w)', Holds(v)',
             Holds(w)' \/ w \in confirmed
      PROVE  {v, w} \in together'
  <2>1. attempt'[w] = attempt[w]
    BY <1>4
  <2>2. CASE Holds(w)
    <3>1. w \in Holders(attempt'[v].means, attempt'[v].secret)
      BY <1>4, <2>1, <2>2 DEF Holders, Holds, SameSecret
    <3> QED BY <1>4, <3>1
  <2>3. CASE w \in confirmed
    BY <1>4, <2>1, <2>3 DEF UseInv, SameSecret, OnFile
  <2> QED BY <1>4, <2>1, <2>2, <2>3 DEF Holds
<1>5. ASSUME NEW x \in Attempts, NEW w \in Attempts, x # w, SameSecret(x, w)',
             Holds(x)' \/ x \in confirmed, Holds(w)' \/ w \in confirmed
      PROVE  {x, w} \in together'
  <2>1. CASE x = v
    BY <1>1, <1>4, <1>5, <2>1
  <2>2. CASE w = v
    <3>1. SameSecret(v, x)'
      BY <1>5, <2>2 DEF SameSecret
    <3>2. {v, x} \in together'
      BY <1>1, <1>4, <1>5, <2>2, <3>1
    <3>3. {v, x} = {x, w}
      BY <2>2
    <3> QED BY <3>2, <3>3
  <2>3. CASE x # v /\ w # v
    BY <1>5, <2>3 DEF UseInv, SameSecret, Holds
  <2> QED BY <2>1, <2>2, <2>3
<1>6. UseInv'
  BY <1>3, <1>5 DEF UseInv, OnFile
<1> QED BY <1>2, <1>6

(* Codes, their count and whoever guesses stay. *)
LEMMA CountUntouched ==
    ASSUME CountInv,
           login'.code = login.code, login'.otpAttempts = login.otpAttempts,
           UNCHANGED <<guesses, crowded>>,
           Guessing' = Guessing,
           \A v \in Guessing : attempt'[v].otpAttempts = attempt[v].otpAttempts
    PROVE  CountInv'
BY DEF CountInv

LEMMA CountRequestCode ==
    ASSUME SignInInv, RequestCode
    PROVE  CountInv'
<1>1. Guessing' = Guessing /\ guesses' = 0 /\ login'.otpAttempts = 0
  BY DEF RequestCode, Guessing, SignInInv, SignInTypeOK
<1>2. ~crowded' => Guessing = {}
  BY DEF RequestCode
<1> QED BY <1>1, <1>2, SignInAssumption DEF CountInv

LEMMA CountPresentCode ==
    ASSUME SignInInv, NEW v \in Attempts, NEW g \in Secrets, PresentCode(v, g)
    PROVE  CountInv'
<1> USE DEF SignInInv, SignInTypeOK
<1>1. /\ attempt[v].stage = "new"
      /\ \A w \in Attempts \ {v} : attempt'[w] = attempt[w]
      /\ UNCHANGED login
  BY DEF PresentCode
<1>2. v \notin Guessing
  BY <1>1 DEF Guessing
<1>3. CASE ~CodeAcceptable
  <2>1. attempt'[v].stage = "done" /\ guesses' = guesses /\ (crowded' <=> crowded)
    BY <1>3 DEF PresentCode
  <2>2. Guessing' = Guessing
    BY <1>1, <2>1 DEF Guessing
  <2> QED BY <1>1, <1>2, <2>1, <2>2 DEF CountInv, Guessing
<1>4. CASE CodeAcceptable
  <2>1. /\ attempt'[v].stage \in {"wrong", "right"}
        /\ attempt'[v].otpAttempts = login.otpAttempts
        /\ guesses' = guesses + 1
    BY <1>4 DEF PresentCode
  <2>2. ~crowded' => ~crowded /\ Guessing = {}
    BY <1>4 DEF PresentCode
  <2>3. Guessing' = Guessing \cup {v}
    BY <1>1, <2>1 DEF Guessing
  <2>4. login.code # 0 /\ login.otpAttempts < MaxOtpAttempts
    BY <1>4 DEF CodeAcceptable
  <2>5. ~crowded' => guesses = login.otpAttempts /\ Guessing' = {v}
    BY <2>2, <2>3, <2>4 DEF CountInv
  <2>6. login.otpAttempts \in Nat /\ MaxOtpAttempts \in Nat
    BY SignInAssumption
  <2>7. ASSUME ~crowded'
        PROVE  /\ guesses' <= MaxOtpAttempts
               /\ guesses' = login'.otpAttempts + 1
               /\ Guessing' = {v}
    BY <1>1, <2>1, <2>4, <2>5, <2>6, <2>7
  <2> HIDE DEF SignInInv, SignInTypeOK
  <2> QED BY <1>1, <2>1, <2>4, <2>7 DEF CountInv
<1> QED BY <1>3, <1>4

(* The guesser that ends, and is alone, is counted or has used the code.         *)
LEMMA CountEnd ==
    ASSUME SignInInv, NEW v \in Attempts, attempt[v].stage \in {"wrong", "right"}, End(v),
           guesses' = guesses,
           ~crowded' => ~crowded /\ (\/ login'.code = 0
                                     \/ login'.otpAttempts = attempt[v].otpAttempts + 1)
    PROVE  CountInv'
<1>1. /\ \A w \in Attempts \ {v} : attempt'[w] = attempt[w]
      /\ attempt'[v].stage = "done"
  BY EndKeepsRecord DEF SignInInv
<1>2. v \in Guessing /\ Guessing' = Guessing \ {v}
  BY <1>1 DEF Guessing
<1>3. SUFFICES ASSUME ~crowded'
               PROVE  /\ guesses <= MaxOtpAttempts
                      /\ login'.code # 0 => guesses = login'.otpAttempts
                      /\ Guessing' = {}
  BY DEF CountInv
<1>4. ~crowded
  BY <1>3
<1>5. guesses <= MaxOtpAttempts /\ guesses = attempt[v].otpAttempts + 1 /\ Guessing = {v}
  BY <1>2, <1>4 DEF SignInInv, CountInv
<1> QED BY <1>2, <1>3, <1>5

-------------------------------------------------------------------------------

(* The inductive invariant: secrets are issued once and cleared when used, and     *)
(* guesses that can be counted are counted.                                   *)
THEOREM SignInIsConsistent == SignInSpec => []SignInInv
<1>1. ASSUME SignInInv, [SignInNext]_signInVars
      PROVE  SignInInv'
  <2>1. SignInTypeOK /\ SignInTypeOK'
    BY <1>1, SignInTypes DEF SignInInv
  <2>2. SUFFICES (NumberInv /\ UseInv /\ CountInv)'
    BY <2>1 DEF SignInInv
  <2> USE <1>1
  <2>t. /\ issued["code"] \in Nat /\ issued["link"] \in Nat
        /\ login.code \in Nat /\ login.link \in Nat
    BY <2>1, SignInAssumption DEF SignInTypeOK, Means, Secrets
  <2>n. login.code <= issued["code"] /\ login.link <= issued["link"]
    BY DEF SignInInv, NumberInv, OnFile, Means
  <2>3. CASE UNCHANGED signInVars
    BY <2>3 DEF signInVars, SignInInv, NumberInv, UseInv, CountInv, OnFile, Holds,
                SameSecret, Guessing
  <2>4. CASE RequestCode
    <3>1. /\ issued'["code"] = issued["code"] + 1 /\ issued'["link"] = issued["link"]
          /\ login'.code = issued["code"] + 1 /\ login'.link = login.link
      BY <2>1, <2>4 DEF RequestCode, SignInTypeOK, Means
    <3>2. (NumberInv /\ UseInv)'
      BY <2>1, <2>t, <2>n, <2>4, <3>1, FileStep DEF RequestCode, OnFile, Means
    <3> QED BY <2>4, <3>2, CountRequestCode
  <2>5. CASE IssueLink
    <3>1. /\ issued'["link"] = issued["link"] + 1 /\ issued'["code"] = issued["code"]
          /\ login'.link = issued["link"] + 1 /\ login'.code = login.code
          /\ login'.otpAttempts = login.otpAttempts
      BY <2>1, <2>5 DEF IssueLink, SignInTypeOK, Means
    <3>2. (NumberInv /\ UseInv)'
      BY <2>1, <2>t, <2>n, <2>5, <3>1, FileStep DEF IssueLink, OnFile, Means
    <3> QED BY <2>5, <3>1, <3>2, CountUntouched DEF IssueLink, SignInInv, Guessing
  <2>6. CASE CodeExpires \/ LinkExpires \/ SuspensionChanges
    <3>1. /\ login'.code = login.code /\ login'.link = login.link
          /\ login'.otpAttempts = login.otpAttempts
      BY <2>1, <2>6 DEF CodeExpires, LinkExpires, SuspensionChanges, SignInTypeOK
    <3>2. UNCHANGED <<issued, attempt, confirmed, together, guesses, crowded>>
      BY <2>6 DEF CodeExpires, LinkExpires, SuspensionChanges
    <3>3. (NumberInv /\ UseInv)'
      BY <2>1, <2>t, <2>n, <3>1, <3>2, FileStep DEF OnFile, Means
    <3> QED BY <3>1, <3>2, <3>3, CountUntouched DEF SignInInv, Guessing
  <2>7. ASSUME NEW v \in Attempts, NEW g \in Secrets, PresentCode(v, g)
        PROVE  (NumberInv /\ UseInv /\ CountInv)'
    <3>1. attempt'[v] =
            [stage |-> IF ~CodeAcceptable THEN "done"
                       ELSE IF g = login.code THEN "right" ELSE "wrong",
             means |-> "code", secret |-> g,
             otpAttempts |-> IF CodeAcceptable THEN login.otpAttempts ELSE 0,
             suspended |-> CodeAcceptable /\ login.suspended]
      BY <2>1, <2>7 DEF PresentCode, SignInTypeOK
    <3>2. Holds(v)' => CodeAcceptable /\ g = login.code /\ g # 0
      BY <3>1 DEF Holds, CodeAcceptable
    <3>3. /\ together \subseteq together'
          /\ CodeAcceptable => \A w \in Holders("code", g) : {v, w} \in together'
      BY <2>7 DEF PresentCode
    <3>4. /\ attempt[v].stage = "new"
          /\ UNCHANGED <<login, issued, confirmed>>
          /\ \A w \in Attempts \ {v} : attempt'[w] = attempt[w]
      BY <2>1, <2>7 DEF PresentCode, SignInTypeOK
    <3>5. (NumberInv /\ UseInv)'
      BY <3>1, <3>2, <3>3, <3>4, PresentStep DEF OnFile, Means
    <3> QED BY <2>7, <3>5, CountPresentCode
  <2>8. ASSUME NEW v \in Attempts, NEW l \in Secrets, PresentLink(v, l)
        PROVE  (NumberInv /\ UseInv /\ CountInv)'
    <3>1. /\ attempt'[v].stage = IF l = login.link /\ login.linkLive THEN "hashing" ELSE "done"
          /\ attempt'[v].means = "link" /\ attempt'[v].secret = l
          /\ \A w \in Attempts \ {v} : attempt'[w] = attempt[w]
          /\ attempt[v].stage = "new"
          /\ UNCHANGED <<login, issued, confirmed, guesses, crowded>>
      BY <2>1, <2>8 DEF PresentLink, SignInTypeOK
    <3>2. l # 0
      BY <2>8, <2>t DEF PresentLink
    <3>3. /\ together \subseteq together'
          /\ \A w \in Holders("link", l) : {v, w} \in together'
      BY <2>8 DEF PresentLink
    <3>4. (NumberInv /\ UseInv)'
      BY <3>1, <3>2, <3>3, PresentStep DEF OnFile, Means, Holds
    <3>5. Guessing' = Guessing /\ v \notin Guessing
      BY <3>1 DEF Guessing
    <3> QED BY <3>1, <3>4, <3>5, CountUntouched DEF SignInInv, Guessing
  <2>9. ASSUME NEW v \in Attempts, CountWrongCode(v)
        PROVE  (NumberInv /\ UseInv /\ CountInv)'
    <3>1. /\ attempt[v].stage = "wrong" /\ End(v)
          /\ UNCHANGED <<issued, together, confirmed, guesses, crowded>>
          /\ login'.code = login.code /\ login'.link = login.link
          /\ login'.otpAttempts = attempt[v].otpAttempts + 1
      BY <2>1, <2>9 DEF CountWrongCode, SignInTypeOK
    <3>2. v \notin confirmed
      BY <3>1 DEF SignInInv, UseInv
    <3>3. (NumberInv /\ UseInv)'
      BY <3>1, <3>2, EndStep DEF OnFile
    <3> QED BY <3>1, <3>3, CountEnd
  <2>10. ASSUME NEW v \in Attempts, ConsumeCode(v)
         PROVE  (NumberInv /\ UseInv /\ CountInv)'
    <3>1. /\ attempt[v].stage = "right" /\ End(v)
          /\ UNCHANGED <<issued, together, guesses, crowded>>
          /\ confirmed' = confirmed \cup {v}
          /\ login'.code = 0 /\ login'.link = login.link
      BY <2>1, <2>10 DEF ConsumeCode, WithoutCode, SignInTypeOK
    <3>2. attempt[v].means = "code"
      BY <3>1 DEF SignInInv, NumberInv
    <3>3. attempt'[v].means = "code"
      BY <2>1, <3>1, <3>2, EndKeepsRecord
    <3>4. (NumberInv /\ UseInv)'
      BY <3>1, <3>3, EndStep DEF OnFile, Holds
    <3> QED BY <3>1, <3>4, CountEnd
  <2>11. ASSUME NEW v \in Attempts, StorePassword(v)
         PROVE  (NumberInv /\ UseInv /\ CountInv)'
    <3>1. /\ attempt[v].stage = "hashing" /\ End(v)
          /\ UNCHANGED <<issued, together, guesses, crowded>>
          /\ confirmed' = confirmed \cup {v}
          /\ login'.link = 0 /\ login'.code = login.code
          /\ login'.otpAttempts = login.otpAttempts
      BY <2>1, <2>11 DEF StorePassword, SignInTypeOK
    <3>2. attempt[v].means = "link"
      BY <3>1 DEF SignInInv, NumberInv
    <3>3. /\ attempt'[v].means = "link" /\ attempt'[v].stage = "done"
          /\ \A w \in Attempts \ {v} : attempt'[w] = attempt[w]
      BY <2>1, <3>1, <3>2, EndKeepsRecord
    <3>4. (NumberInv /\ UseInv)'
      BY <3>1, <3>3, EndStep DEF OnFile, Holds
    <3>5. Guessing' = Guessing /\ v \notin Guessing
      BY <3>1, <3>3 DEF Guessing
    <3> QED BY <3>1, <3>3, <3>4, <3>5, CountUntouched DEF SignInInv, Guessing
  <2>12. ASSUME NEW v \in Attempts, AttemptThrows(v)
         PROVE  (NumberInv /\ UseInv /\ CountInv)'
    <3>1. /\ attempt[v].stage \in {"wrong", "right", "hashing"} /\ End(v)
          /\ UNCHANGED <<login, issued, together, confirmed, guesses>>
          /\ crowded' <=> (crowded \/ v \in Guessing)
      BY <2>12 DEF AttemptThrows, InFlight
    <3>2. v \notin confirmed
      BY <3>1 DEF SignInInv, UseInv
    <3>3. (NumberInv /\ UseInv)'
      BY <3>1, <3>2, EndStep DEF OnFile
    <3>4. CASE v \in Guessing
      BY <3>1, <3>3, <3>4 DEF CountInv
    <3>5. CASE v \notin Guessing
      <4>1. attempt'[v].stage = "done" /\ \A w \in Attempts \ {v} : attempt'[w] = attempt[w]
        BY <2>1, <3>1, EndKeepsRecord
      <4>2. Guessing' = Guessing
        BY <3>5, <4>1 DEF Guessing
      <4> QED BY <3>1, <3>3, <3>5, <4>1, <4>2 DEF SignInInv, CountInv, Guessing
    <3> QED BY <3>4, <3>5
  <2> QED BY <2>3, <2>4, <2>5, <2>6, <2>7, <2>8, <2>9, <2>10, <2>11, <2>12 DEF SignInNext
<1> QED BY <1>1, SignInInitially, PTL DEF SignInSpec

(* SecretUsedOnce: a code or a link confirms one request, or several that read     *)
(* it before one of them had cleared it (routes/auth.ts).                       *)
THEOREM SecretsAreUsedOnce == SignInSpec => []SecretUsedOnce
<1>1. SignInInv => SecretUsedOnce
  BY DEF SignInInv, SignInTypeOK, UseInv, SameSecret, SecretUsedOnce
<1> QED BY <1>1, SignInIsConsistent, PTL

(* GuessesBounded: guesses that come one after the other stop at                *)
(* MAX_OTP_ATTEMPTS (routes/auth.ts).                                         *)
THEOREM GuessesAreBounded == SignInSpec => []GuessesBounded
<1>1. SignInInv => GuessesBounded
  BY DEF SignInInv, CountInv, GuessesBounded
<1> QED BY <1>1, SignInIsConsistent, PTL
-------------------------------------------------------------------------------
(* Logins. *)

(* Each table has an address once: the two unique indexes. *)
IndexInv ==
    /\ \A t, u \in exists : address[t] = address[u] /\ address[t] # Unset => t = u
    /\ \A x, y \in Members :
           /\ employer[x] # Unset /\ employer[y] # Unset
           /\ address[x] = address[y]
           => x = y

(* An address that is in both tables was written in a race. *)
AcrossInv ==
    \A t \in exists, x \in Members :
        employer[x] # Unset /\ address[t] = address[x] /\ address[t] # Unset
        => address[t] \in contested

(* No other tenant has the address a request has looked up, or it was written  *)
(* since.                                                                     *)
NoTenantHas(j) ==
    change[j].email # Unset =>
        \/ change[j].email \in outdone[j]
        \/ \A t \in exists : address[t] = change[j].email => t = change[j].of

(* The same for members. *)
NoMemberHas(j) ==
    change[j].email # Unset =>
        \/ change[j].email \in outdone[j]
        \/ \A x \in Members : employer[x] # Unset => address[x] # change[j].email

LooksInv ==
    \A j \in Changes :
        /\ change[j].stage \in {"team", "writing"} => NoTenantHas(j)
        /\ change[j].stage = "writing" => NoMemberHas(j)

LoginsInv == LoginsTypeOK /\ IndexInv /\ AcrossInv /\ LooksInv

-------------------------------------------------------------------------------

(* No request has looked at anything yet. *)
LEMMA LoginsInitially == LoginsInit => LoginsInv
<1> SUFFICES ASSUME LoginsInit
             PROVE  LoginsInv
  OBVIOUS
<1>1. LoginsTypeOK
  BY LoginsAssumption DEF LoginsInit, LoginsTypeOK, Checking
<1>2. IndexInv /\ AcrossInv
  BY LoginsAssumption DEF LoginsInit, IndexInv, AcrossInv
<1>3. LooksInv
  BY DEF LoginsInit, LooksInv
<1> QED BY <1>1, <1>2, <1>3 DEF LoginsInv

(* Types are kept by every step. *)
LEMMA LoginsTypes ==
    ASSUME LoginsTypeOK, [LoginsNext]_loginVars
    PROVE  LoginsTypeOK'
<1> USE LoginsAssumption DEF LoginsTypeOK, Checking
<1> DEFINE Requests ==
        [stage : {"new", "done", "refused"} \cup Checking, of : Owners \cup Members,
         by : Owners, email : Addresses \cup {Unset}, creates : BOOLEAN]
<1>1. CASE UNCHANGED loginVars
  BY <1>1 DEF loginVars
<1>2. ASSUME NEW j \in Changes, Begin(j)
      PROVE  LoginsTypeOK'
  <2> DEFINE stage == IF change[j].email = Unset THEN "writing" ELSE "tenants"
             creates == ~Exists(change[j].of)
  <2>1. creates \in BOOLEAN
    OBVIOUS
  <2>2. change' = [change EXCEPT ![j].stage = stage, ![j].creates = creates]
    BY <1>2 DEF Begin
  <2>3. change' \in [Changes -> Requests]
    <3> HIDE DEF creates
    <3>1. stage \in {"new", "done", "refused"} \cup Checking
      OBVIOUS
    <3> HIDE DEF stage
    <3>2. [change[j] EXCEPT !.stage = stage, !.creates = creates] \in Requests
      <4>1. change[j] \in Requests
        OBVIOUS
      <4>2. [change[j] EXCEPT !.stage = stage] \in Requests
        BY <3>1, <4>1
      <4> QED BY <2>1, <3>1, <4>1, <4>2
    <3> HIDE DEF Requests
    <3> QED BY <2>2, <3>2 DEF Requests
  <2>4. outdone' \in [Changes -> SUBSET Addresses]
    BY <1>2 DEF Begin
  <2>5. UNCHANGED <<address, employer, exists, contested>>
    BY <1>2 DEF Begin
  <2> QED BY <2>3, <2>4, <2>5
<1>3. ASSUME NEW j \in Changes, LookInTenants(j)
      PROVE  LoginsTypeOK'
  BY <1>3 DEF LookInTenants, Step
<1>4. ASSUME NEW j \in Changes, LookInTeam(j)
      PROVE  LoginsTypeOK'
  BY <1>4 DEF LookInTeam, Step
<1>5. ASSUME NEW j \in Changes, WriteLogin(j)
      PROVE  LoginsTypeOK'
  <2>1. CASE DatabaseAllows(change[j])
    <3>1. change' = [change EXCEPT ![j].stage = "done"]
      BY <1>5, <2>1 DEF WriteLogin, Step
    <3>2. /\ address' \in [Owners \cup Members -> Addresses \cup {Unset}]
          /\ employer' \in [Members -> Owners \cup {Unset}]
          /\ exists' \subseteq Owners
      BY <1>5, <2>1 DEF WriteLogin
    <3>3. outdone' \in [Changes -> SUBSET Addresses] /\ contested' \subseteq Addresses
      BY <1>5, <2>1 DEF WriteLogin
    <3>4. change' \in [Changes -> Requests]
      BY <3>1
    <3> QED BY <3>2, <3>3, <3>4
  <2>2. CASE ~DatabaseAllows(change[j])
    BY <1>5, <2>2 DEF WriteLogin, Step
  <2> QED BY <2>1, <2>2
<1>6. ASSUME NEW x \in Members, RemoveMember(x)
      PROVE  LoginsTypeOK'
  BY <1>6 DEF RemoveMember
<1>7. ASSUME NEW t \in Owners, DeleteOwner(t)
      PROVE  LoginsTypeOK'
  BY <1>7 DEF DeleteOwner
<1> QED BY <1>1, <1>2, <1>3, <1>4, <1>5, <1>6, <1>7 DEF LoginsNext

(* A step that frees addresses and writes none keeps the rest. *)
LEMMA FreeingKeeps ==
    ASSUME LoginsInv,
           UNCHANGED <<change, outdone, contested>>,
           exists' \subseteq exists,
           \A t \in exists' : address'[t] = address[t],
           \A x \in Members : employer'[x] # Unset =>
               employer[x] # Unset /\ address'[x] = address[x]
    PROVE  (IndexInv /\ AcrossInv /\ LooksInv)'
<1> USE DEF LoginsInv
<1>1. IndexInv'
  BY DEF IndexInv
<1>2. AcrossInv'
  BY DEF AcrossInv
<1>3. ASSUME NEW j \in Changes
      PROVE  (NoTenantHas(j) => NoTenantHas(j)') /\ (NoMemberHas(j) => NoMemberHas(j)')
  BY DEF NoTenantHas, NoMemberHas
<1>4. LooksInv'
  BY <1>3 DEF LooksInv
<1> QED BY <1>1, <1>2, <1>4

(* A step that moves one request and writes no address. *)
LEMMA LookingKeeps ==
    ASSUME LoginsInv, NEW j \in Changes,
           UNCHANGED <<address, employer, exists, contested>>,
           \A i \in Changes \ {j} : change'[i] = change[i] /\ outdone'[i] = outdone[i],
           change'[j].stage \in {"team", "writing"} => NoTenantHas(j)',
           change'[j].stage = "writing" => NoMemberHas(j)'
    PROVE  (IndexInv /\ AcrossInv /\ LooksInv)'
<1> USE DEF LoginsInv
<1>1. IndexInv' /\ AcrossInv'
  BY DEF IndexInv, AcrossInv
<1>2. ASSUME NEW i \in Changes \ {j}
      PROVE  (NoTenantHas(i) => NoTenantHas(i)') /\ (NoMemberHas(i) => NoMemberHas(i)')
  BY DEF NoTenantHas, NoMemberHas
<1>3. LooksInv'
  BY <1>2 DEF LooksInv
<1> QED BY <1>1, <1>3

(* A request that begins has looked nowhere yet, and one that clears an address *)
(* has nothing to look up.                                                    *)
LEMMA BeginKeeps ==
    ASSUME LoginsInv, NEW j \in Changes, Begin(j)
    PROVE  (IndexInv /\ AcrossInv /\ LooksInv)'
<1> USE DEF LoginsInv, LoginsTypeOK
<1>1. UNCHANGED <<address, employer, exists, contested>>
  BY DEF Begin
<1>2. \A i \in Changes \ {j} : change'[i] = change[i] /\ outdone'[i] = outdone[i]
  BY DEF Begin
<1>3. /\ change'[j].email = change[j].email
      /\ change'[j].stage = IF change[j].email = Unset THEN "writing" ELSE "tenants"
  BY DEF Begin
<1>4. /\ change'[j].stage \in {"team", "writing"} => NoTenantHas(j)'
      /\ change'[j].stage = "writing" => NoMemberHas(j)'
  BY <1>3 DEF NoTenantHas, NoMemberHas
<1> QED BY <1>1, <1>2, <1>4, LookingKeeps

(* The look among the tenants finds no other one, or the request is refused.   *)
LEMMA LookInTenantsKeeps ==
    ASSUME LoginsInv, NEW j \in Changes, LookInTenants(j)
    PROVE  (IndexInv /\ AcrossInv /\ LooksInv)'
<1> USE DEF LoginsInv, LoginsTypeOK
<1> DEFINE found == OwnersWith(change[j].email)
<1>1. UNCHANGED <<address, employer, exists, outdone, contested>>
  BY DEF LookInTenants
<1>2. \A i \in Changes \ {j} : change'[i] = change[i] /\ outdone'[i] = outdone[i]
  BY <1>1 DEF LookInTenants, Step
<1>3. /\ change'[j].email = change[j].email
      /\ change'[j].of = change[j].of
      /\ change'[j].stage = IF found \subseteq {change[j].of} THEN "team" ELSE "refused"
  BY DEF LookInTenants, Step
<1>4. ASSUME found \subseteq {change[j].of}
      PROVE  NoTenantHas(j)'
  BY <1>1, <1>3, <1>4 DEF NoTenantHas, OwnersWith
<1>5. /\ change'[j].stage \in {"team", "writing"} => NoTenantHas(j)'
      /\ change'[j].stage = "writing" => NoMemberHas(j)'
  BY <1>3, <1>4
<1> QED BY <1>1, <1>2, <1>5, LookingKeeps

(* The look among the members finds none; the look among the tenants stands.   *)
LEMMA LookInTeamKeeps ==
    ASSUME LoginsInv, NEW j \in Changes, LookInTeam(j)
    PROVE  (IndexInv /\ AcrossInv /\ LooksInv)'
<1> USE DEF LoginsInv, LoginsTypeOK
<1> DEFINE found == MembersWith(change[j].email)
<1>1. UNCHANGED <<address, employer, exists, outdone, contested>>
  BY DEF LookInTeam
<1>2. \A i \in Changes \ {j} : change'[i] = change[i] /\ outdone'[i] = outdone[i]
  BY <1>1 DEF LookInTeam, Step
<1>3. /\ change'[j].email = change[j].email
      /\ change'[j].of = change[j].of
      /\ change'[j].stage = IF found = {} THEN "writing" ELSE "refused"
  BY DEF LookInTeam, Step
<1>4. NoTenantHas(j)
  BY DEF LookInTeam, LooksInv
<1>5. NoTenantHas(j)'
  BY <1>1, <1>3, <1>4 DEF NoTenantHas
<1>6. ASSUME found = {}
      PROVE  NoMemberHas(j)'
  BY <1>1, <1>3, <1>6 DEF NoMemberHas, MembersWith
<1>7. /\ change'[j].stage \in {"team", "writing"} => NoTenantHas(j)'
      /\ change'[j].stage = "writing" => NoMemberHas(j)'
  BY <1>3, <1>5, <1>6
<1> QED BY <1>1, <1>2, <1>7, LookingKeeps

(* The database lets one write through; every request under way learns of it.  *)
LEMMA WriteLoginKeeps ==
    ASSUME LoginsInv, NEW j \in Changes, WriteLogin(j)
    PROVE  (IndexInv /\ AcrossInv /\ LooksInv)'
<1> USE LoginsAssumption DEF LoginsInv, LoginsTypeOK
<1> DEFINE o == change[j]
<1>1. CASE ~DatabaseAllows(o)
  <2>1. UNCHANGED <<address, employer, exists, outdone, contested>>
    BY <1>1 DEF WriteLogin
  <2>2. /\ \A i \in Changes \ {j} : change'[i] = change[i] /\ outdone'[i] = outdone[i]
        /\ change'[j].stage = "refused"
    BY <1>1, <2>1 DEF WriteLogin, Step
  <2> QED BY <2>1, <2>2, LookingKeeps
<1>2. CASE DatabaseAllows(o)
  <2>0. o.of \in Owners \cup Members /\ o.email \in Addresses \cup {Unset} /\ o.by \in Owners
    OBVIOUS
  <2>1. /\ address' = [address EXCEPT ![o.of] = o.email]
        /\ employer' = IF o.of \in Members THEN [employer EXCEPT ![o.of] = o.by] ELSE employer
        /\ exists' = IF o.of \in Owners THEN exists \cup {o.of} ELSE exists
        /\ contested' = contested \cup (outdone[j] \cap {o.email})
    BY <1>2 DEF WriteLogin
  <2>2. \A i \in Changes : outdone'[i] =
            IF change[i].stage \in Checking THEN outdone[i] \cup ({o.email} \ {Unset})
            ELSE outdone[i]
    BY <1>2 DEF WriteLogin
  <2>3. /\ \A i \in Changes \ {j} : change'[i] = change[i]
        /\ change'[j].stage = "done"
    BY <1>2 DEF WriteLogin, Step
  <2>4. NoTenantHas(j) /\ NoMemberHas(j)
    BY DEF WriteLogin, LooksInv
  <2> HIDE DEF LoginsInv
  <2>5. CASE o.of \in Members
    <3>1. /\ exists' = exists
          /\ \A t \in exists : address'[t] = address[t]
          /\ \A x \in Members \ {o.of} : employer'[x] = employer[x] /\ address'[x] = address[x]
          /\ address'[o.of] = o.email
      BY <2>0, <2>1, <2>5 DEF LoginsInv
    <3>2. \A x \in Members : employer[x] # Unset => address[x] # o.email
      BY <1>2, <2>5 DEF DatabaseAllows, MembersWith
    <3>3. IndexInv'
      BY <3>1, <3>2 DEF LoginsInv, IndexInv
    <3>4. ASSUME NEW t \in exists, address[t] = o.email, o.email # Unset
          PROVE  o.email \in contested'
      BY <2>1, <2>4, <2>5, <3>4 DEF NoTenantHas, LoginsInv
    <3>5. AcrossInv'
      BY <2>1, <3>1, <3>4 DEF LoginsInv, AcrossInv
    <3>6. ASSUME NEW i \in Changes \ {j}, change[i].stage \in Checking
          PROVE  (NoTenantHas(i) => NoTenantHas(i)') /\ (NoMemberHas(i) => NoMemberHas(i)')
      <4>1. change'[i] = change[i]
        BY <2>3
      <4>2. outdone[i] \subseteq outdone'[i]
        BY <2>2, <3>6
      <4>3. CASE o.email = change[i].email /\ o.email # Unset
        <5>1. change[i].email \in outdone'[i]
          BY <2>2, <3>6, <4>3
        <5> QED BY <4>1, <5>1 DEF NoTenantHas, NoMemberHas
      <4>4. CASE o.email # change[i].email
        BY <3>1, <4>1, <4>2, <4>4 DEF NoTenantHas, NoMemberHas
      <4>5. CASE change[i].email = Unset
        BY <4>1, <4>5 DEF NoTenantHas, NoMemberHas
      <4> QED BY <4>3, <4>4, <4>5
    <3>7. LooksInv'
      BY <2>3, <3>6 DEF LoginsInv, LooksInv, Checking
    <3> QED BY <3>3, <3>5, <3>7
  <2>6. CASE o.of \in Owners
    <3>1. /\ employer' = employer
          /\ exists' = exists \cup {o.of}
          /\ \A t \in exists \ {o.of} : address'[t] = address[t]
          /\ \A x \in Members : address'[x] = address[x]
          /\ address'[o.of] = o.email
      BY <2>0, <2>1, <2>6 DEF LoginsInv
    <3>2. \A t \in exists : address[t] = o.email /\ o.email # Unset => t = o.of
      BY <1>2, <2>6 DEF DatabaseAllows, OwnersWith
    <3>3. IndexInv'
      BY <3>1, <3>2 DEF LoginsInv, IndexInv
    <3>4. ASSUME NEW x \in Members, employer[x] # Unset, address[x] = o.email,
                 o.email # Unset
          PROVE  o.email \in contested'
      BY <2>1, <2>4, <3>4 DEF NoMemberHas, LoginsInv
    <3>5. AcrossInv'
      BY <2>1, <3>1, <3>4 DEF LoginsInv, AcrossInv
    <3>6. ASSUME NEW i \in Changes \ {j}, change[i].stage \in Checking
          PROVE  (NoTenantHas(i) => NoTenantHas(i)') /\ (NoMemberHas(i) => NoMemberHas(i)')
      <4>1. /\ change'[i] = change[i] /\ employer' = employer
            /\ o.email # Unset => o.email \in outdone'[i]
            /\ outdone[i] \subseteq outdone'[i]
        BY <2>2, <2>3, <3>1, <3>6
      <4>2. NoTenantHas(i) => NoTenantHas(i)'
        BY <3>1, <4>1 DEF NoTenantHas
      <4>3. NoMemberHas(i) => NoMemberHas(i)'
        BY <3>1, <4>1 DEF NoMemberHas
      <4> QED BY <4>2, <4>3
    <3>7. LooksInv'
      BY <2>3, <3>6 DEF LoginsInv, LooksInv, Checking
    <3> QED BY <3>3, <3>5, <3>7
  <2> QED BY <2>0, <2>5, <2>6
<1> QED BY <1>1, <1>2

(* A member that leaves frees its address. *)
LEMMA RemoveMemberKeeps ==
    ASSUME LoginsInv, NEW x \in Members, RemoveMember(x)
    PROVE  (IndexInv /\ AcrossInv /\ LooksInv)'
<1>1. \A y \in Members : employer'[y] # Unset =>
          employer[y] # Unset /\ address'[y] = address[y]
  BY DEF RemoveMember, LoginsInv, LoginsTypeOK
<1>2. \A t \in exists' : address'[t] = address[t]
  BY LoginsAssumption DEF RemoveMember, LoginsInv, LoginsTypeOK
<1> QED BY <1>1, <1>2, FreeingKeeps DEF RemoveMember

(* A tenant that is deleted frees its address and its members'.               *)
LEMMA DeleteOwnerKeeps ==
    ASSUME LoginsInv, NEW t \in Owners, DeleteOwner(t)
    PROVE  (IndexInv /\ AcrossInv /\ LooksInv)'
<1>1. \A y \in Members : employer'[y] # Unset =>
          employer[y] # Unset /\ address'[y] = address[y]
  BY LoginsAssumption DEF DeleteOwner, LoginsInv, LoginsTypeOK
<1>2. \A u \in exists' : address'[u] = address[u]
  BY LoginsAssumption DEF DeleteOwner, LoginsInv, LoginsTypeOK
<1> QED BY <1>1, <1>2, FreeingKeeps DEF DeleteOwner

-------------------------------------------------------------------------------

(* The inductive invariant of Logins: each table is unique, an address in both *)
(* was contested, and a request knows the accounts with its address.          *)
THEOREM LoginsAreConsistent == LoginsSpec => []LoginsInv
<1>1. ASSUME LoginsInv, [LoginsNext]_loginVars
      PROVE  LoginsInv'
  <2>1. LoginsTypeOK'
    BY <1>1, LoginsTypes DEF LoginsInv
  <2>2. CASE UNCHANGED loginVars
    BY <1>1, <2>2, FreeingKeeps, <2>1 DEF loginVars, LoginsInv
  <2>3. CASE LoginsNext
    BY <1>1, <2>1, <2>3, BeginKeeps, LookInTenantsKeeps, LookInTeamKeeps,
       WriteLoginKeeps, RemoveMemberKeeps, DeleteOwnerKeeps
    DEF LoginsNext, LoginsInv
  <2> QED BY <1>1, <2>2, <2>3
<1> QED BY <1>1, LoginsInitially, PTL DEF LoginsSpec

(* OneAccountPerAddress: signing in with an address reaches one account, unless *)
(* two requests wrote that address over each other (routes/tenants.ts).        *)
THEOREM AddressesAreUnique == LoginsSpec => []OneAccountPerAddress
<1>1. ASSUME LoginsInv
      PROVE  OneAccountPerAddress
  <2> SUFFICES ASSUME NEW e \in Addresses \ contested
               PROVE  Cardinality(OwnersWith(e)) + Cardinality(MembersWith(e)) <= 1
    BY DEF OneAccountPerAddress
  <2>1. e # Unset
    BY LoginsAssumption
  <2>2. \A t, u \in OwnersWith(e) : t = u
    BY <1>1, <2>1 DEF LoginsInv, IndexInv, OwnersWith
  <2>3. \A x, y \in MembersWith(e) : x = y
    BY <1>1 DEF LoginsInv, IndexInv, MembersWith
  <2>4. OwnersWith(e) = {} \/ MembersWith(e) = {}
    BY <1>1, <2>1 DEF LoginsInv, AcrossInv, OwnersWith, MembersWith
  <2>5. ASSUME NEW S, \A x, y \in S : x = y
        PROVE  Cardinality(S) \in {0, 1}
    <3>1. CASE S = {}
      BY <3>1, FS_EmptySet
    <3>2. CASE S # {}
      <4>1. PICK x \in S : S = {x}
        BY <2>5, <3>2
      <4> QED BY <4>1, FS_Singleton
    <3> QED BY <3>1, <3>2
  <2>6. /\ Cardinality(OwnersWith(e)) \in {0, 1}
        /\ Cardinality(MembersWith(e)) \in {0, 1}
    BY <2>2, <2>3, <2>5
  <2> QED BY <2>4, <2>6, FS_EmptySet
<1> QED BY <1>1, LoginsAreConsistent, PTL
===============================================================================
