----------------------------- MODULE AuthSession -----------------------------
(***************************************************************************)
(* AuthSession::authenticate(): take the token given or ask the provider   *)
(* for one, at most max_retries times, with a pause between two attempts.  *)
(* A session is authenticated again and again, by one thread.  Nothing     *)
(* catches what the provider throws.                                       *)
(***************************************************************************)
EXTENDS Integers, Sequences

CONSTANTS
  Tokens,   \* the tokens that are not empty
  Retries   \* the values of max_retries

VARIABLES
  token,          \* token_
  authenticated,  \* authenticated_
  stage,          \* where the call is: "idle" after it returned, "thrown" after
                  \* the provider threw
  input,          \* its arguments
  asked,          \* history: what the provider answered; its length is attempts
  naps            \* history: pauses of kRetryDelayMs

vars == <<token, authenticated, stage, input, asked, naps>>

Empty == ""

Init ==
  /\ token = Empty /\ authenticated = FALSE /\ stage = "idle"
  /\ input = [token |-> Empty, provider |-> FALSE, retries |-> 0]
  /\ asked = <<>> /\ naps = 0

Call ==
  /\ stage \in {"idle", "thrown"} /\ stage' = "loop"
  /\ input' \in [token : Tokens \cup {Empty}, provider : BOOLEAN, retries : Retries]
  /\ token' = input'.token /\ asked' = <<>> /\ naps' = 0
  /\ UNCHANGED authenticated

Attempts == Len(asked)

Again_OneTooMany == token = Empty /\ input.provider /\ Attempts <= input.retries

Again == token = Empty /\ input.provider /\ Attempts < input.retries

Ask ==
  /\ stage = "loop" /\ Again
  /\ token' \in Tokens \cup {Empty} /\ asked' = Append(asked, token')
  /\ stage' = IF token' = Empty /\ Attempts + 1 < input.retries THEN "pause" ELSE "loop"
  /\ UNCHANGED <<authenticated, input, naps>>

(* The exception leaves authenticated_ as the call before has set it.      *)
AskThrows ==
  /\ stage = "loop" /\ Again /\ stage' = "thrown"
  /\ UNCHANGED <<token, authenticated, input, asked, naps>>

Pause ==
  /\ stage = "pause" /\ stage' = "loop" /\ naps' = naps + 1
  /\ UNCHANGED <<token, authenticated, input, asked>>

Return ==
  /\ stage = "loop" /\ ~Again /\ stage' = "idle" /\ authenticated' = (token # Empty)
  /\ UNCHANGED <<token, input, asked, naps>>

Next == Call \/ Ask \/ AskThrows \/ Pause \/ Return

Spec == Init /\ [][Next]_vars

(* What a call must have done by the time it returns: the provider is asked *)
(* only for want of a token, no more often than allowed and never again     *)
(* after an answer; the session is authenticated with the last answer.  A   *)
(* call that throws leaves no token, and has paused after every answer.     *)
OutcomeIsReference ==
  LET limit == IF input.token # Empty \/ ~input.provider \/ input.retries < 0
               THEN 0 ELSE input.retries
      last  == IF asked = <<>> THEN input.token ELSE asked[Len(asked)]
  IN /\ stage = "idle" =>
          /\ Len(asked) <= limit
          /\ \A i \in 1..Len(asked) - 1 : asked[i] = Empty
          /\ last = Empty => Len(asked) = limit
          /\ naps = IF asked = <<>> THEN 0 ELSE Len(asked) - 1
          /\ token = last /\ authenticated = (last # Empty)
     /\ stage = "thrown" => token = Empty /\ naps = Len(asked) /\ Len(asked) < limit
=============================================================================
